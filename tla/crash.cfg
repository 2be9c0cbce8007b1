SPECIFICATION Spec
CONSTANTS
  t1 = t1 t2 = t2 m1 = m1 m2 = m2 r1 = r1 r2 = r2
  c1 = c1 c2 = c2 c3 = c3 k1 = k1 k2 = k2
  None = None
  Tasks = {t1}
  Turns = {m1}
  Replicas = {r1, r2}
  Calls = {c1, c2}
  TimerCalls = {k1, k2}
  Home <- HomeTwo
  SignedBy <- SignedLate
  Readings <- OneReading
  HostOps = {"reserveOpen", "commitOpen", "beginTurn", "finishTurn", "close"}
  MaxAmount = 2
  MinAmount = 1
  UnreportedUsage = "ceiling"
  IdleTime = 1
  MaxDuration = 1
  SlowStore = TRUE
  FlakyStore = FALSE
  GateMayFail = FALSE
  MayCrash = TRUE
  MaxRevision = 2
  MaxTime = 1
INVARIANTS SettledAtMostOnce
CHECK_DEADLOCK FALSE
