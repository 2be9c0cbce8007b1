SPECIFICATION FairSpec
CONSTANTS
  t1 = t1 t2 = t2 m1 = m1 m2 = m2 r1 = r1 r2 = r2
  c1 = c1 c2 = c2 c3 = c3 k1 = k1 k2 = k2
  None = None
  Tasks = {t1}
  Turns = {m1, m2}
  Replicas = {r1}
  Calls = {c1}
  TimerCalls = {k1}
  Home <- HomeOne
  SignedBy <- SignedLate
  Readings <- OneReading
  HostOps = {"open", "beginTurn", "finishTurn", "cancelTurn", "recordTurn", "close"}
  MaxAmount = 2
  MinAmount = 1
  UnreportedUsage = "floor"
  IdleTime = 1
  MaxDuration = 2
  SlowStore = FALSE
  FlakyStore = FALSE
  GateMayFail = FALSE
  MayCrash = FALSE
  MaxRevision = 3
  MaxTime = 2
PROPERTIES NoStuckSession
CHECK_DEADLOCK FALSE
