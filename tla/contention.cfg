SPECIFICATION Spec
CONSTANTS
  t1 = t1 t2 = t2 m1 = m1 m2 = m2 r1 = r1 r2 = r2
  c1 = c1 c2 = c2 c3 = c3 k1 = k1 k2 = k2
  None = None
  Tasks = {t1, t2}
  Turns = {}
  Replicas = {r1}
  Calls = {c1, c2}
  TimerCalls = {k1}
  Home <- HomeOne
  SignedBy <- SignedLate
  Readings <- OneReading
  HostOps = {"reserveOpen", "commitOpen", "cancelOpen", "authorizeDelivery", "close", "forgetClosed"}
  MaxAmount = 2
  MinAmount = 0
  UnreportedUsage = "floor"
  IdleTime = 1
  MaxDuration = 1
  SlowStore = FALSE
  FlakyStore = TRUE
  GateMayFail = TRUE
  MayCrash = FALSE
  MaxRevision = 2
  MaxTime = 1
INVARIANTS OwnershipInv ActiveHoldsUnspent RecordTellsOutcome
PROPERTIES EvidenceKept OnlyClosedRemoved KeepsPromise
CHECK_DEADLOCK FALSE
SYMMETRY CallTaskSymmetry
