SPECIFICATION Spec
CONSTANTS
  c1 = c1 c2 = c2 c3 = c3
  Calls = {c1, c2}
  MaxAttempts = 3
  Retries = 1
  Price = 2
  Charges = {0, 1, 2}
  Deposit = 3
  MayCrash = TRUE
  MaxFaults = 1
INVARIANTS OneAtRisk RecordAgrees NoneSignsBehindRisk CallPaysOnce LeaseInHand
SYMMETRY CallSymmetry
CHECK_DEADLOCK FALSE
