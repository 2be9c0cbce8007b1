SPECIFICATION Spec
CONSTANTS
  c1 = c1 c2 = c2 c3 = c3 d1 = d1 p1 = p1 p2 = p2
  DeliveryTimings = {"after-settlement", "after-verification"}
  Calls = {c1, c2}
  Publishers = {d1}
  Payments = {p1, p2}
  Schemes = {"exact", "upto", "batch"}
  ExactTimings = {"before-work", "after-work"}
  LateAsks = TRUE
  MayExpire = FALSE
  MayCrash = FALSE
  MaxFaults = 0
SYMMETRY CallSymmetry
PROPERTIES CompletedKept
CHECK_DEADLOCK FALSE
