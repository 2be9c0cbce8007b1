SPECIFICATION Spec
CONSTANTS
  r1 = r1 r2 = r2 r3 = r3
  Requests = {r1, r2, r3}
  MaxGeneration = 3
  MaxCallbacks = 4
INVARIANTS RenewedWhenRefused RetryIsNewer
PROPERTY RequestsEnd
CHECK_DEADLOCK FALSE
