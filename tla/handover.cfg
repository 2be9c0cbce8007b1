SPECIFICATION Spec
CONSTANTS
  r1 = r1 r2 = r2 r3 = r3 w1 = w1 w2 = w2 c1 = c1 c2 = c2
  None = None
  Runs = {r1, r2}
  Watchers = {w1}
  Cancels = {c1}
  Kinds = {"send", "detached", "stream"}
  Overlap = TRUE
  MayEvict = FALSE
  MaxStoreFailures = 0
  MaxArtifacts = 0
SYMMETRY RunSymmetry
INVARIANTS OneOutcome
CHECK_DEADLOCK FALSE
