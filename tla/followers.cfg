SPECIFICATION FairSpec
CONSTANTS
  r1 = r1 r2 = r2 r3 = r3 w1 = w1 w2 = w2 c1 = c1 c2 = c2
  None = None
  Runs = {r1, r2}
  Watchers = {w1}
  Cancels = {}
  Kinds = {"send", "detached", "stream"}
  Overlap = FALSE
  MayEvict = TRUE
  MaxStoreFailures = 1
  MaxArtifacts = 1
INVARIANTS TypeOK TurnsKeepArtifacts NotStranded
PROPERTIES SubscribersEnd
CHECK_DEADLOCK FALSE
