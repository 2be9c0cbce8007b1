SPECIFICATION Spec
CONSTANTS
  Absent = Absent
  c1 = c1 c2 = c2
  Clients = {c1, c2}
  TaskNames <- MCTaskNames
  Assigned <- MCAssigned
  Worlds <- MCWorlds
  MaxCalls = 3
  MaxLosses = 1
INVARIANT InlineConfigAccepted
CHECK_DEADLOCK FALSE
