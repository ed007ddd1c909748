SPECIFICATION CursorSpec
CONSTANTS
  l1 = l1
  l2 = l2
  NoCursor = NoCursor
  LastRecord = 2
  Hidden = {1}
  Bounded = FALSE
  Lane = {l1}
  MaxTime = 3
  MaxChanges = 2
  MaxJobs = 1
  MaxDisturbances = 0
CHECK_DEADLOCK FALSE
INVARIANTS
  AtLeastOnce
