SPECIFICATION RecordsSpec
CONSTANTS
  l1 = l1
  l2 = l2
  NoCursor = NoCursor
  LastRecord = 2
  Hidden = {}
  Bounded = TRUE
  Lane = {l1, l2}
  MaxTime = 3
  MaxChanges = 2
  MaxJobs = 1
  MaxDisturbances = 1
  LastSource = 2
  PageSize = 1
  Sweeper = {l1, l2}
  NoSweeper = NoSweeper
  NoOwner = NoOwner
  MaxReads = 2
  Margins <- SomeMargins
CHECK_DEADLOCK FALSE
SYMMETRY Lanes
INVARIANTS
  NothingSkipped
  SweepIsReal
PROPERTIES
  CursorNeverMovesBack
  TombstonesAreProven
