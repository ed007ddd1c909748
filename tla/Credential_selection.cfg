SPECIFICATION RefreshSpec
CONSTANTS
  c1 = c1
  c2 = c2
  c3 = c3
  Call = {c1, c2, c3}
  NoCall = NoCall
  MaxFaults = 0
  MaxSelections = 1
CHECK_DEADLOCK FALSE
INVARIANTS
  RotationIsKept
