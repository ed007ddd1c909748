SPECIFICATION ServicesSpec
CONSTANTS
  k1 = k1
  k2 = k2
  Eraser = {k1, k2}
  w1 = w1
  Writer = {w1}
  Nobody = Nobody
  MaxAttempts = 2
  MaxNumber = 1
  MaxMessages = 2
  Spares <- NoMishap
  c1 = c1
  c2 = c2
  c3 = c3
  Call = {c1}
  NoCall = NoCall
  MaxFaults = 0
  MaxSelections = 0
  l1 = l1
  LastSource = 2
  PageSize = 1
  Sweeper = {l1}
  NoSweeper = NoSweeper
  NoOwner = NoOwner
  MaxReads = 2
  Margins <- NoMargin
CHECK_DEADLOCK FALSE
INVARIANTS
  OutcomeIsProved
