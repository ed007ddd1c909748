SPECIFICATION ServicesSpec
CONSTANTS
  k1 = k1
  k2 = k2
  Eraser = {k1, k2}
  w1 = w1
  Writer = {w1}
  Nobody = Nobody
  MaxAttempts = 2
  MaxNumber = 1
  MaxMessages = 2
  Spares <- SomeSpares
  c1 = c1
  c2 = c2
  c3 = c3
  Call = {c1, c2, c3}
  NoCall = NoCall
  MaxFaults = 1
  MaxSelections = 1
  l1 = l1
  LastSource = 2
  PageSize = 1
  Sweeper = {l1}
  NoSweeper = NoSweeper
  NoOwner = NoOwner
  MaxReads = 2
  Margins <- SomeMargins
CHECK_DEADLOCK FALSE
INVARIANTS
  ProofIsTrue
  LiveConnectionIsWhole
  HolderMeetsNoConflict
  ConcurrencyKeepsToken
  NoReplay
PROPERTIES
  SweepIsPursued
  EvidenceIsKept
  CredentialIsDestroyed
  DeletionIsPursued
  LeaseIsKept
  EveryCallEnds
