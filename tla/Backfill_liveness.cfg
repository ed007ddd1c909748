SPECIFICATION FairSpec
CONSTANTS
  l1 = l1
  l2 = l2
  Lane = {l1, l2}
  LastPhase = 2
  LastPage = 0
  PagesPerClaim = 1
  MaxAttempts = 2
  MaxReplay = 3
  MaxFaults = 1
  NoLane = NoLane
  NoJob = NoJob
CHECK_DEADLOCK FALSE
PROPERTIES
  ProgressIsFinal
  BackfillCompletes
