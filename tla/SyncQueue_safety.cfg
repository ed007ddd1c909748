SPECIFICATION FairSpec
CONSTANTS
  j1 = j1
  j2 = j2
  l1 = l1
  l2 = l2
  w1 = w1
  Job = {j1, j2}
  Lane = {l1, l2}
  Worker = {w1}
  WorkerOf <- SharedWorker
  QueueOf <- FirstAndLast
  Malformed = {j1}
  MaxAttempts = 2
  MaxReads = 4
  MaxDisturbances = 2
  NoWorker = NoWorker
  NoClaim = NoClaim
  NoLane = NoLane
INVARIANTS
  TypeOK
  SingleLease
  NoLostJob
  LedgerExplains
  DeadLetterJustified
PROPERTIES
  HistoryIsFinal
  KeepsPromise
  EveryJobResolves
