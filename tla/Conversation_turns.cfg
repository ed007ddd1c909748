SPECIFICATION TurnFairSpec
CONSTANTS
  MaxTurns = 2
  MaxRetries = 1
  NoKind = NoKind
  Allowances <- TurnAllowances
CHECK_DEADLOCK FALSE
INVARIANTS
  AnswerIsBacked
  ShownAnswerIsBound
  ContextIsVisible
PROPERTIES
  TurnIsFinal
  EveryTurnEnds
  EveryReaderIsTold
