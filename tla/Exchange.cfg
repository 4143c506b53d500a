CONSTANTS
  Routes <- EveryRoute
  MaxSaid = 7
  MaxAsides = 1
  MaxCalls = 2
SPECIFICATION ExchangeSpec
INVARIANTS
  TurnsKept
  AnswerKept
  StreamWellFormed
CHECK_DEADLOCK FALSE
