CONSTANTS
  Routes <- ZenResponsesStream
  MaxSaid = 6
  MaxAsides = 1
  MaxCalls = 2
SPECIFICATION ExchangeSpec
INVARIANTS
  CallsSurvive
CHECK_DEADLOCK FALSE
