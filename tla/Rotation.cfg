CONSTANTS
  NumKeys = 2
  Models = {m1}
  NoModel = NoModel
  Mode = "priority-daily"
  DailyCap = 0
  DayLen = 10
  Window = 2
  DistinctKeys = 2
  MinBackoff = 1
  MaxBackoff = 3
  Idle = 4
  ClockLag = 0
  MaxNow = 2
  Requests = {r1, r2}
  ProviderTypes = {"zen", "openai", "anthropic"}
  MaxKeysPerRequest = 2
  CooldownSeconds = 0
  RetryAfters = {1}
  FaultCooldown = 1
  DefaultSurface = "responses"
  ServedSurfaces = {"chat"}
  Verdicts = {"ok", "badjson", "network", "limit", "account", "fault", "dead", "refused", "gated", "flip"}
  ReliableKeys = {1}
SPECIFICATION FairSpec
INVARIANTS
  TypeOK
  NoKeyTriedTwice
  FailoverReachesGoodKey
PROPERTIES
  EveryRequestEnds
CHECK_DEADLOCK FALSE
