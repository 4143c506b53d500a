CONSTANTS
  NumKeys = 2
  Models = {m1, m2}
  NoModel = NoModel
  Mode = "priority-daily"
  DailyCap = 2
  DayLen = 2
  ClockLag = 1
  MaxNow = 3
  MaxBackdated = 1
  Cooldowns = {1}
SPECIFICATION AuditSpec
SYMMETRY ModelSymmetry
VIEW Live
INVARIANTS
  AuditTypeOK
  CapRespected
  RetryAfterHonest
  RateLimitReportIsReal
PROPERTIES
  RateLimitStaysWithModel
CHECK_DEADLOCK FALSE
