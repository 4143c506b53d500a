CONSTANTS
  zen = zen
  custom = custom
  k1 = k1
  Providers = {zen, custom}
  Zen = zen
  Order <- MCOrder
  Keys = {k1}
  InitialKeys <- MCInitialKeys
  ClientKeys = {c1}
  Admins = {a1, a2}
  Requests = {}
  MaxWrites = 2
  MaxFetches = 0
  MaxFailures = 0
SPECIFICATION AuditSpec
SYMMETRY HandlerSymmetry
INVARIANT AnsweredChangesAreLive
CHECK_DEADLOCK FALSE
