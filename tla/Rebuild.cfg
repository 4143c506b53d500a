CONSTANTS
  zen = zen
  custom = custom
  k1 = k1
  Providers = {zen, custom}
  Zen = zen
  Order <- MCOrder
  Keys = {k1}
  InitialKeys <- MCInitialKeys
  ClientKeys = {c1}
  Admins = {a1, a2}
  Requests = {r1}
  MaxWrites = 2
  MaxFetches = 1
  MaxFailures = 1
SPECIFICATION AuditSpec
SYMMETRY HandlerSymmetry
INVARIANTS
  TypeOK
  ChangesAreLive
  DisableSurvivesRebuilds
  ReenableSticks
CHECK_DEADLOCK FALSE
