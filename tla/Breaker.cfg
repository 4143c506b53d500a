CONSTANTS
  Models = {m1, m2}
  KeyHashes = {h1, h2}
  Window = 2
  DistinctKeys = 2
  MinBackoff = 1
  MaxBackoff = 4
  Idle = 4
  Cools = {0, 5}
  Floors = {0}
  ClockLag = 1
  MaxNow = 7
SPECIFICATION AuditSpec
SYMMETRY KeySymmetry
INVARIANTS
  TypeOK
  BurstDoesNotCompound
PROPERTIES
  IdleEntriesDropped
  ImplementsPolicy
CHECK_DEADLOCK FALSE
