CONSTANTS
  o1 = o1
  o2 = o2
  Owners = {o1, o2}
  Nobody = Nobody
  Requests = {r1, r2}
  BufferMax = 2
  RingSize = 2
  Retention = 1
  FirstDay = 3
  Starts <- MCStarts
  MaxMishaps = 1
  Bucket = 2
  Tz = 1
  MaxBuckets = 5
  Ranges <- MCRanges
  Top = 1
  PageSize = 1
SPECIFICATION AuditSpec
SYMMETRY Symmetry
INVARIANTS
  TypeOK
  AccountedOnce
  ActivityNewestFirst
  ReportsAddUp
  WalkMissesNothing
CHECK_DEADLOCK FALSE
