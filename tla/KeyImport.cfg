CONSTANTS
  g1 = g1
  g2 = g2
  b1 = b1
  GoodKeys = {g1, g2}
  BadKeys = {b1}
  Files <- MCFiles
  Requests = {r1, r2}
  Parallel = 2
  MaxWrites = 3
SPECIFICATION AuditSpec
SYMMETRY Symmetry
INVARIANTS
  BadKeysStayOut
  FileOrderKept
  ChecksHold
CHECK_DEADLOCK FALSE
