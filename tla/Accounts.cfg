CONSTANTS
  root = root
  peer = peer
  Users = {root, peer, new}
  GoogleUsers = {new}
  InitialUsers <- MCInitialUsers
  Handlers = {a1, a2}
  MaxWrites = 3
  MaxFailures = 1
SPECIFICATION AuditSpec
SYMMETRY Symmetry
INVARIANTS
  TypeOK
  SuperadminRemains
  CutOffStaysOut
  PromotionClears
CHECK_DEADLOCK FALSE
