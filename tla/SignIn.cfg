CONSTANTS
  Pairs = {google, alice}
  GooglePair = google
  Logins = {l1, l2}
  MaxFails = 3
  Window = 2
  LockoutFor = 2
  Kids = {k1, k2}
  TTLs = {1, 3}
  FetchEvery = 2
  FetchTimeout = 2
SPECIFICATION SignInAuditSpec
SYMMETRY Symmetry
INVARIANTS
  SignInTypeOK
  GuessesBounded
PROPERTIES
  WithdrawnKeysExpire
CHECK_DEADLOCK FALSE
