CONSTANTS
  t0 = t0
  t1 = t1
  Tunings = {t0, t1}
  DefaultTuning = t0
  Models = {m1}
  Admins = {a1}
  Syncs = {s1, s2}
  MaxEdits = 2
  MaxSyncs = 2
  MaxFailures = 1
SPECIFICATION AuditSpec
SYMMETRY WriterSymmetry
INVARIANTS
  TypeOK
  SyncKeepsTuning
  FlagsSurvive
  StatusSurvives
PROPERTIES
  SettingsAreLive
CHECK_DEADLOCK FALSE
