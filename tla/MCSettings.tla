------------------------------ MODULE MCSettings ------------------------------
(***************************************************************************)
(* Small instances of SettingsAudit for TLC.  Handlers are interchangeable, *)
(* and so are sync slots.                                                  *)
(***************************************************************************)
EXTENDS SettingsAudit, TLC

WriterSymmetry == Permutations(Admins) \cup Permutations(Syncs)
=============================================================================
