----------------------------- MODULE MCSignIn -----------------------------
(***************************************************************************)
(* Small instances of SignInAudit for TLC.                                 *)
(***************************************************************************)
EXTENDS SignInAudit, TLC

Symmetry == Permutations(Logins) \cup Permutations(Kids)
=============================================================================
