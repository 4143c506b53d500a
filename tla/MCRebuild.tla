------------------------------ MODULE MCRebuild ------------------------------
(***************************************************************************)
(* Small instances of RebuildAudit for TLC: zen with one key and a custom  *)
(* provider that may get the same one.  Handlers are interchangeable.      *)
(***************************************************************************)
EXTENDS RebuildAudit, TLC

CONSTANTS zen, custom, k1

MCOrder == (zen :> 0) @@ (custom :> 1)
MCInitialKeys == (zen :> {k1}) @@ (custom :> {})

HandlerSymmetry == Permutations(Admins)
=============================================================================
