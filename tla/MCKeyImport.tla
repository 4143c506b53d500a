---------------------------- MODULE MCKeyImport ----------------------------
(***************************************************************************)
(* Small instances of KeyImportAudit for TLC.                              *)
(***************************************************************************)
EXTENDS KeyImportAudit, TLC

CONSTANTS g1, g2, b1

MCFiles == {<<g1, b1, g2>>, <<g2, Blank, g2>>, <<g2, g1>>}
Symmetry == Permutations(Requests)
=============================================================================
