---------------------------- MODULE MCRateBreaker ----------------------------
(***************************************************************************)
(* Small instances of RateBreakerAudit for TLC.                            *)
(***************************************************************************)
EXTENDS RateBreakerAudit, TLC

KeySymmetry == Permutations(KeyHashes)
=============================================================================
