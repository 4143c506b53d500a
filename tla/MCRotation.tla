------------------------------ MODULE MCRotation ------------------------------
(***************************************************************************)
(* The instance of RotationAudit for TLC; Rotation.cfg gives its constants. *)
(***************************************************************************)
EXTENDS RotationAudit
=============================================================================
