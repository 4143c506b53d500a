----------------------------- MODULE MCAccounts -----------------------------
(***************************************************************************)
(* Small instances of AccountsAudit for TLC: two superadmins and an id     *)
(* for a new account.  Handlers are interchangeable, and so are the two.   *)
(***************************************************************************)
EXTENDS AccountsAudit, TLC

CONSTANTS root, peer

Enabled(role) == [role |-> role, disabled |-> FALSE, linked |-> FALSE]
MCInitialUsers ==
  [u \in Users |-> IF u \in {root, peer} THEN Enabled("superadmin") ELSE Unused]

Symmetry == Permutations(Handlers) \cup Permutations({root, peer})
=============================================================================
