---------------------------- MODULE RebuildAudit ----------------------------
(***************************************************************************)
(* What a GUI change promises, and what survives it.  Four history         *)
(* variables no code reads.                                                *)
(***************************************************************************)
EXTENDS Rebuild

VARIABLES
  solo,     \* handler -> its mutation has overlapped with no other so far
  settled,  \* the last mutation to end was solo and did not fail
  rejected, \* rows whose key the upstream rejected for good
  asked,    \* handler -> the row it was asked to switch on
  lifted    \* rows an admin switched on again, not rejected since

auditVars == <<vars, solo, settled, rejected, asked, lifted>>

Idle(a) == admin[a].pc = "idle"
Begins(a) == Idle(a) /\ ~Idle(a)'
Ends(a) == ~Idle(a) /\ Idle(a)'
Fails == failures' # failures

\* Between its queries and its swap a rebuild works on copies.
Rebuilding == \E a \in Admins : admin[a].pc \in {"keys", "copy", "swap"}

\* The row's key is on one provider only, in the database and in the pools.
Exclusive(row) ==
  /\ \A other \in Rows \ {row} : other[2] = row[2] => keyRow[other] = "none"
  /\ \A p \in Providers \ {row[1]} : row[2] \notin Live[p].keys

\* The rejection request r files now is one on a live pool.
RejectedNow ==
  {req[r].key : r \in {s \in Requests :
     /\ req[s].pc = "call" /\ req'[s].pc = "pick"
     /\ req[s].gen = registry.gen}}

RejectedKeys ==
  {req[r].key[2] : r \in {s \in Requests : req[s].pc = "call" /\ req'[s].pc = "pick"}}

LiftedKeys ==
  {admin[a].revive[2] : a \in {b \in Admins : admin[b].pc = "revive" /\ Ends(b)}}

\* No write of this step concerns the row.
Undisturbed(row) ==
  /\ keyRow'[row] = "on" /\ Exclusive(row)'
  /\ status'[row[1]] = "on" \/ row[1] = Zen

AuditInit ==
  /\ Init
  /\ solo = [a \in Admins |-> TRUE]
  /\ settled = TRUE
  /\ rejected = {}
  /\ asked = [a \in Admins |-> NoRow]
  /\ lifted = {}

Notes ==
  /\ solo' = [a \in Admins |->
                IF Begins(a) THEN \A b \in Admins \ {a} : Idle(b)
                ELSE solo[a] /\ (Idle(a) \/ ~\E b \in Admins : Begins(b))]
  /\ settled' = IF \E a \in Admins : Ends(a)
                THEN ~Fails /\ \E a \in Admins : Ends(a) /\ solo[a]
                ELSE settled
  /\ rejected' = {row \in rejected \cup
                         (IF Rebuilding THEN {} ELSE RejectedNow) :
                    Undisturbed(row) /\ row[2] \notin LiftedKeys}
  /\ asked' = [a \in Admins |->
                 CASE Ends(a) -> NoRow
                   [] Begins(a) ->
                        IF \E row \in Rows : SwitchKey(a, row, "on")
                        THEN CHOOSE row \in Rows : SwitchKey(a, row, "on")
                        ELSE NoRow
                   [] OTHER -> asked[a]]
  /\ lifted' = {row \in lifted \cup
                       {asked[a] : a \in {b \in Admins :
                          /\ Ends(b) /\ solo[b] /\ ~Fails /\ asked[b] # NoRow
                          /\ asked[b][1] \in registry.routable}} :
                  /\ Undisturbed(row) /\ status'[row[1]] = "on"
                  /\ row[2] \notin RejectedKeys}

AuditRestart ==
  /\ Restart
  /\ solo' = [a \in Admins |-> TRUE]
  /\ settled' = TRUE
  /\ rejected' = {} /\ lifted' = {}
  /\ asked' = [a \in Admins |-> NoRow]

AuditNext == (Running /\ Notes) \/ AuditRestart
AuditSpec == AuditInit /\ [][AuditNext]_auditVars

-----------------------------------------------------------------------------
PoolState == {pool \in [keys : SUBSET Keys, dead : SUBSET Keys] : pool.dead \subseteq pool.keys}

\* Type invariant: rows, caches, mutations and requests stay in their domains;
\* no pool holds the disable of a key it does not have.
TypeOK ==
  /\ status \in [Providers -> {"on", "off", "none"}]
  /\ keyRow \in [Rows -> {"on", "off", "none"}]
  /\ clientRow \subseteq ClientKeys /\ clients \subseteq ClientKeys
  /\ accessRow \subseteq ClientKeys \X Providers
  /\ denied \subseteq ClientKeys \X Providers
  /\ \A g \in Generations, p \in Providers : pools[g][p] \in PoolState
  /\ registry.gen \in Generations /\ registry.routable \subseteq Providers
  /\ catalog.providers \cup fetching.providers \subseteq Providers
  /\ \A a \in Admins : admin[a].pc = "idle" => admin[a] = IdleAdmin
  /\ \A r \in Requests : req[r].pc = "idle" => req[r] = IdleRequest

AllIdle == \A a \in Admins : Idle(a)

\* Every copy the hot path reads agrees with the database.
InStep ==
  /\ registry.routable = Routable(status)
  /\ \A p \in registry.routable : Live[p].keys = EnabledKeys(keyRow, p)
  /\ clients = clientRow
  /\ denied = accessRow
  /\ catalog.valid => catalog.providers \subseteq Routable(status)

\* "GUI changes hit the hot path within the same request" (rebuildPools), as
\* far as it holds: once a mutation that overlapped with no other has been
\* answered, registry, pools, client keys, access and catalog all show the
\* database - whatever earlier mutations, failures and fetches left behind.
ChangesAreLive == settled /\ AllIdle => InStep

\* "The runtime disable survives pool rebuilds" (KeyState.DisabledReason):
\* a key rejected on the live pool while no rebuild was copying it is still
\* out of rotation after any number of concurrent rebuilds, until its row or
\* provider is touched or an admin switches it on.
DisableSurvivesRebuilds ==
  \A row \in rejected :
    row[2] \in Live[row[1]].keys => row[2] \in Live[row[1]].dead

\* "It ends when the admin toggles the key": once an undisturbed switch-on of
\* a routable provider's key is answered, the key is back in rotation, and no
\* later rebuild brings an old disable back.
ReenableSticks == \A row \in lifted : row[2] \notin Live[row[1]].dead

-----------------------------------------------------------------------------
\* gateway.go:149, as stated: an answered change is live.  It fails when two
\* mutations overlap: the one that read the database first may install last.
AnsweredChangesAreLive == AllIdle /\ failures = 0 => InStep
=============================================================================
