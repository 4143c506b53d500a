--------------------------- MODULE AccountsAudit ---------------------------
(***************************************************************************)
(* What the account rules promise when handlers overlap, fail or stop half *)
(* way.  Eight history variables no code reads.  A refresh holds its copy  *)
(* of the client keys from the query to the install; two that hold one at  *)
(* a time may install them in either order.                                *)
(***************************************************************************)
EXTENDS Accounts

VARIABLES
  stale,   \* handlers whose target was changed since they read it or counted
  raced,   \* some handler has written on such a check
  partial, \* a promotion has stopped before it cleared the revocations
  standing,  \* handlers whose deactivation or deletion is written, not undone
  cutOff,    \* accounts whose deactivation or deletion was put into effect
  before,    \* pairs of handlers that hold a copy, by the order they queried
  overtaken, \* those of them whose copy is older than one installed since
  regressed  \* the keys in use are such an older copy

auditVars ==
  <<vars, stale, raced, partial, standing, cutOff, before, overtaken, regressed>>

AuditInit ==
  /\ Init
  /\ stale = {} /\ raced = FALSE /\ partial = FALSE
  /\ standing = {} /\ cutOff = {}
  /\ before = {} /\ overtaken = {} /\ regressed = FALSE

Checked(a) == h[a].pc \in {"count", "write"} /\ h[a].op # "create"
WritesNow(a) == h[a].pc \in {"write", "clear"} /\ h'[a] # h[a] /\ <<users, access>>' # <<users, access>>
Stops(a) == h[a].pc = "clear" /\ h'[a].pc = "idle"

\* Neither may use a key any more.
Gone == {u \in Users : ~Exists(u) \/ users[u].disabled}
CutsOff(a) ==
  /\ h[a].pc = "write" /\ h[a].op \in {"disable", "delete"}
  /\ h'[a].pc \in {"kill", "refresh"}

Holders == {a \in Handlers : h[a].pc = "install"}
Queries(a) == h[a].pc = "refresh" /\ h'[a].pc = "install"

NotesChecks ==
  /\ stale' = IF \E a \in Handlers : WritesNow(a)
              THEN {b \in Handlers : ~WritesNow(b) /\ Checked(b)'}
              ELSE {b \in stale : h'[b].pc # "idle"}
  /\ raced' = (raced \/ \E a \in stale : WritesNow(a))
  /\ partial' = (partial \/ \E a \in Handlers : Stops(a))

NotesCutOffs(installed) ==
  /\ standing' = {a \in standing \cup {b \in Handlers : CutsOff(b)} :
                    h'[a].pc # "idle" /\ h[a].target \in Gone'}
  /\ cutOff' = (cutOff \cup {h[a].target : a \in standing \cap installed}) \cap Gone'

NotesRefreshes(installed) ==
  /\ before' = (before \cup (Holders \X {b \in Handlers : Queries(b)}))
                  \cap (Holders' \X Holders')
  /\ overtaken' = (overtaken \cup {a \in Handlers : \E b \in installed : <<a, b>> \in before})
                     \cap Holders'

\* The handlers that install their copy in this step, and whether the keys in
\* use after it are an overtaken one.
Notes(installed, older) ==
  /\ NotesChecks /\ NotesCutOffs(installed) /\ NotesRefreshes(installed)
  /\ regressed' = older

AuditNext ==
  \/ \E a \in Handlers : Step(a) /\ Notes({}, regressed)
  \/ \E a \in Handlers : InstallKeys(a) /\ Notes({a}, a \in overtaken)
  \/ \E u \in Users : Logout(u) /\ Notes({}, regressed)
  \/ Restart /\ Notes({}, FALSE)
AuditSpec == AuditInit /\ [][AuditNext]_auditVars

-----------------------------------------------------------------------------
\* Type invariant: rows, caches and requests stay in their domains; only
\* existing accounts have sessions or keys.
TypeOK ==
  /\ users \in [Users -> Account \cup {Unused, Deleted}]
  /\ sessions \subseteq {u \in Users : Exists(u)}
  /\ keyRow \in [Users -> {"on", "off", "none"}]
  /\ \A u \in Users : keyRow[u] # "none" => Exists(u)
  /\ access \subseteq Users /\ clients \subseteq Users
  /\ \A a \in Handlers : h[a].pc = "idle" => h[a] = Idle

\* "Cannot demote / disable / delete the last remaining superadmin"
\* (api_users.go:175, 181, 262), as far as it holds: while every account
\* change writes what it has checked, some enabled superadmin remains, through
\* failures and restarts - so Bootstrap never finds a table it refuses.
SuperadminRemains ==
  raced \/ \E u \in Users : users[u].role = "superadmin" /\ ~users[u].disabled

\* "Deactivating the account is the admin's way to cut a user's API access"
\* (api_clientkeys.go:67), as far as it holds: once the deactivation or
\* deletion is answered the account's key is not admitted, whatever other
\* handlers, failures and restarts do, until the account is enabled again -
\* except while the keys in use are a copy queried before, and installed
\* after, a newer one (clientkeys.go:34-44 holds no lock).  The next refresh
\* that is not overtaken itself, or a restart, ends that.
CutOffStaysOut == regressed \/ cutOff \cap clients = {}

\* "Run on promotion so old revocations can't resurface on a later demotion"
\* (store.go:560), as far as it holds: unless a promotion stopped half way or
\* a change raced, no admin has revocations stored.
PromotionClears ==
  raced \/ partial \/
  \A u \in access : IsAdmin(users[u].role) =>
    \E a \in Handlers : h[a].pc = "clear" /\ h[a].target = u
=============================================================================
