------------------------------ MODULE Accounts ------------------------------
(***************************************************************************)
(* Accounts, their sessions, client keys and provider revocations          *)
(* (internal/gateway: api_users.go, api_useraccess.go, api_clientkeys.go,  *)
(* auth.go, roles.go; internal/store: users, sessions, api_keys,           *)
(* user_provider_access).                                                  *)
(*                                                                         *)
(* A handler authenticates its caller, reads the row it is about, checks,  *)
(* counts the superadmins, writes, cleans up and refreshes the keys: each  *)
(* one a statement of its own on the single SQLite connection, so other    *)
(* handlers run between any two.  The caller's row is the one read at the  *)
(* start.  What the checks do not look at (names, emails, the password     *)
(* itself) is left out; a patch changes one field.  A user has at most one *)
(* session, one client key and one revocable provider.  Of a refresh only  *)
(* the client keys are here, queried and installed without a lock; Rebuild *)
(* has the whole of it.                                                    *)
(***************************************************************************)
EXTENDS Naturals, FiniteSets

CONSTANTS
  Users,         \* account ids; an id is never used twice
  GoogleUsers,   \* those who may sign in with Google
  InitialUsers,  \* the users table at start
  Handlers,      \* requests in progress at the same time
  MaxWrites,     \* bound: requests made
  MaxFailures    \* bound: statements that fail

Roles == {"superadmin", "admin", "user"}
Account == [role : Roles, disabled : BOOLEAN, linked : BOOLEAN]
Unused == [role |-> "unused", disabled |-> FALSE, linked |-> FALSE]
Deleted == [role |-> "deleted", disabled |-> FALSE, linked |-> FALSE]

ASSUME AccountsAssumption ==
  /\ InitialUsers \in [Users -> Account \cup {Unused}]
  /\ \E u \in Users : InitialUsers[u].role = "superadmin" /\ ~InitialUsers[u].disabled
  /\ GoogleUsers \subseteq Users
  /\ MaxWrites \in Nat /\ MaxFailures \in Nat

VARIABLES
  users,      \* table users
  sessions,   \* table sessions: who has one
  keyRow,     \* table api_keys: "on", "off" or "none"
  access,     \* table user_provider_access: whom the provider is revoked for
  clients,    \* clientKeyCache: whose key is admitted
  h,          \* handler -> its request
  writes, failures  \* counters for the bounds

tables == <<users, sessions, keyRow, access>>
bounds == <<writes, failures>>
vars == <<tables, clients, h, bounds>>

Exists(u) == users[u].role \in Roles
IsAdmin(role) == role \in {"superadmin", "admin"}

\* A request: what it is for, its caller's id and role as authenticated, the
\* account it is about and the role read of that; what its refresh queried.
Idle == [pc |-> "idle", op |-> "", to |-> "", by |-> "", role |-> "", target |-> "", seen |-> "",
         copy |-> {}]

\* AllClientKeys: a key is off when it or its owner is.
\* Mutant of AdmittedKeys: the owner's switch is not consulted.
AdmittedWhateverOwner == {u \in Users : keyRow[u] = "on"}
AdmittedKeys == {u \in Users : keyRow[u] = "on" /\ ~users[u].disabled}

\* Mutant of Superadmins: the count includes disabled accounts.
AllSuperadmins == {u \in Users : users[u].role = "superadmin"}
\* CountSuperadmins
Superadmins == {u \in Users : users[u].role = "superadmin" /\ ~users[u].disabled}

\* accountChangeDenied
ChangeDenied(role, targetRole) == role # "superadmin" /\ targetRole = "superadmin"

\* roleGrantDenied
GrantDenied(role, to) == to = "superadmin" /\ role # "superadmin"

-----------------------------------------------------------------------------
Init ==
  /\ users = InitialUsers
  /\ sessions = {u \in Users : Exists(u) /\ ~users[u].disabled}
  /\ keyRow = [u \in Users |-> IF Exists(u) THEN "on" ELSE "none"]
  /\ access = {}
  /\ clients = AdmittedKeys
  /\ h = [a \in Handlers |-> Idle]
  /\ writes = 0
  /\ failures = 0

Moves(a, q) == h' = [h EXCEPT ![a] = q]
Goes(a, pc) == Moves(a, [h[a] EXCEPT !.pc = pc])
Done(a) == Moves(a, Idle)
\* Once it has written, of all it read only the account matters.
Written(a, pc) ==
  Moves(a, [Idle EXCEPT !.pc = pc, !.op = h[a].op, !.target = h[a].target])

(***************************************************************************)
(* Authentication and checks.                                              *)
(***************************************************************************)
PatchOps == {"role", "disable", "enable", "password"}
AdminOps == PatchOps \cup {"create", "delete", "access"}

\* SessionByHash: the session is there and its user exists and is enabled.
SignedIn(u) == u \in sessions /\ Exists(u) /\ ~users[u].disabled

\* requireSession, requireAdmin; the role read here is the one every later
\* check uses.
Begin(a, u, pc, op, to, t) ==
  /\ h[a].pc = "idle" /\ writes < MaxWrites
  /\ SignedIn(u)
  /\ op \in AdminOps => IsAdmin(users[u].role)
  /\ writes' = writes + 1
  /\ Moves(a, [pc |-> pc, op |-> op, to |-> to, by |-> u, role |-> users[u].role,
               target |-> t, seen |-> "", copy |-> {}])
  /\ UNCHANGED <<tables, clients, failures>>

\* handleCreateUser; the new id is nobody's yet.
BeginCreate(a, u, to, t) ==
  /\ users[t] = Unused /\ ~GrantDenied(users[u].role, to)
  /\ Begin(a, u, "write", "create", to, t)

\* handleChangeMyPassword: not with a Google account.
BeginOwnPassword(a, u) ==
  /\ ~users[u].linked
  /\ Begin(a, u, "read", "own password", "", u)

\* Removes a superadmin, as far as the handler can see.
Removes(q) ==
  /\ q.seen = "superadmin"
  /\ q.op \in {"disable", "delete"} \/ (q.op = "role" /\ q.to # "superadmin")

\* handlePatchUser and handleDeleteUser refuse after reading the target.
Refused(q) ==
  \/ q.seen \notin Roles
  \/ ChangeDenied(q.role, q.seen)
  \/ q.op = "role" /\ q.to # q.seen /\ GrantDenied(q.role, q.to)
  \/ q.op \in {"disable", "delete"} /\ q.by = q.target

ReadTarget(a) ==
  LET q == [h[a] EXCEPT !.seen = users[h[a].target].role] IN
  /\ h[a].pc = "read" /\ h[a].op \in PatchOps \cup {"delete"}
  /\ IF Refused(q) THEN Done(a)
     ELSE Moves(a, [q EXCEPT !.pc = IF Removes(q) THEN "count" ELSE "write"])
  /\ UNCHANGED <<tables, clients, bounds>>

CountAdmins(a) ==
  /\ h[a].pc = "count"
  /\ IF Cardinality(Superadmins) =< 1 THEN Done(a) ELSE Goes(a, "write")
  /\ UNCHANGED <<tables, clients, bounds>>

\* handleSetUserProviderAccess: admins always have every provider.
ReadAccessTarget(a) ==
  /\ h[a].pc = "read" /\ h[a].op = "access"
  /\ IF users[h[a].target].role = "user" THEN Goes(a, "write") ELSE Done(a)
  /\ UNCHANGED <<tables, clients, bounds>>

\* handleChangeMyPassword reads its caller again.
ReadSelf(a) ==
  /\ h[a].pc = "read" /\ h[a].op = "own password"
  /\ IF Exists(h[a].target) /\ ~users[h[a].target].disabled THEN Goes(a, "write") ELSE Done(a)
  /\ UNCHANGED <<tables, clients, bounds>>

\* patchKeyFor and deleteKeyFor find the row first.
ReadKey(a) ==
  /\ h[a].pc = "read" /\ h[a].op \in {"switch key", "delete key"}
  /\ IF keyRow[h[a].target] # "none" THEN Goes(a, "write") ELSE Done(a)
  /\ UNCHANGED <<tables, clients, bounds>>

(***************************************************************************)
(* The writes.                                                             *)
(***************************************************************************)
\* InsertUserWithDeniedProviders: the row and, for a regular user, the
\* revocations of the "new users" setting, in one transaction.  Two requests
\* for the same id stand for two with the same email: the second is refused.
InsertUser(a, revoked) ==
  LET q == h[a] IN
  /\ q.pc = "write" /\ q.op = "create"
  /\ IF users[q.target] # Unused
     THEN Done(a) /\ UNCHANGED tables
     ELSE /\ users' = [users EXCEPT ![q.target] = [role |-> q.to, disabled |-> FALSE, linked |-> FALSE]]
          /\ access' = IF q.to = "user" /\ revoked THEN access \cup {q.target} ELSE access
          /\ Written(a, "refresh")
          /\ UNCHANGED <<sessions, keyRow>>
  /\ UNCHANGED <<clients, bounds>>

Patched(q, row) ==
  CASE q.op = "role" -> [row EXCEPT !.role = q.to]
    [] q.op = "disable" -> [row EXCEPT !.disabled = TRUE]
    [] q.op = "enable" -> [row EXCEPT !.disabled = FALSE]
    [] OTHER -> row

\* Mutant of AfterUpdate: a promotion leaves the revocations in place.
AfterUpdateKeepingAccess(q) ==
  IF q.op \in {"password", "own password", "disable"} THEN "kill" ELSE "refresh"
\* What follows UpdateUser, by the row read before it.
AfterUpdate(q) ==
  CASE q.op = "role" /\ IsAdmin(q.to) /\ ~IsAdmin(q.seen) -> "clear"
    [] q.op \in {"password", "own password", "disable"} -> "kill"
    [] OTHER -> "refresh"

\* UpdateUser: no error when the row is gone.
UpdateUser(a) ==
  LET q == h[a] IN
  /\ q.pc = "write" /\ q.op \in PatchOps \cup {"own password"}
  /\ users' = IF Exists(q.target) THEN [users EXCEPT ![q.target] = Patched(q, @)] ELSE users
  /\ Written(a, AfterUpdate(q))
  /\ UNCHANGED <<sessions, keyRow, access, clients, bounds>>

ClearUserProviderAccess(a) ==
  /\ h[a].pc = "clear"
  /\ access' = access \ {h[a].target}
  /\ Written(a, "refresh")
  /\ UNCHANGED <<users, sessions, keyRow, clients, bounds>>

\* The password handlers end here, without a rebuild.
DeleteUserSessions(a) ==
  /\ h[a].pc = "kill"
  /\ sessions' = sessions \ {h[a].target}
  /\ IF h[a].op = "own password" THEN Done(a) ELSE Written(a, "refresh")
  /\ UNCHANGED <<users, keyRow, access, clients, bounds>>

\* DeleteUser: sessions and keys cascade.  Access rows stay behind, hidden by
\* the join with users.
DeleteUser(a) ==
  LET t == h[a].target IN
  /\ h[a].pc = "write" /\ h[a].op = "delete"
  /\ IF Exists(t)
     THEN /\ users' = [users EXCEPT ![t] = Deleted]
          /\ sessions' = sessions \ {t}
          /\ keyRow' = [keyRow EXCEPT ![t] = "none"]
          /\ Written(a, "refresh")
     ELSE Done(a) /\ UNCHANGED <<users, sessions, keyRow>>
  /\ UNCHANGED <<access, clients, bounds>>

SetUserProviderAccess(a) ==
  LET q == h[a] IN
  /\ q.pc = "write" /\ q.op = "access"
  /\ access' = IF q.to = "revoke" THEN access \cup {q.target} ELSE access \ {q.target}
  /\ Written(a, "refresh")
  /\ UNCHANGED <<users, sessions, keyRow, clients, bounds>>

SetKey(a, found, to) ==
  /\ IF found
     THEN keyRow' = [keyRow EXCEPT ![h[a].target] = to] /\ Written(a, "refresh")
     ELSE Done(a) /\ UNCHANGED keyRow
  /\ UNCHANGED <<users, sessions, access, clients, bounds>>

\* handleCreateMyKey: the owner's row must exist (foreign key).
CreateClientKey(a) ==
  /\ h[a].pc = "write" /\ h[a].op = "new key"
  /\ SetKey(a, Exists(h[a].target), "on")

SetClientKeyDisabled(a) ==
  /\ h[a].pc = "write" /\ h[a].op = "switch key"
  /\ SetKey(a, keyRow[h[a].target] # "none", h[a].to)

DeleteClientKey(a) ==
  /\ h[a].pc = "write" /\ h[a].op = "delete key"
  /\ SetKey(a, keyRow[h[a].target] # "none", "none")

(***************************************************************************)
(* applyMutation's rebuildPools reloads the client keys: AllClientKeys ... *)
(***************************************************************************)
QueryKeys(a) ==
  /\ h[a].pc = "refresh"
  /\ Moves(a, [h[a] EXCEPT !.pc = "install", !.copy = AdmittedKeys])
  /\ UNCHANGED <<tables, clients, bounds>>

\* ... and the Store.  Then the access cache is reloaded, which may fail, and
\* the request is answered.
InstallKeys(a) ==
  /\ h[a].pc = "install"
  /\ clients' = h[a].copy
  /\ failures' \in {failures, failures + 1} /\ failures' =< MaxFailures
  /\ Done(a)
  /\ UNCHANGED <<tables, writes>>

(***************************************************************************)
(* Signing in and out, the operator's reset, trouble.                      *)
(***************************************************************************)
\* handleLogin and handleGoogleLogin find an enabled account (SignIn has the
\* way there) ...
Login(a, u, method) ==
  /\ h[a].pc = "idle" /\ writes < MaxWrites
  /\ Exists(u) /\ ~users[u].disabled
  /\ method = "google" => u \in GoogleUsers
  /\ writes' = writes + 1
  /\ Moves(a, [Idle EXCEPT !.pc = IF method = "google" THEN "link" ELSE "mint",
                           !.op = "login", !.target = u])
  /\ UNCHANGED <<tables, clients, failures>>

\* ... a Google one is marked ...
LinkGoogleUser(a) ==
  LET u == h[a].target IN
  /\ h[a].pc = "link"
  /\ IF Exists(u)
     THEN users' = [users EXCEPT ![u].linked = TRUE] /\ Goes(a, "mint")
     ELSE Done(a) /\ UNCHANGED users
  /\ UNCHANGED <<sessions, keyRow, access, clients, bounds>>

\* Mutant of StartSession: the owner may be gone.
StartSessionUnchecked(a) ==
  /\ h[a].pc = "mint"
  /\ sessions' = sessions \cup {h[a].target}
  /\ Done(a)
  /\ UNCHANGED <<users, keyRow, access, clients, bounds>>

\* ... and startSession creates the session, whose owner must exist.
StartSession(a) ==
  LET u == h[a].target IN
  /\ h[a].pc = "mint"
  /\ sessions' = IF Exists(u) THEN sessions \cup {u} ELSE sessions
  /\ Done(a)
  /\ UNCHANGED <<users, keyRow, access, clients, bounds>>

Logout(u) ==
  /\ u \in sessions /\ writes < MaxWrites
  /\ writes' = writes + 1
  /\ sessions' = sessions \ {u}
  /\ UNCHANGED <<users, keyRow, access, clients, h, failures>>

\* ResetAdminPassword, run by hand on the box: no session, no checks.
ResetPassword(a, u) ==
  /\ h[a].pc = "idle" /\ writes < MaxWrites
  /\ Exists(u)
  /\ writes' = writes + 1
  /\ Moves(a, [Idle EXCEPT !.pc = "write", !.op = "own password", !.target = u])
  /\ UNCHANGED <<tables, clients, failures>>

\* A statement fails: the handler answers an error and leaves what it wrote.
Fails(a) ==
  /\ h[a].pc \notin {"idle", "install"} /\ failures < MaxFailures
  /\ failures' = failures + 1
  /\ Done(a)
  /\ UNCHANGED <<tables, clients, writes>>

\* The process stops at any point; Bootstrap refuses a users table without a
\* superadmin.
Restart ==
  /\ \E u \in Users : users[u].role = "superadmin"
  /\ clients' = AdmittedKeys
  /\ h' = [a \in Handlers |-> Idle]
  /\ UNCHANGED <<tables, bounds>>

BeginAny(a) ==
  \E u \in Users :
    \/ BeginOwnPassword(a, u)
    \/ Begin(a, u, "write", "new key", "", u) \/ Begin(a, u, "read", "delete key", "", u)
    \/ \E to \in {"on", "off"} : Begin(a, u, "read", "switch key", to, u)
    \/ \E t \in Users :
         \/ \E to \in Roles : BeginCreate(a, u, to, t) \/ Begin(a, u, "read", "role", to, t)
         \/ \E op \in {"disable", "enable", "password", "delete"} : Begin(a, u, "read", op, "", t)
         \/ \E to \in {"revoke", "grant"} : Begin(a, u, "read", "access", to, t)

Check(a) ==
  ReadTarget(a) \/ CountAdmins(a) \/ ReadAccessTarget(a) \/ ReadSelf(a) \/ ReadKey(a)

Write(a) ==
  \/ \E revoked \in BOOLEAN : InsertUser(a, revoked)
  \/ UpdateUser(a) \/ DeleteUser(a) \/ SetUserProviderAccess(a)
  \/ CreateClientKey(a) \/ SetClientKeyDisabled(a) \/ DeleteClientKey(a)

Follow(a) ==
  ClearUserProviderAccess(a) \/ DeleteUserSessions(a) \/ QueryKeys(a)

SignIn(a) ==
  \/ \E u \in Users, method \in {"password", "google"} : Login(a, u, method)
  \/ LinkGoogleUser(a) \/ StartSession(a)

Step(a) ==
  \/ BeginAny(a) \/ Check(a) \/ Write(a) \/ Follow(a) \/ SignIn(a) \/ Fails(a)
  \/ \E u \in Users : ResetPassword(a, u)

Next ==
  \/ \E a \in Handlers : Step(a) \/ InstallKeys(a)
  \/ \E u \in Users : Logout(u)
  \/ Restart

Spec == Init /\ [][Next]_vars
=============================================================================
