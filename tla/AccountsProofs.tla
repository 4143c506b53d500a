---------------------------- MODULE AccountsProofs ----------------------------
(***************************************************************************)
(* Theorems about the account rules, for any number of accounts, handlers, *)
(* failures and restarts, and about the way to a session, for any number   *)
(* of pairs and keys, any limits and any finite number of sign-ins.        *)
(***************************************************************************)
EXTENDS AccountsAudit, SignInAudit, FiniteSetTheorems, TLAPS

Phase == {"idle", "read", "count", "write", "clear", "kill", "refresh", "install", "link", "mint"}
Row == Account \cup {Unused, Deleted}

Ops == AdminOps \cup {"", "own password", "new key", "switch key", "delete key", "login"}

Request ==
  [ pc : Phase, op : Ops,
    to : Roles \cup {"", "on", "off", "revoke", "grant"}, by : Users \cup {""},
    role : Roles \cup {""}, target : Users \cup {""},
    seen : Roles \cup {"", "unused", "deleted"}, copy : SUBSET Users ]

\* A request that is under way is about an account, and one that will write
\* a role or a switch has one.
GoodRequest(q) ==
  /\ q \in Request
  /\ q.pc = "idle" => q = Idle
  /\ q.pc # "idle" => q.target \in Users
  /\ q.op \in {"create", "role"} => q.to \in Roles \/ q.pc \notin {"read", "count", "write"}
  /\ q.op = "switch key" => q.to \in {"on", "off"} \/ q.pc \notin {"read", "count", "write"}
  /\ q.pc \in {"link", "mint"} => q.op = "login"
  /\ q.pc = "count" => q.op \in PatchOps \cup {"delete"}

GoodTables ==
  /\ users \in [Users -> Row]
  /\ sessions \subseteq {u \in Users : Exists(u)}
  /\ keyRow \in [Users -> {"on", "off", "none"}]
  /\ \A u \in Users : keyRow[u] # "none" => Exists(u)
  /\ access \subseteq Users /\ clients \subseteq Users
  /\ failures \in Nat

\* Tables, the cache and requests are well formed.
WellFormed ==
  /\ GoodTables
  /\ h \in [Handlers -> Request]
  /\ \A a \in Handlers : GoodRequest(h[a])

\* A deactivation that is written and not undone belongs to a handler that is
\* still cleaning up or refreshing.
StandingUnderWay ==
  \A a \in standing : /\ a \in Handlers /\ h[a].target \in Gone
                      /\ h[a].pc \in {"kill", "refresh", "install"}

\* Of two copies held, one was queried first.
QueriesOrdered ==
  /\ before \subseteq Holders \X Holders /\ overtaken \subseteq Holders
  /\ \A a, b \in Holders : a = b \/ <<a, b>> \in before \/ <<b, a>> \in before

\* A copy leaves out whom its holder, or one that held a copy already when it
\* was queried, is about to cut off.
CopiesLeaveOut ==
  \A a \in Holders, b \in standing :
    a = b \/ <<b, a>> \in before => h[b].target \notin h[a].copy

\* ... and, until it is overtaken, whom anyone has cut off.
CopiesCurrent == \A a \in Holders \ overtaken : h[a].copy \cap cutOff = {}

\* An account whose deactivation was answered is off or gone; its key is in no
\* copy that may still be installed rightly, nor admitted.
CutOffInv ==
  /\ cutOff \subseteq Gone /\ StandingUnderWay /\ QueriesOrdered
  /\ CopiesLeaveOut /\ CopiesCurrent /\ CutOffStaysOut

\* An enabled superadmin is in the table.
Remains(table) ==
  \E u \in Users : table[u].role = "superadmin" /\ ~table[u].disabled

\* What a request found out still holds: the role it read, that a superadmin
\* remains without its target, that the provider is revocable.
Fits(q, table) ==
  /\ q.pc \in {"count", "write"} /\ q.op \in PatchOps \cup {"delete"} =>
       table[q.target].role = q.seen
  /\ q.pc = "write" /\ Removes(q) =>
       \E u \in Users : table[u].role = "superadmin" /\ ~table[u].disabled /\ u # q.target
  /\ q.pc = "write" /\ q.op = "access" => table[q.target].role = "user"

\* Until a change races with another, what the handlers that are not stale
\* found out still holds, and so a superadmin remains.
RulesInv ==
  raced \/ (Remains(users) /\ \A a \in Handlers \ stale : Fits(h[a], users))

\* Revocations belong to accounts that were created, and an admin's are about
\* to be cleared.
PromotionInv ==
  raced \/ partial \/
  \A u \in access :
    /\ users[u] # Unused
    /\ IsAdmin(users[u].role) => \E a \in Handlers : h[a].pc = "clear" /\ h[a].target = u

AccountsInv == WellFormed /\ CutOffInv /\ RulesInv /\ PromotionInv

-----------------------------------------------------------------------------
\* A handler at rest holds nothing that could be ill formed.
LEMMA IdleGood == GoodRequest(Idle)
<1>1. Idle \in Request
  BY DEF Idle, Request, Phase, Ops
<1>2. Idle.pc = "idle" /\ Idle.op = ""
  BY DEF Idle
<1> QED
  BY <1>1, <1>2 DEF GoodRequest

\* A row is an account, unused or deleted, and its role says which.
LEMMA RowFields ==
  ASSUME NEW row \in Row
  PROVE  /\ row.role \in Roles \cup {"unused", "deleted"}
         /\ row.role \in Roles => row \in Account
         /\ row = Unused => row.role \notin Roles /\ row.role # "deleted"
         /\ row = Deleted => row.role \notin Roles /\ row # Unused
<1>1. row \in Account \/ row = Unused \/ row = Deleted
  BY DEF Row
<1>2. /\ Unused.role = "unused" /\ Deleted.role = "deleted"
      /\ "unused" \notin Roles /\ "deleted" \notin Roles
  BY DEF Unused, Deleted, Roles
<1>3. row \in Account => row.role \in Roles
  BY DEF Account
<1> QED
  BY <1>1, <1>2, <1>3

\* Changing one field of an account leaves an account.
LEMMA AccountFields ==
  ASSUME NEW row \in Account
  PROVE  /\ row \in Row /\ row.role \in Roles
         /\ \A to \in Roles : [row EXCEPT !.role = to] \in Account
         /\ \A b \in BOOLEAN : [row EXCEPT !.disabled = b] \in Account
         /\ [row EXCEPT !.linked = TRUE] \in Account
  BY DEF Account, Row

\* A handler that takes a step is left with a well-formed request.
LEMMA RequestMoves ==
  ASSUME WellFormed, NEW a \in Handlers, NEW q, GoodRequest(q),
         h' = [h EXCEPT ![a] = q]
  PROVE  /\ h' \in [Handlers -> Request]
         /\ \A b \in Handlers : GoodRequest(h'[b])
         /\ h'[a] = q /\ \A b \in Handlers : b # a => h'[b] = h[b]
  BY DEF WellFormed, GoodRequest

\* ... after it has written,
LEMMA WrittenGood ==
  ASSUME NEW q, GoodRequest(q), q.pc # "idle", NEW pc \in {"clear", "kill", "refresh"}
  PROVE  GoodRequest([Idle EXCEPT !.pc = pc, !.op = q.op, !.target = q.target])
<1> DEFINE r == [Idle EXCEPT !.pc = pc, !.op = q.op, !.target = q.target]
<1>1. r.pc = pc /\ r.op = q.op /\ r.target = q.target
  BY DEF Idle
<1>2. q.op \in Ops /\ q.target \in Users
  BY DEF GoodRequest, Request
<1>3. r \in Request
  BY <1>2 DEF Idle, Request, Phase, Ops
<1> HIDE DEF r
<1>4. GoodRequest(r)
  BY <1>1, <1>2, <1>3 DEF GoodRequest
<1> QED
  BY <1>4 DEF r

\* ... and when it goes on with what it has.
LEMMA GoesGood ==
  ASSUME NEW q, GoodRequest(q), NEW r \in Request,
         r.op = q.op, r.to = q.to, r.target = q.target,
         \/ q.pc \in {"read", "count"} /\ r.pc \in {"count", "write"}
         \/ q.pc = "link" /\ r.pc = "mint",
         r.pc = "count" => r.op \in PatchOps \cup {"delete"}
  PROVE  GoodRequest(r)
<1>1. q \in Request /\ q.pc # "idle" /\ r.pc # "idle"
  BY DEF GoodRequest
<1>2. CASE q.pc \in {"read", "count"} /\ r.pc \in {"count", "write"}
  BY <1>1, <1>2 DEF GoodRequest
<1>3. CASE q.pc = "link" /\ r.pc = "mint"
  BY <1>1, <1>3 DEF GoodRequest
<1> QED
  BY <1>2, <1>3

\* A step that touches no table and no cache.
LEMMA TablesStay ==
  ASSUME GoodTables, UNCHANGED <<tables, clients>>, failures' \in Nat
  PROVE  GoodTables'
  BY DEF GoodTables, tables, Exists

-----------------------------------------------------------------------------
(***************************************************************************)
(* Typing, one lemma per group of actions.                                 *)
(***************************************************************************)
LEMMA BeginGood ==
  ASSUME WellFormed, NEW a \in Handlers, NEW u \in Users, NEW t \in Users,
         NEW pc \in {"read", "write"}, NEW op \in Ops,
         NEW to \in Roles \cup {"", "on", "off", "revoke", "grant"},
         op \in {"create", "role"} => to \in Roles,
         op = "switch key" => to \in {"on", "off"},
         Begin(a, u, pc, op, to, t)
  PROVE  WellFormed'
<1> DEFINE q == [pc |-> pc, op |-> op, to |-> to, by |-> u, role |-> users[u].role,
                 target |-> t, seen |-> "", copy |-> {}]
<1>1. users[u].role \in Roles
  BY DEF Begin, SignedIn, Exists
<1>2. q \in Request /\ q.pc = pc /\ q.op = op /\ q.to = to /\ q.target = t
  BY <1>1 DEF Request, Phase
<1>3. h' = [h EXCEPT ![a] = q]
  BY DEF Begin, Moves
<1> HIDE DEF q
<1>4. GoodRequest(q)
  BY <1>2 DEF GoodRequest
<1>5. GoodTables'
  BY TablesStay DEF WellFormed, GoodTables, Begin
<1> QED
  BY <1>3, <1>4, <1>5, RequestMoves DEF WellFormed

\* A handler that loads its caller and its target keeps the tables well formed.
LEMMA BeginAnyGood ==
  ASSUME WellFormed, NEW a \in Handlers, BeginAny(a)
  PROVE  WellFormed'
<1> PICK u \in Users :
      \/ BeginOwnPassword(a, u)
      \/ Begin(a, u, "write", "new key", "", u) \/ Begin(a, u, "read", "delete key", "", u)
      \/ \E to \in {"on", "off"} : Begin(a, u, "read", "switch key", to, u)
      \/ \E t \in Users :
           \/ \E to \in Roles : BeginCreate(a, u, to, t) \/ Begin(a, u, "read", "role", to, t)
           \/ \E op \in {"disable", "enable", "password", "delete"} : Begin(a, u, "read", op, "", t)
           \/ \E to \in {"revoke", "grant"} : Begin(a, u, "read", "access", to, t)
  BY DEF BeginAny
<1>1. {"create", "role", "new key", "delete key", "switch key", "disable", "enable",
       "password", "delete", "access", "own password"} \subseteq Ops
  BY DEF Ops, AdminOps, PatchOps
<1>2. CASE BeginOwnPassword(a, u)
  BY <1>1, <1>2, BeginGood DEF BeginOwnPassword
<1>3. CASE Begin(a, u, "write", "new key", "", u) \/ Begin(a, u, "read", "delete key", "", u)
  BY <1>1, <1>3, BeginGood
<1>4. CASE \E to \in {"on", "off"} : Begin(a, u, "read", "switch key", to, u)
  BY <1>1, <1>4, BeginGood
<1>5. CASE \E t \in Users, to \in Roles :
             BeginCreate(a, u, to, t) \/ Begin(a, u, "read", "role", to, t)
  BY <1>1, <1>5, BeginGood DEF BeginCreate
<1>6. CASE \E t \in Users, op \in {"disable", "enable", "password", "delete"} :
             Begin(a, u, "read", op, "", t)
  BY <1>1, <1>6, BeginGood
<1>7. CASE \E t \in Users, to \in {"revoke", "grant"} : Begin(a, u, "read", "access", to, t)
  BY <1>1, <1>7, BeginGood
<1> QED
  BY <1>2, <1>3, <1>4, <1>5, <1>6, <1>7

\* A handler stops, or goes on to write or to create the session.
LEMMA DoneOrGoes ==
  ASSUME WellFormed, NEW a \in Handlers, GoodTables',
         NEW pc \in {"write", "mint"},
         \/ h[a].pc \in {"read", "count"} /\ pc = "write"
         \/ h[a].pc = "link" /\ pc = "mint",
         Done(a) \/ Goes(a, pc)
  PROVE  WellFormed'
<1>1. GoodRequest(h[a]) /\ h[a] \in Request
  BY DEF WellFormed, GoodRequest
<1>2. CASE Done(a)
  BY <1>2, IdleGood, RequestMoves DEF Done, Moves, WellFormed
<1>3. CASE Goes(a, pc)
  <2> DEFINE q == [h[a] EXCEPT !.pc = pc]
  <2>1. q \in Request /\ q.pc = pc /\ q.op = h[a].op /\ q.to = h[a].to /\ q.target = h[a].target
    BY <1>1 DEF Request, Phase
  <2>2. h' = [h EXCEPT ![a] = q]
    BY <1>3 DEF Goes, Moves
  <2> HIDE DEF q
  <2>3. GoodRequest(q)
    BY <1>1, <2>1, GoesGood
  <2> QED
    BY <2>2, <2>3, RequestMoves DEF WellFormed
<1> QED
  BY <1>2, <1>3

\* A handler's check between its read and its write changes no table.
LEMMA CheckGood ==
  ASSUME WellFormed, NEW a \in Handlers, Check(a)
  PROVE  WellFormed'
<1>1. GoodRequest(h[a]) /\ h[a] \in Request
  BY DEF WellFormed, GoodRequest
<1>2. GoodTables'
  BY TablesStay DEF WellFormed, GoodTables, Check, ReadTarget, CountAdmins,
     ReadAccessTarget, ReadSelf, ReadKey, bounds
<1>3. CASE ReadTarget(a)
  <2> DEFINE q == [h[a] EXCEPT !.seen = users[h[a].target].role]
             r == [q EXCEPT !.pc = IF Removes(q) THEN "count" ELSE "write"]
  <2>1. users[h[a].target].role \in Roles \cup {"unused", "deleted"}
    BY <1>1, <1>3, RowFields DEF ReadTarget, GoodRequest, WellFormed, GoodTables
  <2>2. r \in Request /\ r.pc \in {"count", "write"}
        /\ r.op = h[a].op /\ r.to = h[a].to /\ r.target = h[a].target
    <3>1. q \in Request /\ q.op = h[a].op /\ q.to = h[a].to /\ q.target = h[a].target
      BY <1>1, <2>1 DEF Request
    <3>2. PICK pc \in {"count", "write"} : pc = IF Removes(q) THEN "count" ELSE "write"
      OBVIOUS
    <3>3. pc \in Phase /\ r = [q EXCEPT !.pc = pc]
      BY <3>2 DEF Phase
    <3> HIDE DEF q, r
    <3> QED
      BY <3>1, <3>2, <3>3 DEF Request
  <2>3. h' = [h EXCEPT ![a] = r] \/ Done(a)
    BY <1>3 DEF ReadTarget, Moves
  <2> HIDE DEF r
  <2>4. GoodRequest(r)
    BY <1>1, <1>3, <2>2, GoesGood DEF ReadTarget
  <2> QED
    BY <1>2, <2>3, <2>4, IdleGood, RequestMoves DEF Done, Moves, WellFormed
<1>4. CASE CountAdmins(a) \/ ReadAccessTarget(a) \/ ReadSelf(a) \/ ReadKey(a)
  <2>1. h[a].pc \in {"read", "count"} /\ (Done(a) \/ Goes(a, "write"))
    BY <1>4 DEF CountAdmins, ReadAccessTarget, ReadSelf, ReadKey
  <2> QED
    BY <1>2, <2>1, DoneOrGoes
<1> QED
  BY <1>3, <1>4 DEF Check

\* A handler stops, or has written.
LEMMA DoneOrWritten ==
  ASSUME WellFormed, NEW a \in Handlers, GoodTables', h[a].pc # "idle",
         NEW pc \in {"clear", "kill", "refresh"},
         Done(a) \/ Written(a, pc)
  PROVE  WellFormed'
<1>1. GoodRequest(h[a])
  BY DEF WellFormed
<1>2. CASE Done(a)
  BY <1>2, IdleGood, RequestMoves DEF Done, Moves, WellFormed
<1>3. CASE Written(a, pc)
  BY <1>1, <1>3, WrittenGood, RequestMoves DEF Written, Moves, WellFormed
<1> QED
  BY <1>2, <1>3

\* One row of the users table becomes another: an account stays one, or
\* becomes one, and the other tables need not change.
LEMMA RowMoves ==
  ASSUME GoodTables, NEW t \in Users, NEW row \in Account,
         users' = [users EXCEPT ![t] = row],
         sessions' = sessions, keyRow' = keyRow, access' \subseteq Users,
         UNCHANGED clients, failures' = failures
  PROVE  GoodTables'
<1>1. row \in Row /\ row.role \in Roles
  BY AccountFields
<1>2. users' \in [Users -> Row]
  BY <1>1 DEF GoodTables
<1>3. \A u \in Users : Exists(u) => Exists(u)'
  BY <1>1 DEF Exists, GoodTables
<1> QED
  BY <1>2, <1>3 DEF GoodTables

\* Every handler's write keeps the tables well formed, whatever was written
\* since it read them.
LEMMA WriteGood ==
  ASSUME WellFormed, NEW a \in Handlers, Write(a)
  PROVE  WellFormed'
<1> DEFINE t == h[a].target
<1>0. GoodTables /\ GoodRequest(h[a]) /\ h[a] \in Request
  BY DEF WellFormed, GoodRequest
<1>t. h[a].pc = "write" /\ t \in Users /\ h[a].pc # "idle"
  BY <1>0 DEF Write, InsertUser, UpdateUser, DeleteUser, SetUserProviderAccess,
     CreateClientKey, SetClientKeyDisabled, DeleteClientKey, GoodRequest
<1>1. CASE \E revoked \in BOOLEAN : InsertUser(a, revoked)
  <2> PICK revoked \in BOOLEAN : InsertUser(a, revoked)
    BY <1>1
  <2> DEFINE row == [role |-> h[a].to, disabled |-> FALSE, linked |-> FALSE]
  <2>1. row \in Account
    BY <1>0, <1>t DEF InsertUser, GoodRequest, Account
  <2>2. CASE users[t] # Unused
    <3>1. GoodTables' /\ Done(a)
      BY <1>0, <2>2, TablesStay DEF InsertUser, bounds, GoodTables
    <3> QED
      BY <1>t, <3>1, DoneOrWritten
  <2>3. CASE users[t] = Unused
    <3>1. /\ users' = [users EXCEPT ![t] = row]
          /\ access' = access \cup {t} \/ access' = access
          /\ sessions' = sessions /\ keyRow' = keyRow
          /\ UNCHANGED clients /\ failures' = failures /\ Written(a, "refresh")
      BY <2>3 DEF InsertUser, bounds
    <3> HIDE DEF row
    <3>2. access' \subseteq Users
      BY <1>0, <1>t, <3>1 DEF GoodTables
    <3>3. GoodTables'
      BY <1>0, <1>t, <2>1, <3>1, <3>2, RowMoves
    <3> QED
      BY <1>t, <3>1, <3>3, DoneOrWritten
  <2> QED
    BY <2>2, <2>3
<1>2. CASE UpdateUser(a)
  <2> DEFINE row == Patched(h[a], users[t])
  <2>1. AfterUpdate(h[a]) \in {"clear", "kill", "refresh"}
    BY DEF AfterUpdate
  <2>2. GoodTables'
    <3>1. CASE ~Exists(t)
      BY <1>0, <1>2, <3>1, TablesStay DEF UpdateUser, tables, bounds, GoodTables
    <3>2. CASE Exists(t)
      <4>1. users[t] \in Account
        BY <1>0, <1>t, <3>2, RowFields DEF GoodTables, Exists
      <4>2. h[a].op = "role" => h[a].to \in Roles
        BY <1>0, <1>t DEF GoodRequest
      <4>3. row \in Account
        BY <4>1, <4>2, AccountFields DEF Patched
      <4>4. /\ users' = [users EXCEPT ![t] = row]
            /\ sessions' = sessions /\ keyRow' = keyRow /\ access' = access
            /\ UNCHANGED clients /\ failures' = failures
        BY <1>2, <3>2 DEF UpdateUser, bounds
      <4> HIDE DEF row
      <4>5. access' \subseteq Users
        BY <1>0, <4>4 DEF GoodTables
      <4> QED
        BY <1>0, <1>t, <4>3, <4>4, <4>5, RowMoves
    <3> QED
      BY <3>1, <3>2
  <2> QED
    BY <1>2, <1>t, <2>1, <2>2, DoneOrWritten DEF UpdateUser
<1>3. CASE DeleteUser(a)
  <2>1. Done(a) \/ Written(a, "refresh")
    BY <1>3 DEF DeleteUser
  <2>2. GoodTables'
    <3>1. CASE ~Exists(t)
      BY <1>0, <1>3, <3>1, TablesStay DEF DeleteUser, tables, bounds, GoodTables
    <3>2. CASE Exists(t)
      <4>1. /\ users' = [users EXCEPT ![t] = Deleted]
            /\ sessions' = sessions \ {t} /\ keyRow' = [keyRow EXCEPT ![t] = "none"]
            /\ access' = access /\ UNCHANGED clients /\ failures' = failures
        BY <1>3, <3>2 DEF DeleteUser, bounds
      <4>2. users' \in [Users -> Row]
        BY <1>0, <4>1 DEF GoodTables, Row
      <4>3. \A u \in Users : u # t => (Exists(u) <=> Exists(u)')
        BY <1>0, <4>1 DEF GoodTables, Exists
      <4>4. sessions' \subseteq {u \in Users : Exists(u)'}
        BY <1>0, <4>1, <4>3 DEF GoodTables
      <4>5. /\ keyRow' \in [Users -> {"on", "off", "none"}]
            /\ \A u \in Users : keyRow'[u] # "none" => Exists(u)'
        BY <1>0, <4>1, <4>3 DEF GoodTables
      <4> QED
        BY <1>0, <4>1, <4>2, <4>4, <4>5 DEF GoodTables
    <3> QED
      BY <3>1, <3>2
  <2> QED
    BY <1>t, <2>1, <2>2, DoneOrWritten
<1>4. CASE SetUserProviderAccess(a)
  <2>1. GoodTables' /\ Written(a, "refresh")
    BY <1>0, <1>4, <1>t DEF SetUserProviderAccess, GoodTables, Exists, bounds
  <2> QED
    BY <1>t, <2>1, DoneOrWritten
<1>5. CASE CreateClientKey(a) \/ SetClientKeyDisabled(a) \/ DeleteClientKey(a)
  <2>1. /\ UNCHANGED <<users, sessions, access, clients, failures>>
        /\ \/ Done(a) /\ keyRow' = keyRow
           \/ /\ Exists(t) /\ Written(a, "refresh")
              /\ \E to \in {"on", "off", "none"} : keyRow' = [keyRow EXCEPT ![t] = to]
    <3>1. keyRow[t] # "none" => Exists(t)
      BY <1>0, <1>t DEF GoodTables
    <3>2. CASE CreateClientKey(a)
      BY <3>2 DEF CreateClientKey, SetKey, bounds
    <3>3. CASE SetClientKeyDisabled(a)
      BY <1>0, <1>t, <3>1, <3>3 DEF SetClientKeyDisabled, SetKey, bounds, GoodRequest
    <3>4. CASE DeleteClientKey(a)
      BY <3>1, <3>4 DEF DeleteClientKey, SetKey, bounds
    <3> QED
      BY <1>5, <3>2, <3>3, <3>4
  <2>2. GoodTables'
    BY <1>0, <1>t, <2>1 DEF GoodTables, Exists
  <2> QED
    BY <1>t, <2>1, <2>2, DoneOrWritten
<1> QED
  BY <1>1, <1>2, <1>3, <1>4, <1>5 DEF Write

\* The statements that follow a write (sessions dropped, keys revoked) keep
\* the tables well formed.
LEMMA FollowGood ==
  ASSUME WellFormed, NEW a \in Handlers, Follow(a)
  PROVE  WellFormed'
<1>1. GoodTables /\ GoodRequest(h[a]) /\ h[a] \in Request
  BY DEF WellFormed, GoodRequest
<1>2. CASE ClearUserProviderAccess(a) \/ DeleteUserSessions(a)
  <2>1. h[a].pc # "idle" /\ (Done(a) \/ Written(a, "refresh"))
    BY <1>2 DEF ClearUserProviderAccess, DeleteUserSessions
  <2>2. GoodTables'
    BY <1>1, <1>2 DEF ClearUserProviderAccess, DeleteUserSessions, GoodTables, Exists, bounds
  <2> QED
    BY <2>1, <2>2, DoneOrWritten
<1>3. CASE QueryKeys(a)
  <2> DEFINE q == [h[a] EXCEPT !.pc = "install", !.copy = AdmittedKeys]
  <2>1. GoodTables'
    BY <1>1, <1>3, TablesStay DEF QueryKeys, bounds, GoodTables
  <2>2. /\ q \in Request /\ q.pc = "install"
        /\ q.op = h[a].op /\ q.to = h[a].to /\ q.target = h[a].target
    BY <1>1 DEF Request, Phase, AdmittedKeys
  <2>3. h' = [h EXCEPT ![a] = q] /\ h[a].pc = "refresh"
    BY <1>3 DEF QueryKeys, Moves
  <2> HIDE DEF q
  <2>4. GoodRequest(q)
    BY <1>1, <2>2, <2>3 DEF GoodRequest
  <2> QED
    BY <2>1, <2>3, <2>4, RequestMoves DEF WellFormed
<1> QED
  BY <1>2, <1>3 DEF Follow

\* A copy of the keys names accounts only.
LEMMA InstallGood ==
  ASSUME WellFormed, NEW a \in Handlers, InstallKeys(a)
  PROVE  WellFormed'
<1>1. GoodTables /\ h[a] \in Request
  BY DEF WellFormed
<1>2. clients' \subseteq Users /\ failures' \in Nat
  <2>1. clients' = h[a].copy /\ failures' \in {failures, failures + 1} /\ failures \in Nat
    BY <1>1 DEF InstallKeys, GoodTables
  <2>2. h[a].copy \subseteq Users
    BY <1>1 DEF Request
  <2> QED
    BY <2>1, <2>2
<1>3. GoodTables'
  BY <1>1, <1>2 DEF InstallKeys, GoodTables, Exists, tables
<1> QED
  BY <1>3, IdleGood, RequestMoves DEF InstallKeys, Done, Moves, WellFormed

\* Signing in and the command-line password reset keep the tables well formed.
LEMMA SignInGood ==
  ASSUME WellFormed, NEW a \in Handlers,
         SignIn(a) \/ \E u \in Users : ResetPassword(a, u)
  PROVE  WellFormed'
<1>0. GoodTables /\ GoodRequest(h[a])
  BY DEF WellFormed
<1>1. ASSUME NEW pc \in {"link", "mint", "write"}, NEW op \in {"login", "own password"},
             op = "login" \/ pc = "write", NEW u \in Users,
             Moves(a, [Idle EXCEPT !.pc = pc, !.op = op, !.target = u]),
             UNCHANGED <<tables, clients, failures>>
      PROVE  WellFormed'
  <2> DEFINE q == [Idle EXCEPT !.pc = pc, !.op = op, !.target = u]
  <2>1. q \in Request /\ q.pc = pc /\ q.op = op /\ q.target = u
    BY DEF Idle, Request, Phase, Ops, AdminOps, PatchOps
  <2>2. h' = [h EXCEPT ![a] = q]
    BY <1>1 DEF Moves
  <2> HIDE DEF q
  <2>3. GoodRequest(q)
    BY <1>1, <2>1 DEF GoodRequest
  <2>4. GoodTables'
    BY <1>0, <1>1, TablesStay DEF GoodTables
  <2> QED
    BY <2>2, <2>3, <2>4, RequestMoves DEF WellFormed
<1>2. CASE \E u \in Users, method \in {"password", "google"} : Login(a, u, method)
  <2> PICK u \in Users, method \in {"password", "google"} : Login(a, u, method)
    BY <1>2
  <2>1. UNCHANGED <<tables, clients, failures>>
    BY DEF Login
  <2>2. PICK pc \in {"link", "mint"} :
          Moves(a, [Idle EXCEPT !.pc = pc, !.op = "login", !.target = u])
    <3>1. CASE method = "google"
      BY <3>1 DEF Login
    <3>2. CASE method = "password"
      BY <3>2 DEF Login
    <3> QED
      BY <3>1, <3>2
  <2> QED
    BY <1>1, <2>1, <2>2
<1>3. CASE \E u \in Users : ResetPassword(a, u)
  BY <1>1, <1>3 DEF ResetPassword
<1>4. CASE LinkGoogleUser(a)
  <2> DEFINE t == h[a].target
  <2>1. CASE ~Exists(t)
    BY <1>0, <1>4, <2>1, TablesStay, DoneOrGoes DEF LinkGoogleUser, tables, bounds, GoodTables
  <2>2. CASE Exists(t)
    <3>1. t \in Users
      BY <1>0, <1>4 DEF GoodRequest, LinkGoogleUser
    <3>2. users[t] \in Account
      BY <1>0, <2>2, <3>1, RowFields DEF GoodTables, Exists
    <3>3. /\ users' = [users EXCEPT ![t] = [users[t] EXCEPT !.linked = TRUE]]
          /\ sessions' = sessions /\ keyRow' = keyRow /\ access' = access
          /\ UNCHANGED clients /\ failures' = failures
          /\ h[a].pc = "link" /\ Goes(a, "mint")
      BY <1>4, <2>2 DEF LinkGoogleUser, bounds
    <3>4. GoodTables'
      BY <1>0, <3>1, <3>2, <3>3, AccountFields, RowMoves DEF GoodTables
    <3> QED
      BY <3>3, <3>4, DoneOrGoes
  <2> QED
    BY <2>1, <2>2
<1>5. CASE StartSession(a)
  <2>1. GoodTables'
    BY <1>0, <1>5 DEF StartSession, GoodTables, GoodRequest, Exists, bounds
  <2> QED
    BY <1>5, <2>1, IdleGood, RequestMoves DEF StartSession, Done, Moves, WellFormed
<1> QED
  BY <1>2, <1>3, <1>4, <1>5 DEF SignIn

\* Every step keeps the tables well formed.
LEMMA StepWellFormed ==
  WellFormed /\ [Next]_vars => WellFormed'
<1> SUFFICES ASSUME WellFormed, [Next]_vars PROVE WellFormed'
  OBVIOUS
<1>0. GoodTables /\ h \in [Handlers -> Request] /\ \A a \in Handlers : GoodRequest(h[a])
  BY DEF WellFormed
<1>1. ASSUME NEW a \in Handlers,
             \/ BeginAny(a) \/ Check(a) \/ Write(a) \/ Follow(a) \/ SignIn(a) \/ InstallKeys(a)
             \/ \E u \in Users : ResetPassword(a, u)
      PROVE  WellFormed'
  BY <1>1, BeginAnyGood, CheckGood, WriteGood, FollowGood, SignInGood, InstallGood
<1>2. ASSUME NEW a \in Handlers, Fails(a) PROVE WellFormed'
  <2>1. failures' \in Nat
    BY <1>0, <1>2 DEF GoodTables, Fails
  <2>2. GoodTables'
    BY <1>0, <1>2, <2>1, TablesStay DEF Fails
  <2> QED
    BY <1>2, <2>2, IdleGood, RequestMoves DEF Fails, Done, Moves, WellFormed
<1>3. ASSUME NEW u \in Users, Logout(u) PROVE WellFormed'
  BY <1>0, <1>3 DEF Logout, WellFormed, GoodTables, Exists
<1>4. CASE Restart
  <2>1. GoodTables'
    BY <1>0, <1>4 DEF Restart, AdmittedKeys, GoodTables, Exists, tables, bounds
  <2> QED
    BY <1>4, <2>1, IdleGood DEF Restart, WellFormed, GoodRequest
<1>5. CASE UNCHANGED vars
  BY <1>0, <1>5 DEF vars, tables, bounds, WellFormed, GoodTables, Exists
<1> QED
  BY <1>1, <1>2, <1>3, <1>4, <1>5 DEF Next, Step

-----------------------------------------------------------------------------
(***************************************************************************)
(* Who moves.                                                              *)
(***************************************************************************)
\* A request that begins only sets its own handler going.
LEMMA BeginLeaves ==
  ASSUME NEW a \in Handlers, BeginAny(a)
  PROVE  /\ h[a].pc = "idle" /\ UNCHANGED <<tables, clients, failures>>
         /\ \E q : Moves(a, q)
<1>1. PICK u, t, pc, op, to : Begin(a, u, pc, op, to, t)
  BY DEF BeginAny, BeginOwnPassword, BeginCreate
<1> QED
  BY <1>1 DEF Begin

\* A step of one handler leaves the others where they are.
LEMMA OneMoves ==
  ASSUME WellFormed, NEW a \in Handlers,
         \/ BeginAny(a) \/ Check(a) \/ Write(a) \/ Follow(a) \/ SignIn(a) \/ Fails(a)
         \/ InstallKeys(a) \/ \E u \in Users : ResetPassword(a, u)
  PROVE  \A b \in Handlers : b # a => h'[b] = h[b]
<1>0. h \in [Handlers -> Request]
  BY DEF WellFormed
<1>1. CASE BeginAny(a)
  BY <1>0, <1>1, BeginLeaves DEF Moves
<1>2. CASE Check(a)
  BY <1>0, <1>2 DEF Check, ReadTarget, CountAdmins, ReadAccessTarget, ReadSelf, ReadKey,
     Moves, Goes, Done
<1>3. CASE Write(a)
  BY <1>0, <1>3 DEF Write, InsertUser, UpdateUser, DeleteUser, SetUserProviderAccess,
     CreateClientKey, SetClientKeyDisabled, DeleteClientKey, SetKey, Moves, Written, Done
<1>4. CASE \/ Follow(a) \/ SignIn(a) \/ Fails(a) \/ InstallKeys(a)
            \/ \E u \in Users : ResetPassword(a, u)
  BY <1>0, <1>4 DEF Follow, ClearUserProviderAccess, DeleteUserSessions, QueryKeys, InstallKeys,
     SignIn, Login, LinkGoogleUser, StartSession, Fails, ResetPassword,
     Moves, Goes, Written, Done
<1> QED
  BY <1>1, <1>2, <1>3, <1>4

\* A write leaves the handler done with it.
LEMMA WriteMoves ==
  ASSUME WellFormed, NEW a \in Handlers, Write(a) \/ ClearUserProviderAccess(a)
  PROVE  /\ h[a].pc \in {"write", "clear"}
         /\ h'[a].pc \in {"idle", "clear", "kill", "refresh"}
         /\ h'[a] # h[a]
         /\ h'[a].pc = "idle" => <<users, access>>' = <<users, access>>
<1>0. h \in [Handlers -> Request]
  BY DEF WellFormed
<1>1. \A pc \in {"clear", "kill", "refresh"} :
        [Idle EXCEPT !.pc = pc, !.op = h[a].op, !.target = h[a].target].pc = pc
  BY DEF Idle
<1>2. AfterUpdate(h[a]) \in {"clear", "kill", "refresh"}
  BY DEF AfterUpdate
<1>3. Idle.pc = "idle"
  BY DEF Idle
<1>4. \A pc \in {"clear", "kill", "refresh"} : Written(a, pc) => h'[a].pc = pc
  BY <1>0, <1>1 DEF Written, Moves
<1>5. Done(a) => h'[a].pc = "idle"
  BY <1>0, <1>3 DEF Done, Moves
<1>6. CASE Write(a)
  <2>1. h[a].pc = "write"
    BY <1>6 DEF Write, InsertUser, UpdateUser, DeleteUser, SetUserProviderAccess,
       CreateClientKey, SetClientKeyDisabled, DeleteClientKey
  <2>2. \/ Done(a) /\ <<users, access>>' = <<users, access>>
        \/ \E pc \in {"clear", "kill", "refresh"} : Written(a, pc)
    BY <1>2, <1>6 DEF Write, InsertUser, UpdateUser, DeleteUser, SetUserProviderAccess,
       CreateClientKey, SetClientKeyDisabled, DeleteClientKey, SetKey, tables
  <2> QED
    BY <1>4, <1>5, <2>1, <2>2
<1>7. CASE ClearUserProviderAccess(a)
  BY <1>4, <1>7 DEF ClearUserProviderAccess
<1> QED
  BY <1>6, <1>7

-----------------------------------------------------------------------------
(***************************************************************************)
(* Accounts that were cut off.                                             *)
(***************************************************************************)
\* A step of the audited system is one of the system, and notes the checks.
LEMMA AuditSteps == AuditNext => Next /\ NotesChecks
  BY DEF AuditNext, Next, Notes

\* A handler that is cleaning up goes on to its refresh or stops; no step but
\* the query and the install starts or ends the holding of a copy.
Quiet(a) ==
  /\ h[a].pc # "install" /\ h'[a].pc # "install"
  /\ h[a].pc \in {"write", "kill", "refresh"} /\ h'[a].pc # "idle" => h'[a].target = h[a].target
  /\ h[a].pc \in {"kill", "refresh"} => h'[a].pc \in {"idle", "refresh"}

\* Steps that neither query nor install leave the invariant alone.
LEMMA QuietKeepsCutOff ==
  ASSUME CutOffInv, clients' = clients, NotesCutOffs({}), NotesRefreshes({}),
         regressed' = regressed, \A b \in Handlers : h'[b] = h[b] \/ Quiet(b)
  PROVE  CutOffInv'
<1>1. Holders' = Holders /\ \A a \in Holders : h'[a] = h[a]
  BY DEF Holders, Quiet
<1>2. before' = before /\ overtaken' = overtaken
  <2>1. \A b \in Handlers : ~Queries(b)
    BY DEF Queries, Quiet
  <2> QED
    BY <1>1, <2>1 DEF NotesRefreshes, CutOffInv, QueriesOrdered
<1>3. cutOff' \subseteq cutOff /\ cutOff' \subseteq Gone'
  BY DEF NotesCutOffs
<1>4. ASSUME NEW a \in standing'
      PROVE  /\ a \in Handlers /\ h'[a].target = h[a].target /\ h[a].target \in Gone'
             /\ h'[a].pc \in {"kill", "refresh", "install"}
             /\ a \in Holders => a \in standing
  <2>1. a \in standing \/ CutsOff(a)
    BY <1>4 DEF NotesCutOffs
  <2>2. a \in Handlers /\ h'[a].pc # "idle" /\ h[a].target \in Gone'
    BY <1>4 DEF NotesCutOffs, CutOffInv, StandingUnderWay
  <2>3. CASE a \in standing
    BY <2>2, <2>3 DEF CutOffInv, StandingUnderWay, Quiet
  <2>4. CASE CutsOff(a)
    BY <2>2, <2>4 DEF CutsOff, Quiet, Holders
  <2> QED
    BY <2>1, <2>3, <2>4
<1>5. StandingUnderWay'
  BY <1>4 DEF StandingUnderWay
<1>6. QueriesOrdered'
  BY <1>1, <1>2 DEF CutOffInv, QueriesOrdered
<1>7. CopiesLeaveOut'
  <2>1. ASSUME NEW a \in Holders, NEW b \in standing', a = b \/ <<b, a>> \in before
        PROVE  h'[b].target \notin h'[a].copy
    <3>1. b \in Holders
      BY <2>1 DEF CutOffInv, QueriesOrdered
    <3> QED
      BY <1>1, <1>4, <2>1, <3>1 DEF CutOffInv, CopiesLeaveOut
  <2> QED
    BY <1>1, <1>2, <2>1 DEF CopiesLeaveOut
<1>8. CopiesCurrent'
  BY <1>1, <1>2, <1>3 DEF CutOffInv, CopiesCurrent
<1>9. CutOffStaysOut'
  BY <1>3 DEF CutOffInv, CutOffStaysOut
<1> QED
  BY <1>3, <1>5, <1>6, <1>7, <1>8, <1>9 DEF CutOffInv

\* Nobody who is off or gone is among the keys that are read.
LEMMA AdmittedAreThere ==
  ASSUME WellFormed
  PROVE  AdmittedKeys \cap Gone = {}
  BY DEF WellFormed, GoodTables, AdmittedKeys, Gone

\* The query: the copy is newer than every copy held, and leaves out whoever
\* is cut off or about to be.
LEMMA QueryKeepsCutOff ==
  ASSUME WellFormed, CutOffInv, NEW a \in Handlers, QueryKeys(a), Notes({}, regressed)
  PROVE  CutOffInv'
<1>1. /\ \A b \in Handlers : b # a => h'[b] = h[b]
      /\ h[a].pc = "refresh" /\ h'[a].pc = "install"
      /\ h'[a].target = h[a].target /\ h'[a].copy = AdmittedKeys
  <2>1. h \in [Handlers -> Request] /\ h[a] \in Request
    BY DEF WellFormed
  <2> QED
    BY <2>1 DEF QueryKeys, Moves, Request
<1>2. clients' = clients /\ regressed' = regressed /\ Gone' = Gone
  BY DEF QueryKeys, Notes, tables, Gone, Exists
<1>3. Holders' = Holders \cup {a} /\ a \notin Holders /\ Holders \subseteq Handlers
  BY <1>1 DEF Holders
<1>4. before' = before \cup (Holders \X {a}) /\ overtaken' = overtaken
  <2>1. {b \in Handlers : Queries(b)} = {a}
    BY <1>1 DEF Queries
  <2> QED
    BY <1>3, <2>1 DEF Notes, NotesRefreshes, CutOffInv, QueriesOrdered
<1>5. cutOff' \subseteq cutOff /\ cutOff' \subseteq Gone
  BY <1>2 DEF Notes, NotesCutOffs
<1>6. standing' \subseteq standing
  BY <1>1 DEF Notes, NotesCutOffs, CutsOff
<1>7. \A b \in Handlers : h'[b].target = h[b].target
  BY <1>1
<1>8. StandingUnderWay'
  BY <1>1, <1>2, <1>6, <1>7 DEF CutOffInv, StandingUnderWay
<1>9. QueriesOrdered'
  BY <1>3, <1>4 DEF CutOffInv, QueriesOrdered
<1>10. CopiesLeaveOut'
  <2>1. ASSUME NEW c \in Holders', NEW b \in standing', c = b \/ <<b, c>> \in before'
        PROVE  h'[b].target \notin h'[c].copy
    <3>1. b \in standing /\ b \in Handlers /\ h'[b].target \in Gone
      BY <1>6, <1>7, <2>1 DEF CutOffInv, StandingUnderWay
    <3>2. CASE c = a
      BY <1>1, <3>1, <3>2, AdmittedAreThere
    <3>3. CASE c # a
      <4>1. c \in Holders /\ h'[c] = h[c] /\ (c = b \/ <<b, c>> \in before)
        BY <1>1, <1>3, <1>4, <2>1, <3>3
      <4> QED
        BY <1>7, <3>1, <4>1 DEF CutOffInv, CopiesLeaveOut
    <3> QED
      BY <3>2, <3>3
  <2> QED
    BY <2>1 DEF CopiesLeaveOut
<1>11. CopiesCurrent'
  <2>1. ASSUME NEW c \in Holders' \ overtaken' PROVE h'[c].copy \cap cutOff' = {}
    <3>1. CASE c = a
      BY <1>1, <1>5, <3>1, AdmittedAreThere
    <3>2. CASE c # a
      BY <1>1, <1>3, <1>4, <1>5, <2>1, <3>2 DEF CutOffInv, CopiesCurrent
    <3> QED
      BY <3>1, <3>2
  <2> QED
    BY <2>1 DEF CopiesCurrent
<1>12. CutOffStaysOut'
  BY <1>2, <1>5 DEF CutOffInv, CutOffStaysOut
<1> QED
  BY <1>2, <1>5, <1>8, <1>9, <1>10, <1>11, <1>12 DEF CutOffInv

\* The install: every copy queried earlier is overtaken, and every one queried
\* later leaves out whom this handler was cutting off.
LEMMA InstallKeepsCutOff ==
  ASSUME WellFormed, CutOffInv, NEW a \in Handlers, InstallKeys(a),
         Notes({a}, a \in overtaken)
  PROVE  CutOffInv'
<1>1. /\ \A b \in Handlers : b # a => h'[b] = h[b]
      /\ h[a].pc = "install" /\ h'[a].pc = "idle" /\ clients' = h[a].copy
  <2>1. h \in [Handlers -> Request] /\ Idle.pc = "idle"
    BY DEF WellFormed, Idle
  <2> QED
    BY <2>1 DEF InstallKeys, Done, Moves
<1>2. (regressed' <=> a \in overtaken) /\ Gone' = Gone
  BY DEF InstallKeys, Notes, tables, Gone, Exists
<1>3. Holders' = Holders \ {a} /\ a \in Holders /\ Holders \subseteq Handlers
  BY <1>1 DEF Holders
<1>4. /\ before' = before \cap (Holders' \X Holders')
      /\ overtaken' = (overtaken \cup {b \in Handlers : <<b, a>> \in before}) \cap Holders'
  <2>1. {b \in Handlers : Queries(b)} = {}
    BY <1>1 DEF Queries
  <2>2. \A b \in Handlers : (\E c \in {a} : <<b, c>> \in before) <=> <<b, a>> \in before
    OBVIOUS
  <2> QED
    BY <2>1, <2>2 DEF Notes, NotesRefreshes
<1>5. /\ cutOff' \subseteq Gone
      /\ \A u \in cutOff' : u \in cutOff \/ (a \in standing /\ u = h[a].target)
  BY <1>2 DEF Notes, NotesCutOffs
<1>6. standing' \subseteq standing \ {a}
  BY <1>1 DEF Notes, NotesCutOffs, CutsOff
<1>7. StandingUnderWay'
  BY <1>1, <1>2, <1>6 DEF CutOffInv, StandingUnderWay
<1>8. QueriesOrdered'
  <2>1. before' \subseteq Holders' \X Holders' /\ overtaken' \subseteq Holders'
    BY <1>4
  <2>2. ASSUME NEW b \in Holders', NEW c \in Holders'
        PROVE  b = c \/ <<b, c>> \in before' \/ <<c, b>> \in before'
    BY <1>3, <1>4 DEF CutOffInv, QueriesOrdered
  <2> QED
    BY <2>1, <2>2 DEF QueriesOrdered
<1>9. CopiesLeaveOut'
  <2>1. ASSUME NEW c \in Holders', NEW b \in standing', c = b \/ <<b, c>> \in before'
        PROVE  h'[b].target \notin h'[c].copy
    <3>1. b \in standing /\ b \in Handlers /\ b # a /\ c \in Holders /\ c # a
      BY <1>3, <1>6, <2>1 DEF CutOffInv, StandingUnderWay
    <3>2. c = b \/ <<b, c>> \in before
      BY <1>4, <2>1
    <3> QED
      BY <1>1, <1>3, <3>1, <3>2 DEF CutOffInv, CopiesLeaveOut
  <2> QED
    BY <2>1 DEF CopiesLeaveOut
<1>10. ASSUME NEW c \in Holders, c \notin overtaken, c = a \/ <<a, c>> \in before
       PROVE  h[c].copy \cap cutOff' = {}
  <2>1. h[c].copy \cap cutOff = {}
    BY <1>10 DEF CutOffInv, CopiesCurrent
  <2>2. a \in standing => h[a].target \notin h[c].copy
    BY <1>10 DEF CutOffInv, CopiesLeaveOut
  <2> QED
    BY <1>5, <2>1, <2>2
<1>11. CopiesCurrent'
  <2>1. ASSUME NEW c \in Holders' \ overtaken' PROVE h'[c].copy \cap cutOff' = {}
    <3>1. c \in Holders /\ c # a /\ c \notin overtaken /\ <<c, a>> \notin before
      BY <1>3, <1>4, <2>1
    <3>2. <<a, c>> \in before
      BY <1>3, <3>1 DEF CutOffInv, QueriesOrdered
    <3> QED
      BY <1>1, <1>3, <1>10, <3>1, <3>2
  <2> QED
    BY <2>1 DEF CopiesCurrent
<1>12. CutOffStaysOut'
  BY <1>1, <1>2, <1>3, <1>10 DEF CutOffStaysOut
<1> QED
  BY <1>2, <1>5, <1>7, <1>8, <1>9, <1>11, <1>12 DEF CutOffInv

\* A restart: nobody holds a copy, and the keys are read afresh.
LEMMA RestartKeepsCutOff ==
  ASSUME WellFormed, CutOffInv, Restart, Notes({}, FALSE)
  PROVE  CutOffInv'
<1>1. \A b \in Handlers : h'[b].pc = "idle"
  BY DEF Restart, Idle
<1>2. Gone' = Gone /\ Holders' = {} /\ ~regressed' /\ clients' = AdmittedKeys
  BY <1>1 DEF Restart, Notes, tables, Gone, Exists, Holders
<1>3. before' = {} /\ overtaken' = {}
  BY <1>2 DEF Notes, NotesRefreshes
<1>4. cutOff' \subseteq Gone
  BY <1>2 DEF Notes, NotesCutOffs
<1>5. standing' = {}
  <2>1. standing' \subseteq Handlers
    BY DEF Notes, NotesCutOffs, CutOffInv, StandingUnderWay
  <2> QED
    BY <1>1, <2>1 DEF Notes, NotesCutOffs
<1>6. CutOffStaysOut'
  BY <1>2, <1>4, AdmittedAreThere DEF CutOffStaysOut
<1> QED
  BY <1>2, <1>3, <1>4, <1>5, <1>6
  DEF CutOffInv, StandingUnderWay, QueriesOrdered, CopiesLeaveOut, CopiesCurrent

\* Every other step of a handler is quiet.
LEMMA OtherStepsAreQuiet ==
  ASSUME WellFormed, NEW a \in Handlers, Step(a), ~QueryKeys(a)
  PROVE  clients' = clients /\ Quiet(a)
<1>0. h \in [Handlers -> Request] /\ h[a] \in Request /\ Idle.pc = "idle"
  BY DEF WellFormed, Idle
<1>1. ASSUME Done(a) PROVE h'[a].pc = "idle"
  BY <1>0, <1>1 DEF Done, Moves
<1>2. ASSUME NEW pc, Written(a, pc) PROVE h'[a].pc = pc /\ h'[a].target = h[a].target
  BY <1>0, <1>2 DEF Written, Moves, Idle
<1>3. ASSUME NEW pc, Goes(a, pc) PROVE h'[a].pc = pc
  BY <1>0, <1>3 DEF Goes, Moves, Request
<1>4. CASE BeginAny(a)
  <2>1. ASSUME NEW u, NEW pc \in {"read", "write"}, NEW op, NEW to, NEW t, Begin(a, u, pc, op, to, t)
        PROVE  h[a].pc = "idle" /\ h'[a].pc # "install" /\ clients' = clients
    BY <1>0, <2>1 DEF Begin, Moves
  <2>2. h[a].pc = "idle" /\ h'[a].pc # "install" /\ clients' = clients
    BY <1>4, <2>1 DEF BeginAny, BeginOwnPassword, BeginCreate
  <2> QED
    BY <2>2 DEF Quiet
<1>5. CASE Check(a)
  <2>1. clients' = clients /\ h[a].pc \in {"read", "count"}
    BY <1>5 DEF Check, ReadTarget, CountAdmins, ReadAccessTarget, ReadSelf, ReadKey
  <2>2. h'[a].pc \in {"idle", "count", "write"}
    <3>1. CASE ReadTarget(a)
      <4> DEFINE q == [h[a] EXCEPT !.seen = users[h[a].target].role]
                 r == [q EXCEPT !.pc = IF Removes(q) THEN "count" ELSE "write"]
      <4>1. Done(a) \/ h'[a] = r
        BY <1>0, <3>1 DEF ReadTarget, Moves
      <4>2. r.pc \in {"count", "write"}
        BY <1>0 DEF Request
      <4> HIDE DEF r
      <4> QED
        BY <1>1, <4>1, <4>2
    <3>2. CASE ~ReadTarget(a)
      BY <1>1, <1>3, <1>5, <3>2 DEF Check, CountAdmins, ReadAccessTarget, ReadSelf, ReadKey
    <3> QED
      BY <3>1, <3>2
  <2> QED
    BY <2>1, <2>2 DEF Quiet
<1>6. CASE Write(a)
  <2>1. clients' = clients /\ h[a].pc = "write"
    BY <1>6 DEF Write, InsertUser, UpdateUser, DeleteUser, SetUserProviderAccess,
       CreateClientKey, SetClientKeyDisabled, DeleteClientKey, SetKey
  <2>2. Done(a) \/ \E pc \in {"clear", "kill", "refresh"} : Written(a, pc)
    <3>1. AfterUpdate(h[a]) \in {"clear", "kill", "refresh"}
      BY DEF AfterUpdate
    <3> QED
      BY <1>6, <3>1 DEF Write, InsertUser, UpdateUser, DeleteUser, SetUserProviderAccess,
         CreateClientKey, SetClientKeyDisabled, DeleteClientKey, SetKey
  <2>3. h'[a].pc # "install" /\ (h'[a].pc # "idle" => h'[a].target = h[a].target)
    BY <1>1, <1>2, <2>2
  <2> QED
    BY <2>1, <2>3 DEF Quiet
<1>7. CASE ClearUserProviderAccess(a) \/ DeleteUserSessions(a)
  <2>1. clients' = clients /\ h[a].pc \in {"clear", "kill"} /\ (Done(a) \/ Written(a, "refresh"))
    BY <1>7 DEF ClearUserProviderAccess, DeleteUserSessions
  <2>2. /\ h'[a].pc \in {"idle", "refresh"}
        /\ h'[a].pc # "idle" => h'[a].target = h[a].target
    BY <1>1, <1>2, <2>1
  <2> QED
    BY <2>1, <2>2 DEF Quiet
<1>8. CASE SignIn(a) \/ \E u \in Users : ResetPassword(a, u)
  <2>1. clients' = clients /\ h[a].pc \in {"idle", "link", "mint"}
    BY <1>8 DEF SignIn, Login, LinkGoogleUser, StartSession, ResetPassword
  <2>2. h'[a].pc \in {"idle", "link", "mint", "write"}
    <3>1. CASE LinkGoogleUser(a) \/ StartSession(a)
      BY <1>1, <1>3, <3>1 DEF LinkGoogleUser, StartSession
    <3>2. CASE \E u \in Users, method \in {"password", "google"} : Login(a, u, method)
      BY <1>0, <3>2 DEF Login, Moves, Idle
    <3>3. CASE \E u \in Users : ResetPassword(a, u)
      BY <1>0, <3>3 DEF ResetPassword, Moves, Idle
    <3> QED
      BY <1>8, <3>1, <3>2, <3>3 DEF SignIn
  <2> QED
    BY <2>1, <2>2 DEF Quiet
<1>9. CASE Fails(a)
  <2>1. clients' = clients /\ h[a].pc # "install" /\ h'[a].pc = "idle"
    BY <1>1, <1>9 DEF Fails
  <2> QED
    BY <2>1 DEF Quiet
<1> QED
  BY <1>4, <1>5, <1>6, <1>7, <1>8, <1>9 DEF Step, Follow

\* Every step keeps whoever is cut off out.
LEMMA StepCutOff ==
  WellFormed /\ CutOffInv /\ [AuditNext]_auditVars => CutOffInv'
<1> SUFFICES ASSUME WellFormed, CutOffInv, [AuditNext]_auditVars
             PROVE  CutOffInv'
  OBVIOUS
<1>1. ASSUME NEW a \in Handlers, Step(a), Notes({}, regressed) PROVE CutOffInv'
  <2>1. CASE QueryKeys(a)
    BY <1>1, <2>1, QueryKeepsCutOff
  <2>2. CASE ~QueryKeys(a)
    <3>1. \A b \in Handlers : b # a => h'[b] = h[b]
      BY <1>1, OneMoves DEF Step
    <3>2. clients' = clients /\ Quiet(a)
      BY <1>1, <2>2, OtherStepsAreQuiet
    <3> QED
      BY <1>1, <3>1, <3>2, QuietKeepsCutOff DEF Notes
  <2> QED
    BY <2>1, <2>2
<1>2. ASSUME NEW u \in Users, Logout(u), Notes({}, regressed) PROVE CutOffInv'
  BY <1>2, QuietKeepsCutOff DEF Logout, Notes
<1>3. CASE UNCHANGED auditVars
  <2>1. UNCHANGED <<h, users, clients, cutOff, standing, before, overtaken, regressed>>
    BY <1>3 DEF auditVars, vars, tables
  <2> QED
    BY <2>1 DEF CutOffInv, StandingUnderWay, QueriesOrdered, CopiesLeaveOut, CopiesCurrent,
       CutOffStaysOut, Gone, Exists, Holders
<1> QED
  BY <1>1, <1>2, <1>3, InstallKeepsCutOff, RestartKeepsCutOff DEF AuditNext

-----------------------------------------------------------------------------
(***************************************************************************)
(* What the checks found out.                                              *)
(***************************************************************************)
\* A step that leaves every role and switch as it is, and whose handler, if
\* any, has found out nothing wrong.
LEMMA QuietKeepsRules ==
  ASSUME WellFormed, RulesInv, NotesChecks,
         \A u \in Users : /\ users'[u].role = users[u].role
                          /\ users'[u].disabled = users[u].disabled,
         \A b \in Handlers : ~WritesNow(b),
         \A b \in Handlers : h'[b] = h[b] \/ (Fits(h[b], users) => Fits(h'[b], users'))
  PROVE  RulesInv'
<1>1. /\ \A b \in stale : h'[b].pc # "idle" => b \in stale'
      /\ raced => raced'
  BY DEF NotesChecks
<1>2. SUFFICES ASSUME ~raced PROVE Remains(users') /\ \A b \in Handlers \ stale' : Fits(h'[b], users')
  BY <1>1 DEF RulesInv
<1>3. Remains(users')
  BY <1>2 DEF RulesInv, Remains
<1>4. ASSUME NEW b \in Handlers \ stale' PROVE Fits(h'[b], users')
  <2>1. CASE h'[b].pc = "idle"
    BY <2>1 DEF Fits
  <2>2. CASE h'[b].pc # "idle"
    <3>1. Fits(h[b], users)
      BY <1>1, <1>2, <1>4, <2>2 DEF RulesInv
    <3>2. CASE h'[b] = h[b]
      <4>1. h[b].target \in Users
        BY <2>2, <3>2 DEF WellFormed, GoodRequest
      <4> QED
        BY <3>1, <3>2, <4>1 DEF Fits
    <3> QED
      BY <3>1, <3>2
  <2> QED
    BY <2>1, <2>2
<1> QED
  BY <1>3, <1>4

\* A step that writes roles, switches or revocations leaves everyone else who
\* has read an account stale.
LEMMA WriterKeepsRules ==
  ASSUME WellFormed, RulesInv, NotesChecks, NEW a \in Handlers,
         WritesNow(a), \A b \in Handlers : b # a => h'[b] = h[b],
         h'[a].pc \notin {"count", "write"},
         Remains(users) /\ Fits(h[a], users) => Remains(users')
  PROVE  RulesInv'
<1>1. /\ stale' = {b \in Handlers : ~WritesNow(b) /\ Checked(b)'}
      /\ raced \/ a \in stale => raced'
  BY DEF NotesChecks
<1>2. SUFFICES ASSUME ~raced, a \notin stale
               PROVE  Remains(users') /\ \A b \in Handlers \ stale' : Fits(h'[b], users')
  BY <1>1 DEF RulesInv
<1>3. Remains(users')
  BY <1>2 DEF RulesInv
<1>4. ASSUME NEW b \in Handlers \ stale' PROVE Fits(h'[b], users')
  <2>1. h'[b].pc \notin {"count", "write"} \/ h'[b].op = "create"
    BY <1>1 DEF Checked, WritesNow
  <2> QED
    BY <2>1 DEF Fits, Removes, PatchOps
<1> QED
  BY <1>3, <1>4

\* A write that rests on a check that still holds leaves a superadmin.
LEMMA WriteKeepsSuperadmin ==
  ASSUME WellFormed, NEW a \in Handlers, Write(a) \/ ClearUserProviderAccess(a),
         Remains(users), Fits(h[a], users)
  PROVE  Remains(users')
<1> DEFINE t == h[a].target
<1>0. GoodTables /\ GoodRequest(h[a]) /\ h[a] \in Request
  BY DEF WellFormed, GoodRequest
<1>t. t \in Users
  BY <1>0, WriteMoves DEF GoodRequest
<1>1. PICK w \in Users : users[w].role = "superadmin" /\ ~users[w].disabled
  BY DEF Remains
<1>2. ASSUME NEW u \in Users, u # t, users[u].role = "superadmin", ~users[u].disabled,
             NEW row, users' = [users EXCEPT ![t] = row]
      PROVE  Remains(users')
  BY <1>0, <1>2 DEF Remains, GoodTables
<1>3. ASSUME users' = users PROVE Remains(users')
  BY <1>3
<1>4. CASE \E revoked \in BOOLEAN : InsertUser(a, revoked)
  <2> PICK revoked \in BOOLEAN : InsertUser(a, revoked)
    BY <1>4
  <2>1. CASE users[t] # Unused
    BY <1>3, <2>1 DEF InsertUser, tables
  <2>2. CASE users[t] = Unused
    <3>1. w # t
      BY <1>1, <2>2 DEF Unused
    <3> QED
      BY <1>1, <1>2, <2>2, <3>1 DEF InsertUser
  <2> QED
    BY <2>1, <2>2
<1>5. CASE UpdateUser(a)
  <2>1. CASE ~Exists(t)
    BY <1>3, <1>5, <2>1 DEF UpdateUser
  <2>2. CASE Exists(t)
    <3>0. users' = [users EXCEPT ![t] = Patched(h[a], users[t])]
      BY <1>5, <2>2 DEF UpdateUser
    <3>1. CASE w # t
      BY <1>1, <1>2, <3>0, <3>1
    <3>2. CASE w = t /\ Removes(h[a])
      BY <1>2, <1>5, <3>0, <3>2 DEF Fits, UpdateUser
    <3>3. CASE w = t /\ ~Removes(h[a])
      <4>1. h[a].op \in PatchOps => h[a].seen = "superadmin"
        BY <1>1, <1>5, <3>3 DEF Fits, UpdateUser
      <4>2. h[a].op # "disable" /\ (h[a].op = "role" => h[a].to = "superadmin")
        BY <3>3, <4>1 DEF Removes, PatchOps
      <4>3. users[t] \in Account
        BY <1>0, <1>t, <2>2, RowFields DEF GoodTables, Exists
      <4>4. /\ Patched(h[a], users[t]).role = "superadmin"
            /\ ~Patched(h[a], users[t]).disabled
        BY <1>1, <3>3, <4>2, <4>3 DEF Patched, Account
      <4>5. users'[t] = Patched(h[a], users[t])
        BY <1>0, <1>t, <3>0 DEF GoodTables
      <4> QED
        BY <1>t, <4>4, <4>5 DEF Remains
    <3> QED
      BY <3>1, <3>2, <3>3
  <2> QED
    BY <2>1, <2>2
<1>6. CASE DeleteUser(a)
  <2>1. CASE ~Exists(t)
    BY <1>3, <1>6, <2>1 DEF DeleteUser
  <2>2. CASE Exists(t)
    <3>0. users' = [users EXCEPT ![t] = Deleted]
      BY <1>6, <2>2 DEF DeleteUser
    <3>1. CASE w # t
      BY <1>1, <1>2, <3>0, <3>1
    <3>2. CASE w = t
      <4>1. Removes(h[a])
        BY <1>1, <1>6, <3>2 DEF Removes, Fits, DeleteUser
      <4> QED
        BY <1>2, <1>6, <3>0, <4>1 DEF Fits, DeleteUser
    <3> QED
      BY <3>1, <3>2
  <2> QED
    BY <2>1, <2>2
<1>7. CASE ~(\E revoked \in BOOLEAN : InsertUser(a, revoked)) /\ ~UpdateUser(a) /\ ~DeleteUser(a)
  <2>1. users' = users
    BY <1>7 DEF Write, SetUserProviderAccess, CreateClientKey, SetClientKeyDisabled,
       DeleteClientKey, SetKey, ClearUserProviderAccess
  <2> QED
    BY <1>3, <2>1
<1> QED
  BY <1>4, <1>5, <1>6, <1>7

\* CountSuperadmins: more than one superadmin means another one.
LEMMA AnotherSuperadmin ==
  ASSUME ~(Cardinality(Superadmins) =< 1), NEW t
  PROVE  \E u \in Superadmins : u # t
<1> SUFFICES ASSUME Superadmins \subseteq {t} PROVE FALSE
  OBVIOUS
<1>1. Superadmins = {} \/ Superadmins = {t}
  OBVIOUS
<1>2. Cardinality(Superadmins) \in {0, 1}
  BY <1>1, FS_EmptySet, FS_Singleton
<1> QED
  BY <1>2

\* A check never finds out what is not so.
LEMMA CheckFits ==
  ASSUME WellFormed, NEW a \in Handlers, Check(a), Fits(h[a], users)
  PROVE  Fits(h'[a], users)
<1>0. h \in [Handlers -> Request] /\ h[a] \in Request
  BY DEF WellFormed, GoodRequest
<1>1. ASSUME Done(a) PROVE Fits(h'[a], users)
  <2>1. h'[a].pc = "idle"
    BY <1>0, <1>1 DEF Done, Moves, Idle
  <2> QED
    BY <2>1 DEF Fits
<1>2. CASE ReadTarget(a) /\ ~Done(a)
  <2> DEFINE q == [h[a] EXCEPT !.seen = users[h[a].target].role]
             r == [q EXCEPT !.pc = IF Removes(q) THEN "count" ELSE "write"]
  <2>1. h'[a] = r
    BY <1>0, <1>2 DEF ReadTarget, Moves
  <2>2. /\ r.op = q.op /\ r.to = q.to /\ r.target = h[a].target /\ r.seen = q.seen
        /\ r.pc = IF Removes(q) THEN "count" ELSE "write"
        /\ q.seen = users[h[a].target].role
        /\ q.op = h[a].op
    BY <1>0 DEF Request
  <2> HIDE DEF q, r
  <2>3. r.op # "access"
    BY <1>2, <2>2 DEF ReadTarget, PatchOps
  <2>4. r.pc = "write" => ~Removes(r)
    BY <2>2 DEF Removes
  <2> QED
    BY <2>1, <2>2, <2>3, <2>4 DEF Fits
<1>3. CASE CountAdmins(a) /\ ~Done(a)
  <2> DEFINE r == [h[a] EXCEPT !.pc = "write"]
  <2>1. h'[a] = r /\ ~(Cardinality(Superadmins) =< 1) /\ h[a].pc = "count"
    BY <1>0, <1>3 DEF CountAdmins, Goes, Moves
  <2>2. r.op = h[a].op /\ r.to = h[a].to /\ r.target = h[a].target /\ r.seen = h[a].seen
    BY <1>0 DEF Request
  <2> HIDE DEF r
  <2>3. \E u \in Superadmins : u # r.target
    BY <2>1, AnotherSuperadmin
  <2>4. h[a].op # "access"
    BY <2>1 DEF WellFormed, GoodRequest, PatchOps
  <2> QED
    BY <2>1, <2>2, <2>3, <2>4 DEF Fits, Superadmins
<1>4. CASE ReadAccessTarget(a) /\ ~Done(a)
  <2> DEFINE r == [h[a] EXCEPT !.pc = "write"]
  <2>1. h'[a] = r /\ h[a].op = "access" /\ users[h[a].target].role = "user"
    BY <1>0, <1>4 DEF ReadAccessTarget, Goes, Moves
  <2>2. r.op = h[a].op /\ r.target = h[a].target
    BY <1>0 DEF Request
  <2> HIDE DEF r
  <2> QED
    BY <2>1, <2>2 DEF Fits, Removes, PatchOps
<1>5. CASE (ReadSelf(a) \/ ReadKey(a)) /\ ~Done(a)
  <2> DEFINE r == [h[a] EXCEPT !.pc = "write"]
  <2>1. h'[a] = r /\ h[a].op \in {"own password", "switch key", "delete key"}
    BY <1>0, <1>5 DEF ReadSelf, ReadKey, Goes, Moves
  <2>2. r.op = h[a].op
    BY <1>0 DEF Request
  <2> HIDE DEF r
  <2> QED
    BY <2>1, <2>2 DEF Fits, Removes, PatchOps
<1> QED
  BY <1>1, <1>2, <1>3, <1>4, <1>5 DEF Check

\* Every step keeps the rules while no change has raced with another.
LEMMA StepRules ==
  WellFormed /\ RulesInv /\ [AuditNext]_auditVars => RulesInv'
<1> SUFFICES ASSUME WellFormed, RulesInv, [AuditNext]_auditVars
             PROVE  RulesInv'
  OBVIOUS
<1>1. CASE AuditNext
  <2>0. NotesChecks /\ h \in [Handlers -> Request] /\ Idle.pc = "idle"
    BY <1>1, AuditSteps DEF WellFormed, Idle
  <2>1. ASSUME <<users, access>>' = <<users, access>>,
               \A b \in Handlers : h'[b] = h[b] \/ (Fits(h[b], users) => Fits(h'[b], users))
        PROVE  RulesInv'
    <3>1. \A b \in Handlers : ~WritesNow(b)
      BY <2>1 DEF WritesNow
    <3> QED
      BY <2>0, <2>1, <3>1, QuietKeepsRules
  <2>2. ASSUME NEW a \in Handlers, Write(a) \/ ClearUserProviderAccess(a)
        PROVE  RulesInv'
    <3>1. \A b \in Handlers : b # a => h'[b] = h[b]
      BY <2>2, OneMoves DEF Follow
    <3>2. h'[a].pc \notin {"count", "write"}
      BY <2>2, WriteMoves
    <3>3. CASE WritesNow(a)
      BY <2>0, <2>2, <3>1, <3>2, <3>3, WriterKeepsRules, WriteKeepsSuperadmin
    <3>4. CASE ~WritesNow(a)
      <4>1. <<users, access>>' = <<users, access>>
        BY <2>2, <3>4, WriteMoves DEF WritesNow
      <4>2. Fits(h'[a], users)
        BY <3>2 DEF Fits
      <4> QED
        BY <2>1, <3>1, <4>1, <4>2
    <3> QED
      BY <3>3, <3>4
  <2>3. ASSUME NEW a \in Handlers, Check(a) PROVE RulesInv'
    <3>1. \A b \in Handlers : b # a => h'[b] = h[b]
      BY <2>3, OneMoves
    <3>2. Fits(h[a], users) => Fits(h'[a], users)
      BY <2>3, CheckFits
    <3>3. <<users, access>>' = <<users, access>>
      BY <2>3 DEF Check, ReadTarget, CountAdmins, ReadAccessTarget, ReadSelf, ReadKey, tables
    <3> QED
      BY <2>1, <3>1, <3>2, <3>3
  <2>4. ASSUME NEW a \in Handlers, <<users, access>>' = <<users, access>>,
               \/ h'[a].pc \notin {"count", "write"}
               \/ h'[a].pc = "write" /\ h'[a].op \in {"create", "new key", "own password"}
               \/ h'[a].pc = "read",
               \A b \in Handlers : b # a => h'[b] = h[b]
        PROVE  RulesInv'
    <3>1. Fits(h'[a], users)
      BY <2>4 DEF Fits, Removes, PatchOps
    <3> QED
      BY <2>1, <2>4, <3>1
  <2>5. ASSUME NEW a \in Handlers, BeginAny(a) PROVE RulesInv'
    <3>1. \A b \in Handlers : b # a => h'[b] = h[b]
      BY <2>5, OneMoves
    <3>2. /\ <<users, access>>' = <<users, access>>
          /\ \/ h'[a].pc = "read"
             \/ h'[a].pc = "write" /\ h'[a].op \in {"create", "new key", "own password"}
      <4>1. ASSUME NEW u, NEW pc, NEW op, NEW to, NEW t, Begin(a, u, pc, op, to, t)
            PROVE  h'[a].pc = pc /\ h'[a].op = op /\ <<users, access>>' = <<users, access>>
        BY <2>0, <4>1 DEF Begin, Moves, tables
      <4> QED
        BY <2>5, <4>1 DEF BeginAny, BeginOwnPassword, BeginCreate
    <3> QED
      BY <2>4, <3>1, <3>2
  <2>6. ASSUME NEW a \in Handlers,
               \/ DeleteUserSessions(a) \/ InstallKeys(a) \/ StartSession(a) \/ Fails(a)
               \/ QueryKeys(a)
               \/ \E u \in Users, method \in {"password", "google"} : Login(a, u, method)
               \/ \E u \in Users : ResetPassword(a, u)
        PROVE  RulesInv'
    <3>1. \A b \in Handlers : b # a => h'[b] = h[b]
      BY <2>6, OneMoves DEF Follow, SignIn
    <3>2. /\ <<users, access>>' = <<users, access>>
          /\ \/ h'[a].pc \notin {"count", "write"}
             \/ h'[a].pc = "write" /\ h'[a].op = "own password"
      <4>1. CASE DeleteUserSessions(a) \/ InstallKeys(a) \/ StartSession(a) \/ Fails(a)
        <5>1. Done(a) \/ Written(a, "refresh")
          BY <4>1 DEF DeleteUserSessions, InstallKeys, StartSession, Fails
        <5>2. h'[a].pc \in {"idle", "refresh"}
          BY <2>0, <5>1 DEF Done, Written, Moves, Idle
        <5> QED
          BY <4>1, <5>2 DEF DeleteUserSessions, InstallKeys, StartSession, Fails, tables
      <4>4. CASE QueryKeys(a)
        <5>1. h'[a].pc = "install"
          BY <2>0, <4>4 DEF QueryKeys, Moves, Request
        <5> QED
          BY <4>4, <5>1 DEF QueryKeys, tables
      <4>2. CASE \E u \in Users, method \in {"password", "google"} : Login(a, u, method)
        <5>1. h'[a].pc \in {"link", "mint"}
          BY <2>0, <4>2 DEF Login, Moves, Idle
        <5> QED
          BY <4>2, <5>1 DEF Login, tables
      <4>3. CASE \E u \in Users : ResetPassword(a, u)
        <5>1. h'[a].pc = "write" /\ h'[a].op = "own password"
          BY <2>0, <4>3 DEF ResetPassword, Moves, Idle
        <5> QED
          BY <4>3, <5>1 DEF ResetPassword, tables
      <4> QED
        BY <2>6, <4>1, <4>2, <4>3, <4>4
    <3> QED
      BY <2>4, <3>1, <3>2
  <2>7. ASSUME NEW a \in Handlers, LinkGoogleUser(a) PROVE RulesInv'
    <3>1. \A b \in Handlers : b # a => h'[b] = h[b]
      BY <2>7, OneMoves DEF SignIn
    <3>2. h[a].pc = "link" /\ h'[a].pc \in {"mint", "idle"}
      <4>1. h[a] \in Request
        BY <2>0
      <4>2. h[a].pc = "link" /\ (Goes(a, "mint") \/ Done(a))
        BY <2>7 DEF LinkGoogleUser
      <4>3. CASE Goes(a, "mint")
        BY <2>0, <4>1, <4>2, <4>3 DEF Goes, Moves, Request
      <4>4. CASE Done(a)
        BY <2>0, <4>2, <4>4 DEF Done, Moves
      <4> QED
        BY <4>2, <4>3, <4>4
    <3>3. \A b \in Handlers : ~WritesNow(b)
      BY <3>1, <3>2 DEF WritesNow
    <3>4. \A u \in Users : /\ users'[u].role = users[u].role
                           /\ users'[u].disabled = users[u].disabled
      <4>1. h[a].target \in Users /\ users \in [Users -> Row]
        BY <3>2 DEF WellFormed, GoodRequest, GoodTables
      <4>2. CASE ~Exists(h[a].target)
        BY <2>7, <4>2 DEF LinkGoogleUser
      <4>3. CASE Exists(h[a].target)
        <5>1. users[h[a].target] \in Account
          BY <4>1, <4>3, RowFields DEF Exists
        <5>2. users' = [users EXCEPT ![h[a].target].linked = TRUE]
          BY <2>7, <4>3 DEF LinkGoogleUser
        <5> QED
          BY <4>1, <5>1, <5>2 DEF Account
      <4> QED
        BY <4>2, <4>3
    <3>5. Fits(h'[a], users')
      BY <3>2 DEF Fits
    <3> QED
      BY <2>0, <3>1, <3>3, <3>4, <3>5, QuietKeepsRules
  <2>8. ASSUME NEW u \in Users, Logout(u) PROVE RulesInv'
    BY <2>1, <2>8 DEF Logout
  <2>9. CASE Restart
    <3>1. \A b \in Handlers : Fits(h'[b], users)
      BY <2>0, <2>9 DEF Restart, Fits
    <3> QED
      BY <2>1, <2>9, <3>1 DEF Restart, tables
  <2> QED
    BY <1>1, <2>2, <2>3, <2>5, <2>6, <2>7, <2>8, <2>9, AuditSteps
      DEF Next, Step, Follow, SignIn
<1>2. CASE UNCHANGED auditVars
  BY <1>2 DEF auditVars, vars, tables, RulesInv
<1> QED
  BY <1>1, <1>2

-----------------------------------------------------------------------------
(***************************************************************************)
(* Revocations.                                                            *)
(***************************************************************************)
\* The clearing of u's revocations is still to come.
ToBeCleared(u, requests) ==
  \E a \in Handlers : requests[a].pc = "clear" /\ requests[a].target = u

\* Every step keeps promoted accounts free of a plain user's restrictions.
LEMMA StepPromotion ==
  WellFormed /\ RulesInv /\ PromotionInv /\ [AuditNext]_auditVars => PromotionInv'
<1> SUFFICES ASSUME WellFormed, RulesInv, PromotionInv, [AuditNext]_auditVars
             PROVE  PromotionInv'
  OBVIOUS
<1>1. CASE AuditNext
  <2>0. /\ NotesChecks /\ h \in [Handlers -> Request] /\ Idle.pc = "idle"
        /\ GoodTables /\ \A b \in Handlers : GoodRequest(h[b])
    BY <1>1, AuditSteps DEF WellFormed, Idle
  <2>1. SUFFICES ASSUME ~raced', ~partial', NEW u \in access'
                 PROVE  /\ users'[u] # Unused
                        /\ IsAdmin(users'[u].role) => ToBeCleared(u, h')
    BY DEF PromotionInv, ToBeCleared
  <2>2. /\ Remains(users) /\ \A a \in Handlers \ stale : Fits(h[a], users)
        /\ \A a \in stale : ~WritesNow(a)
        /\ \A a \in Handlers : ~Stops(a)
        /\ \A v \in access : /\ users[v] # Unused
                             /\ IsAdmin(users[v].role) => ToBeCleared(v, h)
    BY <2>0, <2>1 DEF NotesChecks, RulesInv, PromotionInv, ToBeCleared
  <2>3. \* a revocation that was there, of an account that keeps its role
        ASSUME u \in access, users'[u] # Unused,
               IsAdmin(users'[u].role) => IsAdmin(users[u].role),
               \A b \in Handlers : h[b].pc = "clear" /\ h[b].target = u => h'[b] = h[b]
        PROVE  /\ users'[u] # Unused
               /\ IsAdmin(users'[u].role) => ToBeCleared(u, h')
    BY <2>2, <2>3 DEF ToBeCleared
  <2>4. ASSUME access' = access, users' = users,
               \A b \in Handlers : h'[b] = h[b] \/ h[b].pc # "clear"
        PROVE  /\ users'[u] # Unused
               /\ IsAdmin(users'[u].role) => ToBeCleared(u, h')
    BY <2>1, <2>2, <2>3, <2>4
  <2>5. ASSUME NEW a \in Handlers,
               \/ BeginAny(a) \/ Check(a) \/ DeleteUserSessions(a) \/ StartSession(a)
               \/ QueryKeys(a) \/ InstallKeys(a)
               \/ \E v \in Users, method \in {"password", "google"} : Login(a, v, method)
               \/ \E v \in Users : ResetPassword(a, v)
        PROVE  /\ users'[u] # Unused
               /\ IsAdmin(users'[u].role) => ToBeCleared(u, h')
    <3>1. \A b \in Handlers : b # a => h'[b] = h[b]
      BY <2>5, OneMoves DEF Follow, SignIn
    <3>2. h[a].pc # "clear" /\ <<users, access>>' = <<users, access>>
      <4>0. CASE BeginAny(a)
        BY <4>0, BeginLeaves DEF tables
      <4>1. CASE Check(a)
        BY <4>1 DEF Check, ReadTarget, CountAdmins, ReadAccessTarget, ReadSelf, ReadKey, tables
      <4>2. CASE ~BeginAny(a) /\ ~Check(a)
        BY <2>5, <4>2 DEF DeleteUserSessions, QueryKeys, InstallKeys, StartSession, Login,
           ResetPassword, tables
      <4> QED
        BY <4>0, <4>1, <4>2
    <3> QED
      BY <2>4, <3>1, <3>2
  <2>6. ASSUME NEW a \in Handlers, Fails(a)
        PROVE  /\ users'[u] # Unused
               /\ IsAdmin(users'[u].role) => ToBeCleared(u, h')
    <3>1. \A b \in Handlers : b # a => h'[b] = h[b]
      BY <2>6, OneMoves
    <3>2. h'[a].pc = "idle" /\ <<users, access>>' = <<users, access>>
      BY <2>0, <2>6 DEF Fails, Done, Moves, tables
    <3> QED
      BY <2>2, <2>4, <3>1, <3>2 DEF Stops
  <2>7. ASSUME NEW a \in Handlers, LinkGoogleUser(a)
        PROVE  /\ users'[u] # Unused
               /\ IsAdmin(users'[u].role) => ToBeCleared(u, h')
    <3>1. \A b \in Handlers : b # a => h'[b] = h[b]
      BY <2>7, OneMoves DEF SignIn
    <3>2. h[a].pc = "link" /\ access' = access /\ h[a].target \in Users /\ users \in [Users -> Row]
      BY <2>0, <2>7 DEF LinkGoogleUser, GoodRequest, GoodTables
    <3>3. users'[u] # Unused /\ users'[u].role = users[u].role
      <4>1. CASE ~Exists(h[a].target) \/ u # h[a].target
        <5>0. u \in Users
          BY <2>0, <2>1, <3>2 DEF GoodTables
        <5>1. users'[u] = users[u]
          BY <2>7, <3>2, <4>1, <5>0 DEF LinkGoogleUser
        <5> QED
          BY <2>1, <2>2, <3>2, <5>1
      <4>2. CASE Exists(h[a].target) /\ u = h[a].target
        <5>1. users[u] \in Account
          BY <3>2, <4>2, RowFields DEF Exists
        <5>2. users'[u] = [users[u] EXCEPT !.linked = TRUE]
          BY <2>7, <3>2, <4>2 DEF LinkGoogleUser
        <5>3. users'[u].role = users[u].role /\ users[u].role # "unused"
          BY <5>1, <5>2 DEF Account, Roles
        <5> QED
          BY <5>3 DEF Unused
      <4> QED
        BY <4>1, <4>2
    <3> QED
      BY <2>1, <2>3, <3>1, <3>2, <3>3
  <2>8. ASSUME NEW a \in Handlers, ClearUserProviderAccess(a)
        PROVE  /\ users'[u] # Unused
               /\ IsAdmin(users'[u].role) => ToBeCleared(u, h')
    <3>1. \A b \in Handlers : b # a => h'[b] = h[b]
      BY <2>8, OneMoves DEF Follow
    <3>2. u # h[a].target /\ u \in access /\ users' = users
      BY <2>1, <2>8 DEF ClearUserProviderAccess
    <3> QED
      BY <2>2, <2>3, <3>1, <3>2
  <2>9. ASSUME NEW a \in Handlers, Write(a)
        PROVE  /\ users'[u] # Unused
               /\ IsAdmin(users'[u].role) => ToBeCleared(u, h')
    <3> DEFINE t == h[a].target
    <3>0. h[a].pc = "write" /\ t \in Users /\ users \in [Users -> Row] /\ h'[a] # h[a]
      <4>1. h[a].pc = "write"
        BY <2>9 DEF Write, InsertUser, UpdateUser, DeleteUser, SetUserProviderAccess,
           CreateClientKey, SetClientKeyDisabled, DeleteClientKey
      <4> QED
        BY <2>0, <2>9, <4>1, WriteMoves DEF GoodRequest, GoodTables
    <3>1. \A b \in Handlers : h[b].pc = "clear" => h'[b] = h[b]
      <4>1. \A b \in Handlers : b # a => h'[b] = h[b]
        BY <2>9, OneMoves
      <4> QED
        BY <3>0, <4>1
    <3>2. <<users, access>>' # <<users, access>> => Fits(h[a], users)
      BY <2>2, <3>0 DEF WritesNow
    <3>3. CASE <<users, access>>' = <<users, access>>
      BY <2>4, <3>1, <3>3
    <3>4. CASE <<users, access>>' # <<users, access>> /\ \E revoked \in BOOLEAN : InsertUser(a, revoked)
      <4> PICK revoked \in BOOLEAN : InsertUser(a, revoked)
        BY <3>4
      <4> DEFINE row == [role |-> h[a].to, disabled |-> FALSE, linked |-> FALSE]
      <4>1. /\ users[t] = Unused /\ users' = [users EXCEPT ![t] = row]
            /\ access' = IF h[a].to = "user" /\ revoked THEN access \cup {t} ELSE access
        BY <3>4 DEF InsertUser, tables
      <4>2. CASE u = t
        <5>1. u \notin access
          BY <2>2, <4>1, <4>2
        <5>2. users'[u].role = "user"
          BY <2>1, <3>0, <4>1, <4>2, <5>1
        <5> QED
          BY <5>2 DEF IsAdmin, Unused
      <4>3. CASE u # t
        <5>1. u \in access /\ users'[u] = users[u]
          BY <2>1, <3>0, <4>1, <4>3
        <5> QED
          BY <2>2, <2>3, <3>1, <5>1
      <4> QED
        BY <4>2, <4>3
    <3>5. CASE <<users, access>>' # <<users, access>> /\ UpdateUser(a)
      <4>1. Exists(t) /\ users' = [users EXCEPT ![t] = Patched(h[a], users[t])] /\ access' = access
        BY <3>5 DEF UpdateUser
      <4>2. users[t] \in Account
        BY <3>0, <4>1, RowFields DEF Exists
      <4>3. h[a].op = "role" => h[a].to \in Roles
        BY <2>0, <3>0 DEF GoodRequest
      <4>4. CASE u # t
        <5>1. users'[u] = users[u]
          BY <3>0, <4>1, <4>4
        <5> QED
          BY <2>1, <2>2, <2>3, <3>1, <4>1, <5>1
      <4>5. CASE u = t
        <5>1. users'[u] = Patched(h[a], users[u])
          BY <3>0, <4>1, <4>5
        <5>2. Patched(h[a], users[u]) \in Account
          BY <4>2, <4>3, <4>5, AccountFields DEF Patched
        <5>3. users'[u] # Unused
          BY <5>1, <5>2 DEF Account, Unused, Roles
        <5>4. CASE h[a].op # "role"
          <6>1. users'[u].role = users[u].role
            BY <4>2, <4>5, <5>1, <5>4 DEF Patched, Account
          <6> QED
            BY <2>1, <2>3, <3>1, <4>1, <5>3, <6>1
        <5>5. CASE h[a].op = "role" /\ ~(IsAdmin(h[a].to) /\ ~IsAdmin(h[a].seen))
          <6>1. users'[u].role = h[a].to
            BY <4>2, <4>5, <5>1, <5>5 DEF Patched, Account
          <6>2. users[u].role = h[a].seen
            BY <3>0, <3>2, <3>5, <4>5, <5>5 DEF Fits, PatchOps
          <6> QED
            BY <2>1, <2>3, <3>1, <4>1, <5>3, <5>5, <6>1, <6>2
        <5>6. CASE h[a].op = "role" /\ IsAdmin(h[a].to) /\ ~IsAdmin(h[a].seen)
          <6>1. AfterUpdate(h[a]) = "clear"
            BY <5>6 DEF AfterUpdate
          <6>2. h'[a] = [Idle EXCEPT !.pc = "clear", !.op = h[a].op, !.target = t]
            BY <2>0, <3>5, <6>1 DEF UpdateUser, Written, Moves
          <6>3. h'[a].pc = "clear" /\ h'[a].target = u
            BY <4>5, <6>2 DEF Idle
          <6> QED
            BY <5>3, <6>3 DEF ToBeCleared
        <5> QED
          BY <5>4, <5>5, <5>6
      <4> QED
        BY <4>4, <4>5
    <3>6. CASE <<users, access>>' # <<users, access>> /\ DeleteUser(a)
      <4>1. users' = [users EXCEPT ![t] = Deleted] /\ access' = access
        BY <3>6 DEF DeleteUser
      <4>2. CASE u # t
        <5>1. users'[u] = users[u]
          BY <3>0, <4>1, <4>2
        <5> QED
          BY <2>1, <2>2, <2>3, <3>1, <4>1, <5>1
      <4>3. CASE u = t
        <5>1. users'[u].role = "deleted"
          BY <3>0, <4>1, <4>3 DEF Deleted
        <5> QED
          BY <5>1 DEF IsAdmin, Unused
      <4> QED
        BY <4>2, <4>3
    <3>7. CASE <<users, access>>' # <<users, access>> /\ SetUserProviderAccess(a)
      <4>1. /\ users' = users /\ h[a].op = "access"
            /\ access' = IF h[a].to = "revoke" THEN access \cup {t} ELSE access \ {t}
        BY <3>7 DEF SetUserProviderAccess
      <4>2. users[t].role = "user"
        BY <3>0, <3>2, <3>7, <4>1 DEF Fits
      <4>3. CASE u = t
        BY <4>1, <4>2, <4>3 DEF IsAdmin, Unused
      <4>4. CASE u # t
        BY <2>1, <2>2, <2>3, <3>1, <4>1, <4>4
      <4> QED
        BY <4>3, <4>4
    <3>8. CreateClientKey(a) \/ SetClientKeyDisabled(a) \/ DeleteClientKey(a)
            => <<users, access>>' = <<users, access>>
      BY DEF CreateClientKey, SetClientKeyDisabled, DeleteClientKey, SetKey
    <3> QED
      BY <2>9, <3>3, <3>4, <3>5, <3>6, <3>7, <3>8 DEF Write
  <2>10. ASSUME NEW v \in Users, Logout(v)
         PROVE  /\ users'[u] # Unused
                /\ IsAdmin(users'[u].role) => ToBeCleared(u, h')
    BY <2>4, <2>10 DEF Logout
  <2>11. ASSUME Restart
         PROVE  /\ users'[u] # Unused
                /\ IsAdmin(users'[u].role) => ToBeCleared(u, h')
    <3>1. \A b \in Handlers : h'[b].pc = "idle" /\ h[b].pc # "clear"
      BY <2>0, <2>2, <2>11 DEF Restart, Stops
    <3> QED
      BY <2>4, <2>11, <3>1 DEF Restart, tables
  <2> QED
    BY <1>1, <2>5, <2>6, <2>7, <2>8, <2>9, <2>10, <2>11, AuditSteps
      DEF Next, Step, Follow, SignIn
<1>2. CASE UNCHANGED auditVars
  BY <1>2 DEF auditVars, vars, tables, PromotionInv
<1> QED
  BY <1>1, <1>2

-----------------------------------------------------------------------------
\* The invariant holds initially.
LEMMA InitGood == AuditInit => AccountsInv
<1> SUFFICES ASSUME AuditInit PROVE AccountsInv
  OBVIOUS
<1>0. users \in [Users -> Row] /\ users = InitialUsers
  BY AccountsAssumption DEF AuditInit, Init, Row
<1>1. GoodTables
  BY <1>0 DEF AuditInit, Init, GoodTables, AdmittedKeys
<1>2. h \in [Handlers -> Request] /\ \A a \in Handlers : h[a] = Idle
  BY IdleGood DEF AuditInit, Init, GoodRequest
<1>3. WellFormed
  BY <1>1, <1>2, IdleGood DEF WellFormed
<1>4. CutOffInv /\ PromotionInv
  <2>0. Idle.pc # "install"
    BY DEF Idle
  <2>1. Holders = {}
    BY <1>2, <2>0 DEF Holders
  <2> QED
    BY <2>1 DEF AuditInit, Init, PromotionInv, CutOffInv, StandingUnderWay, QueriesOrdered,
       CopiesLeaveOut, CopiesCurrent, CutOffStaysOut
<1>5. Remains(users)
  BY <1>0, AccountsAssumption DEF Remains
<1>6. \A a \in Handlers : Fits(h[a], users)
  <2>1. Idle.pc = "idle"
    BY DEF Idle
  <2> QED
    BY <1>2, <2>1 DEF Fits
<1> QED
  BY <1>3, <1>4, <1>5, <1>6 DEF RulesInv, AccountsInv

\* Every step keeps the invariant.
LEMMA StepGood == AccountsInv /\ [AuditNext]_auditVars => AccountsInv'
<1> SUFFICES ASSUME AccountsInv, [AuditNext]_auditVars PROVE AccountsInv'
  OBVIOUS
<1>1. [Next]_vars
  BY AuditSteps DEF auditVars
<1> QED
  BY <1>1, StepWellFormed, StepCutOff, StepRules, StepPromotion DEF AccountsInv

\* The invariant holds in every reachable state.
LEMMA AlwaysGood == AuditSpec => []AccountsInv
  BY InitGood, StepGood, PTL DEF AuditSpec

\* The tables keep their shape whatever handlers do to them: sessions and
\* keys, for one, never outlive their account, the cascade of DeleteUser and
\* the foreign keys see to it.
THEOREM AccountTablesStayWellFormed == AuditSpec => []TypeOK
<1>1. AccountsInv => TypeOK
  BY DEF AccountsInv, WellFormed, GoodTables, GoodRequest, TypeOK, Row
<1> QED
  BY <1>1, AlwaysGood, PTL

\* handlePatchUser, handleDeleteUser: "Cannot demote / disable / delete the
\* last remaining superadmin".  The count taken before the write is enough as
\* long as no other change comes between the two: then an enabled superadmin
\* always remains.
THEOREM ASuperadminRemains == AuditSpec => []SuperadminRemains
<1>1. AccountsInv => SuperadminRemains
  BY DEF AccountsInv, RulesInv, Remains, SuperadminRemains
<1> QED
  BY <1>1, AlwaysGood, PTL

\* clientKeyCache.reload queries the keys and installs its copy after every
\* change, without a lock: the key of an account whose deactivation or deletion
\* was answered is not admitted until the account is enabled again, unless the
\* last copy installed was queried before another that is installed already.
THEOREM CutOffAccountsStayOut == AuditSpec => []CutOffStaysOut
<1>1. AccountsInv => CutOffStaysOut
  BY DEF AccountsInv, CutOffInv
<1> QED
  BY <1>1, AlwaysGood, PTL

\* ClearUserProviderAccess: unless a promotion stopped half way or a change
\* raced, no admin has revocations stored that a demotion would bring back.
THEOREM PromotionsClear == AuditSpec => []PromotionClears
<1>1. AccountsInv => PromotionClears
  BY DEF AccountsInv, PromotionInv, PromotionClears
<1> QED
  BY <1>1, AlwaysGood, PTL

-----------------------------------------------------------------------------
(***************************************************************************)
(* Sums over a table.                                                      *)
(***************************************************************************)
\* A set of naturals that is not empty has a least member.
LEMMA NatHasLeast ==
  ASSUME NEW T, T \subseteq Nat, T # {}
  PROVE  \E n \in T : \A k \in T : n =< k
<1>1. PICK n \in T : \A k \in T : ~(<<k, n>> \in OpToRel(<, Nat))
  BY WFMin, NatLessThanWellFounded
<1>2. ASSUME NEW k \in T PROVE n =< k
  <2>1. ~(k < n)
    BY <1>1 DEF OpToRel
  <2> QED
    BY <2>1
<1> QED
  BY <1>2

\* Finitely many finite parts make a finite whole.
LEMMA FiniteWhole ==
  ASSUME NEW D, IsFiniteSet(D), NEW F, \A d \in D : IsFiniteSet(F[d])
  PROVE  IsFiniteSet(UNION {F[d] : d \in D})
<1> DEFINE Whole(s) == UNION {F[d] : d \in s}
           Bad == {n \in Nat : \E s \in SUBSET D : Cardinality(s) = n /\ ~IsFiniteSet(Whole(s))}
<1>1. ASSUME Bad # {} PROVE FALSE
  <2>1. PICK n \in Bad : \A k \in Bad : n =< k
    BY <1>1, NatHasLeast
  <2>2. PICK s \in SUBSET D : Cardinality(s) = n /\ ~IsFiniteSet(Whole(s))
    BY <2>1
  <2>3. IsFiniteSet(s) /\ Whole({}) = {}
    BY FS_Subset
  <2>4. PICK x \in s : TRUE
    BY <2>2, <2>3, FS_EmptySet
  <2> DEFINE t == s \ {x}
  <2>5. t \in SUBSET D /\ IsFiniteSet(t) /\ Cardinality(t) = n - 1 /\ n - 1 \in Nat
    <3>1. IsFiniteSet(t) /\ Cardinality(t) = n - 1
      BY <2>2, <2>3, FS_RemoveElement
    <3>2. Cardinality(t) \in Nat
      BY <3>1, FS_CardinalityType
    <3> QED
      BY <3>1, <3>2
  <2>6. IsFiniteSet(Whole(t))
    <3>1. n - 1 \notin Bad
      <4>1. n \in Nat
        OBVIOUS
      <4> HIDE DEF Bad
      <4> QED
        BY <2>1, <4>1
    <3>2. \A r \in SUBSET D : Cardinality(r) = n - 1 => IsFiniteSet(Whole(r))
      BY <2>5, <3>1
    <3> QED
      BY Zenon, <2>5, <3>2
  <2>7. Whole(s) = F[x] \cup Whole(t) /\ IsFiniteSet(F[x])
    OBVIOUS
  <2> HIDE DEF Whole, t
  <2>8. IsFiniteSet(Whole(s))
    <3>1. IsFiniteSet(F[x] \cup Whole(t))
      BY <2>6, <2>7, FS_Union
    <3> QED
      BY Zenon, <2>7, <3>1
  <2> QED
    BY <2>2, <2>8
<1>2. Cardinality(D) \in Nat /\ D \in SUBSET D
  BY FS_CardinalityType
<1> QED
  BY <1>1, <1>2

\* The total of a table's numbers.
Total(f) == FoldFunction(LAMBDA a, b : a + b, 0, f)

\* The parts F[d] together.
Together(D, F) == UNION {F[d] : d \in D}

\* A table of the sums over the subsets of f's domain, member after member.
Sums(it, f) ==
  it = [s \in SUBSET (DOMAIN f) |->
          IF s = {} THEN 0 ELSE f[CHOOSE x \in s : TRUE] + it[s \ {CHOOSE x \in s : TRUE}]]

\* The sizes of disjoint parts add up to the size of the whole.
LEMMA SumOfParts ==
  ASSUME NEW D, IsFiniteSet(D), NEW F, NEW f, f = [d \in D |-> Cardinality(F[d])],
         \A d \in D : IsFiniteSet(F[d]),
         \A d, e \in D : d # e => F[d] \cap F[e] = {}
  PROVE  /\ IsFiniteSet(Together(D, F))
         /\ Total(f) = Cardinality(Together(D, F))
<1> DEFINE Whole(s) == UNION {F[d] : d \in s}
           sizes == [s \in SUBSET D |-> Cardinality(Whole(s))]
           Pick(s) == CHOOSE x \in s : TRUE
<1>0. IsFiniteSet(UNION {F[d] : d \in D})
  BY FiniteWhole
<1>1. ASSUME NEW s \in SUBSET D, s # {}
      PROVE  /\ Pick(s) \in s /\ s \ {Pick(s)} \in SUBSET D
             /\ IsFiniteSet(s) /\ IsFiniteSet(s \ {Pick(s)}) /\ Cardinality(s) \in Nat
             /\ Cardinality(s \ {Pick(s)}) = Cardinality(s) - 1
             /\ Cardinality(Whole(s)) = f[Pick(s)] + Cardinality(Whole(s \ {Pick(s)}))
  <2>1. PICK x \in s : x = Pick(s)
    BY <1>1
  <2> HIDE DEF Pick
  <2>2. IsFiniteSet(s) /\ Cardinality(s) \in Nat
    BY FS_Subset, FS_CardinalityType
  <2>3. /\ IsFiniteSet(s \ {x}) /\ Cardinality(s \ {x}) = Cardinality(s) - 1
    BY <2>2, FS_RemoveElement
  <2>4. /\ Whole(s) = F[x] \cup Whole(s \ {x}) /\ F[x] \cap Whole(s \ {x}) = {}
    OBVIOUS
  <2>5. Whole(s) \subseteq Whole(D)
    OBVIOUS
  <2>6. IsFiniteSet(F[x]) /\ IsFiniteSet(Whole(s \ {x}))
    BY <1>0, <2>4, <2>5, FS_Subset
  <2>7. /\ Cardinality(F[x]) \in Nat /\ Cardinality(Whole(s \ {x})) \in Nat
        /\ Cardinality({}) = 0
    BY <2>6, FS_CardinalityType, FS_EmptySet
  <2>8. Cardinality(Whole(s)) =
          Cardinality(F[x]) + Cardinality(Whole(s \ {x})) - Cardinality(F[x] \cap Whole(s \ {x}))
    BY <2>4, <2>6, FS_Union
  <2> HIDE DEF Whole
  <2>9. Cardinality(Whole(s)) = f[x] + Cardinality(Whole(s \ {x}))
    <3>1. f[x] = Cardinality(F[x])
      OBVIOUS
    <3>2. Cardinality(F[x] \cap Whole(s \ {x})) = 0
      BY Zenon, <2>4, <2>7
    <3> QED
      BY <2>7, <2>8, <3>1, <3>2
  <2> QED
    BY <2>1, <2>2, <2>3, <2>9
<1>2. Whole({}) = {} /\ Cardinality({}) = 0
  BY FS_EmptySet
<1> HIDE DEF Whole, Pick
<1>3. Sums(sizes, f)
  <2>1. ASSUME NEW s \in SUBSET D
        PROVE  sizes[s] = IF s = {} THEN 0 ELSE f[Pick(s)] + sizes[s \ {Pick(s)}]
    <3>1. s \ {Pick(s)} \in SUBSET D
      OBVIOUS
    <3> QED
      BY <1>1, <1>2, <3>1
  <2> QED
    BY <2>1 DEF Sums, Pick
<1>4. PICK it : /\ Sums(it, f) /\ Total(f) = it[D]
  <2>1. Total(f) = (CHOOSE it : Sums(it, f))[DOMAIN f]
    BY DEF Total, FoldFunction, FoldFunctionOnSet, MapThenFoldSet, Sums
  <2> QED
    BY <1>3, <2>1
<1>5. ASSUME NEW s \in SUBSET D
      PROVE  it[s] = IF s = {} THEN 0 ELSE f[Pick(s)] + it[s \ {Pick(s)}]
  BY <1>4 DEF Sums, Pick
<1> DEFINE Bad == {n \in Nat : \E s \in SUBSET D : Cardinality(s) = n /\ it[s] # Cardinality(Whole(s))}
<1>6. ASSUME Bad # {} PROVE FALSE
  <2>1. PICK n \in Bad : \A k \in Bad : n =< k
    BY <1>6, NatHasLeast
  <2>2. PICK s \in SUBSET D : Cardinality(s) = n /\ it[s] # Cardinality(Whole(s))
    BY <2>1
  <2>3. s # {}
    BY <1>2, <1>5, <2>2
  <2> DEFINE t == s \ {Pick(s)}
  <2>4. t \in SUBSET D /\ Cardinality(t) = n - 1 /\ n - 1 \in Nat
    <3>1. Cardinality(t) \in Nat
      BY <1>1, <2>3, FS_CardinalityType
    <3> QED
      BY <1>1, <2>2, <2>3, <3>1
  <2>5. n - 1 \notin Bad
    BY <2>1, <2>4
  <2>6. it[t] = Cardinality(Whole(t))
    BY <2>4, <2>5
  <2>7. it[s] = f[Pick(s)] + it[t]
    BY <1>5, <2>3
  <2>8. Cardinality(Whole(s)) = f[Pick(s)] + Cardinality(Whole(t))
    BY <1>1, <2>3
  <2> QED
    BY <2>2, <2>6, <2>7, <2>8
<1>7. Cardinality(D) \in Nat /\ D \in SUBSET D
  BY FS_CardinalityType
<1>8. it[D] = Cardinality(Whole(D))
  BY <1>6, <1>7
<1> QED
  BY <1>0, <1>4, <1>8 DEF Whole, Together
(***************************************************************************)
(* The way to a session: what holds between its steps.                     *)
(***************************************************************************)
FailState == [count : 0 .. MaxFails, since : 0 .. Window + 1, left : 0 .. LockoutFor]
Ages == 0 .. Window - 1
LoginPcs == {"idle", "verify", "bad", "key", "fetch"}
LoginKids == Kids \cup {"none", ""}
Progress == [pc : LoginPcs, pair : Pairs, kid : LoginKids]
Fetch == [by : Logins, age : 0 .. FetchTimeout]

AtWork(p) == {l \in Logins : login[l].pc # "idle" /\ login[l].pair = p}

SignInTyped ==
  /\ fails \in [Pairs -> FailState] /\ recent \in [Pairs -> [Ages -> Nat]]
  /\ published \in (SUBSET Kids) \ {{}}
  /\ cache \in [keys : SUBSET Kids, left : 0 .. MaxTTL] /\ gone \in [Kids -> 0 .. MaxTTL]
  /\ fetched \in 0 .. FetchEvery /\ fetching \in Fetch \cup {NoFetch}
  /\ login \in [Logins -> Progress]
  /\ {l \in Logins : login[l].pc = "fetch"} = IF fetching = NoFetch THEN {} ELSE {fetching.by}

\* What a pair's entry says of its failures within the window: until the
\* lock-out it counts them all; then no more can come than are in progress,
\* and once it is over they are out of the window.
Tallied(st, f, busy) ==
  /\ st.count = 0 => st = NoFails /\ Total(f) = 0
  /\ st.count > 0 => \A d \in Ages : d < st.since => f[d] = 0
  /\ st.count > 0 /\ st.count < MaxFails => Total(f) =< st.count /\ st.left = 0
  /\ st.count = MaxFails =>
       /\ Total(f) + busy =< MaxFails + Cardinality(Logins) - 1
       /\ LockoutFor =< st.left + st.since \/ Window =< st.since

BackoffInv == \A p \in Pairs : Tallied(fails[p], recent[p], Cardinality(AtWork(p)))

\* A cached key was withdrawn no longer ago than the cache's age.
KeysInv ==
  \A k \in Kids :
    /\ k \in published => gone[k] = 0
    /\ k \in cache.keys /\ cache.left > 0 => gone[k] + cache.left =< MaxTTL

SignInInv == SignInTyped /\ BackoffInv /\ KeysInv
-----------------------------------------------------------------------------
\* The constants of signing in are as the code has them.
LEMMA SignInConstants ==
  /\ {MaxFails, Window, LockoutFor, FetchEvery, FetchTimeout} \subseteq Nat \ {0}
  /\ MaxFails \in Nat \ {0} /\ Window \in Nat \ {0} /\ LockoutFor \in Nat \ {0}
  /\ FetchEvery \in Nat \ {0} /\ FetchTimeout \in Nat \ {0} /\ Window =< LockoutFor
  /\ MaxTTL \in Nat \ {0} /\ \A t \in TTLs : t \in Nat /\ t =< MaxTTL
  /\ IsFiniteSet(Logins) /\ Cardinality(Logins) \in Nat /\ GooglePair \in Pairs
<1>1. MaxTTL \in TTLs /\ \A t \in TTLs : t =< MaxTTL
  <2>1. PICK m \in TTLs : m = MaxTTL /\ \A t \in TTLs : t =< m
    BY SignInAssumption DEF MaxTTL
  <2> QED
    BY <2>1
<1>2. IsFiniteSet(Logins) /\ Cardinality(Logins) \in Nat
  BY SignInAssumption, FS_CardinalityType
<1>3. /\ {MaxFails, Window, LockoutFor, FetchEvery, FetchTimeout} \subseteq Nat \ {0}
      /\ TTLs \subseteq Nat \ {0} /\ Window =< LockoutFor /\ GooglePair \in Pairs
  BY SignInAssumption
<1> QED
  BY <1>1, <1>2, <1>3

\* Distances stay within their limits.
LEMMA Distances ==
  ASSUME NEW d \in Nat, NEW m \in Nat
  PROVE  /\ UpTo(m, d) \in Nat /\ UpTo(m, d) \in 0 .. m /\ UpTo(m, d) =< d
         /\ d =< m => UpTo(m, d) = d
         /\ d >= m => UpTo(m, d) = m
         /\ Less(d) \in Nat /\ Less(d) =< d /\ (d > 0 => Less(d) = d - 1) /\ Less(0) = 0
  BY DEF UpTo, Less

\* The failures a table stands for, one by one.
Each(f) == Together(Ages, [d \in Ages |-> {d} \X (1 .. f[d])])

\* A total is the number of them.
LEMMA TotalIs ==
  ASSUME NEW f \in [Ages -> Nat]
  PROVE  IsFiniteSet(Each(f)) /\ Total(f) = Cardinality(Each(f)) /\ Total(f) \in Nat
<1> DEFINE F == [d \in Ages |-> {d} \X (1 .. f[d])]
<1>1. IsFiniteSet(Ages)
  BY SignInConstants, FS_Interval DEF Ages
<1>2. ASSUME NEW d \in Ages
      PROVE  IsFiniteSet(F[d]) /\ Cardinality(F[d]) = f[d]
  <2>1. f[d] \in Nat /\ F[d] = {d} \X (1 .. f[d])
    OBVIOUS
  <2>2. IsFiniteSet(1 .. f[d]) /\ Cardinality(1 .. f[d]) = f[d]
    BY <2>1, FS_Interval
  <2>3. IsFiniteSet({d}) /\ Cardinality({d}) = 1
    BY FS_Singleton
  <2>4. /\ IsFiniteSet({d} \X (1 .. f[d]))
        /\ Cardinality({d} \X (1 .. f[d])) = Cardinality({d}) * Cardinality(1 .. f[d])
    BY <2>2, <2>3, FS_Product
  <2> QED
    BY <2>1, <2>2, <2>3, <2>4
<1>3. ASSUME NEW d \in Ages, NEW e \in Ages, d # e PROVE F[d] \cap F[e] = {}
  <2>1. ASSUME NEW x \in F[d] \cap F[e] PROVE FALSE
    <3>1. x \in {d} \X (1 .. f[d]) /\ x \in {e} \X (1 .. f[e])
      BY <2>1
    <3>2. x[1] = d /\ x[1] = e
      BY <3>1
    <3> QED
      BY <1>3, <3>2
  <2> QED
    BY <2>1
<1>4. Each(f) = Together(Ages, F)
  BY DEF Each, Together
<1> HIDE DEF F
<1>5. f = [d \in Ages |-> Cardinality(F[d])]
  BY <1>2
<1>6. IsFiniteSet(Each(f)) /\ Total(f) = Cardinality(Each(f))
  <2>1. \A d \in Ages : IsFiniteSet(F[d])
    BY <1>2
  <2>2. \A d, e \in Ages : d # e => F[d] \cap F[e] = {}
    BY <1>3
  <2>3. IsFiniteSet(Together(Ages, F)) /\ Total(f) = Cardinality(Together(Ages, F))
    BY <1>1, <1>5, <2>1, <2>2, SumOfParts
  <2> QED
    BY <1>4, <2>3
<1> QED
  BY <1>6, FS_CardinalityType

\* Without failures the total is zero.
LEMMA TotalNone ==
  ASSUME NEW f \in [Ages -> Nat], \A d \in Ages : f[d] = 0
  PROVE  Total(f) = 0
<1>1. Each(f) = {}
  BY DEF Each, Together
<1> QED
  BY <1>1, TotalIs, FS_EmptySet

\* A failure just now adds one.
LEMMA TotalOne ==
  ASSUME NEW f \in [Ages -> Nat]
  PROVE  LET g == [f EXCEPT ![0] = @ + 1] IN g \in [Ages -> Nat] /\ Total(g) = Total(f) + 1
<1> DEFINE g == [f EXCEPT ![0] = @ + 1]
<1>1. 0 \in Ages
  BY SignInConstants DEF Ages
<1>2. g \in [Ages -> Nat] /\ g[0] = f[0] + 1 /\ f[0] \in Nat /\ \A d \in Ages \ {0} : g[d] = f[d]
  BY <1>1
<1> HIDE DEF g
<1>3. Each(g) = Each(f) \cup {<<0, f[0] + 1>>}
  <2>1. 1 .. g[0] = 1 .. f[0] \cup {f[0] + 1}
    BY <1>2
  <2>2. {0} \X (1 .. g[0]) = ({0} \X (1 .. f[0])) \cup {<<0, f[0] + 1>>}
    BY <2>1
  <2> QED
    BY <1>1, <1>2, <2>2 DEF Each, Together
<1>4. <<0, f[0] + 1>> \notin Each(f)
  <2>1. f[0] + 1 \notin 1 .. f[0]
    BY <1>2
  <2> QED
    BY <2>1 DEF Each, Together
<1>5. Cardinality(Each(g)) = Cardinality(Each(f)) + 1
  BY <1>3, <1>4, TotalIs, FS_AddElement
<1> QED
  BY <1>2, <1>5, TotalIs DEF g

\* The failures of a table, one instant older.
Older(f) == [d \in Ages |-> IF d = 0 THEN 0 ELSE f[d - 1]]

\* Time adds no failures.
LEMMA TotalOlder ==
  ASSUME NEW f \in [Ages -> Nat]
  PROVE  Older(f) \in [Ages -> Nat] /\ Total(Older(f)) =< Total(f)
<1> DEFINE g == Older(f)
           back == [e \in Each(g) |-> <<e[1] - 1, e[2]>>]
<1>1. \A d \in Ages : d # 0 => d - 1 \in Ages
  BY SignInConstants DEF Ages
<1>2. g \in [Ages -> Nat] /\ g[0] = 0 /\ \A d \in Ages : d # 0 => g[d] = f[d - 1]
  <2>1. 0 \in Ages
    BY SignInConstants DEF Ages
  <2> QED
    BY <1>1, <2>1 DEF Older
<1> HIDE DEF g
<1>3. ASSUME NEW e \in Each(g)
      PROVE  /\ e = <<e[1], e[2]>> /\ e[1] \in Ages /\ e[1] \in Int
             /\ <<e[1] - 1, e[2]>> \in Each(f)
  <2>1. PICK d \in Ages : e \in {d} \X (1 .. g[d])
    BY DEF Each, Together
  <2>2. d # 0 /\ e = <<d, e[2]>> /\ e[2] \in 1 .. f[d - 1]
    BY <1>2, <2>1
  <2>3. d - 1 \in Ages /\ d \in Int
    BY <1>1, <2>2 DEF Ages
  <2>4. <<d - 1, e[2]>> \in {d - 1} \X (1 .. f[d - 1])
    BY <2>2
  <2> QED
    BY <2>2, <2>3, <2>4 DEF Each, Together
<1>4. back \in Injection(Each(g), Each(f))
  <2>1. back \in [Each(g) -> Each(f)]
    BY <1>3
  <2>2. ASSUME NEW d \in Each(g), NEW e \in Each(g), back[d] = back[e] PROVE d = e
    <3>1. <<d[1] - 1, d[2]>> = <<e[1] - 1, e[2]>>
      BY <2>2
    <3>2. d[1] - 1 = e[1] - 1 /\ d[2] = e[2]
      BY <3>1
    <3>3. d[1] \in Int /\ e[1] \in Int
      BY <1>3
    <3>4. d[1] = e[1]
      BY <3>2, <3>3
    <3> QED
      BY <1>3, <3>2, <3>4
  <2> QED
    BY <2>1, <2>2 DEF Injection, IsInjective
<1>5. Cardinality(Each(g)) =< Cardinality(Each(f))
  BY <1>4, TotalIs, FS_Injection
<1> QED
  BY <1>2, <1>5, TotalIs DEF g

\* Old failures count for nothing: once the last one is a window ago none is left.
LEMMA TalliedOld ==
  ASSUME NEW st \in FailState, NEW f \in [Ages -> Nat], NEW b, Tallied(st, f, b),
         st.count > 0, Window =< st.since
  PROVE  Total(f) = 0
<1>1. Window \in Nat /\ st.since \in Nat
  BY SignInConstants DEF FailState
<1>2. \A d \in Ages : d \in Nat /\ d < st.since
  BY <1>1 DEF Ages
<1>3. \A d \in Ages : f[d] = 0
  BY <1>2 DEF Tallied
<1> QED
  BY <1>3, TotalNone

\* The entry of a pair without failures.
LEMMA TalliedReset ==
  ASSUME NEW b
  PROVE  NoFails \in FailState /\ NoneRecent \in [Ages -> Nat] /\ Tallied(NoFails, NoneRecent, b)
<1>1. NoFails \in FailState /\ NoFails.count = 0
  BY SignInConstants DEF NoFails, FailState
<1>2. NoneRecent \in [Ages -> Nat] /\ Total(NoneRecent) = 0
  <2>1. NoneRecent \in [Ages -> Nat] /\ \A d \in Ages : NoneRecent[d] = 0
    BY DEF NoneRecent, Ages
  <2> QED
    BY <2>1, TotalNone
<1> QED
  BY <1>1, <1>2, SignInConstants DEF Tallied

\* An attempt less in progress disturbs nothing.
LEMMA TalliedLess ==
  ASSUME NEW st \in FailState, NEW f \in [Ages -> Nat], NEW b \in Nat, NEW c \in Nat, c =< b,
         Tallied(st, f, b)
  PROVE  Tallied(st, f, c)
<1>1. Total(f) \in Nat /\ Cardinality(Logins) \in Nat /\ MaxFails \in Nat
  BY SignInConstants, TotalIs
<1> HIDE DEF Total
<1> QED
  BY <1>1 DEF Tallied

\* Allowing one more attempt: the pair is not locked out.
LEMMA TalliedAllowed ==
  ASSUME NEW st \in FailState, NEW f \in [Ages -> Nat], NEW b \in Nat, b < Cardinality(Logins),
         Tallied(st, f, b), Allowed(st)
  PROVE  Forgotten(st) \in FailState /\ Tallied(Forgotten(st), f, b + 1)
<1>1. /\ Total(f) \in Nat /\ Cardinality(Logins) \in Nat /\ MaxFails \in Nat \ {0}
      /\ Window \in Nat /\ LockoutFor \in Nat /\ Window =< LockoutFor
      /\ st.count \in Nat /\ st.since \in Nat /\ st.left \in Nat
  BY SignInConstants, TotalIs DEF FailState
<1>2. CASE Expired(st)
  <2>1. st.since > 0 /\ Window =< st.since /\ Forgotten(st) = NoFails
    BY <1>1, <1>2 DEF Expired, Forgotten
  <2>2. st.count > 0
    BY <1>1, <2>1 DEF Tallied, NoFails
  <2>3. Total(f) = 0
    BY <2>1, <2>2, TalliedOld
  <2>4. NoFails \in FailState /\ NoFails.count = 0
    BY TalliedReset DEF NoFails
  <2> QED
    BY <1>1, <2>1, <2>3, <2>4 DEF Tallied
<1>3. CASE ~Expired(st)
  <2>1. Forgotten(st) = st
    BY <1>3 DEF Forgotten
  <2>2. ASSUME st.count = MaxFails PROVE Total(f) = 0
    <3>1. LockoutFor =< st.left + st.since \/ Window =< st.since
      BY <2>2 DEF Tallied
    <3>2. Window =< st.since /\ st.count > 0
      BY <1>1, <2>2, <3>1 DEF Allowed
    <3> QED
      BY <3>2, TalliedOld
  <2>3. Tallied(st, f, b + 1)
    BY <1>1, <2>2 DEF Tallied
  <2> QED
    BY <2>1, <2>3
<1> QED
  BY <1>2, <1>3

\* A failure of an attempt in progress.
LEMMA TalliedRefused ==
  ASSUME NEW st \in FailState, NEW f \in [Ages -> Nat], NEW b \in Nat \ {0},
         b =< Cardinality(Logins), Tallied(st, f, b)
  PROVE  LET g == [f EXCEPT ![0] = @ + 1] IN
         Failed(st) \in FailState /\ g \in [Ages -> Nat] /\ Tallied(Failed(st), g, b - 1)
<1> DEFINE g == [f EXCEPT ![0] = @ + 1]
           old == Forgotten(st)
           n == UpTo(MaxFails, old.count + 1)
           new == Failed(st)
<1>1. /\ Total(f) \in Nat /\ Cardinality(Logins) \in Nat /\ MaxFails \in Nat \ {0}
      /\ Window \in Nat /\ LockoutFor \in Nat \ {0} /\ b - 1 \in Nat
      /\ st.count \in Nat /\ st.since \in Nat /\ st.left \in Nat /\ st.count =< MaxFails
  BY SignInConstants, TotalIs DEF FailState
<1>2. g \in [Ages -> Nat] /\ Total(g) = Total(f) + 1
  BY TotalOne
<1> HIDE DEF g
<1>3. /\ old \in FailState
      /\ old.count = 0 => Total(f) = 0 /\ old.left = 0
      /\ old.count > 0 => old = st
  <2>1. CASE Expired(st)
    <3>1. st.since > 0 /\ Window =< st.since /\ old = NoFails
      BY <1>1, <2>1 DEF Expired, Forgotten
    <3>2. st.count > 0
      BY <1>1, <3>1 DEF Tallied, NoFails
    <3>3. Total(f) = 0
      BY <3>1, <3>2, TalliedOld
    <3>4. NoFails \in FailState /\ NoFails.count = 0 /\ NoFails.left = 0
      BY TalliedReset DEF NoFails
    <3> QED
      BY <3>1, <3>3, <3>4
  <2>2. CASE ~Expired(st)
    <3>1. old = st
      BY <2>2 DEF Forgotten
    <3> QED
      BY <3>1 DEF Tallied, NoFails
  <2> QED
    BY <2>1, <2>2
<1>4. old.count \in 0 .. MaxFails /\ old.left \in 0 .. LockoutFor
  BY <1>3 DEF FailState
<1>5. n \in 1 .. MaxFails /\ (old.count < MaxFails => n = old.count + 1)
  BY <1>1, <1>4 DEF UpTo
<1>6. new = [count |-> n, since |-> 0, left |-> IF n = MaxFails THEN LockoutFor ELSE old.left]
  BY DEF Failed
<1> HIDE DEF old, n, new
<1>7. /\ new.count = n /\ new.since = 0
      /\ n = MaxFails => new.left = LockoutFor
      /\ n < MaxFails => new.left = old.left
  BY <1>1, <1>5, <1>6
<1>8. new \in FailState
  BY <1>1, <1>4, <1>5, <1>6 DEF FailState
<1>9. \A d \in Ages : ~(d < new.since)
  BY <1>7 DEF Ages
<1>10. n < MaxFails => Total(g) =< n /\ new.left = 0
  <2>1. ASSUME n < MaxFails PROVE old.count < MaxFails /\ n = old.count + 1 /\ new.left = old.left
    BY <1>1, <1>4, <1>5, <1>7, <2>1 DEF n, UpTo
  <2>2. ASSUME n < MaxFails, old.count > 0 PROVE Total(f) =< old.count /\ old.left = 0
    BY <1>3, <2>1, <2>2 DEF Tallied
  <2> QED
    BY <1>1, <1>2, <1>3, <1>4, <2>1, <2>2
<1>11. n = MaxFails => Total(g) + (b - 1) =< MaxFails + Cardinality(Logins) - 1
  <2>1. CASE old.count = 0
    BY <1>1, <1>2, <1>3, <2>1
  <2>2. CASE old.count > 0 /\ old.count < MaxFails
    <3>1. Total(f) =< old.count
      BY <1>3, <2>2 DEF Tallied
    <3> QED
      BY <1>1, <1>2, <1>4, <2>2, <3>1
  <2>3. CASE old.count = MaxFails
    <3>1. Total(f) + b =< MaxFails + Cardinality(Logins) - 1
      BY <1>1, <1>3, <2>3 DEF Tallied
    <3> QED
      BY <1>1, <1>2, <3>1
  <2> QED
    BY <1>1, <1>4, <2>1, <2>2, <2>3
<1>12. Tallied(new, g, b - 1)
  BY <1>1, <1>5, <1>7, <1>9, <1>10, <1>11 DEF Tallied
<1> QED
  BY <1>2, <1>8, <1>12 DEF new, g

\* Time passes for a pair.
Later(st) ==
  IF st.count = 0 THEN NoFails
  ELSE [st EXCEPT !.since = UpTo(Window + 1, @ + 1), !.left = Less(@)]

LEMMA TalliedLater ==
  ASSUME NEW st \in FailState, NEW f \in [Ages -> Nat], NEW b \in Nat, Tallied(st, f, b)
  PROVE  Later(st) \in FailState /\ Tallied(Later(st), Older(f), b)
<1>1. /\ Total(f) \in Nat /\ Cardinality(Logins) \in Nat /\ MaxFails \in Nat \ {0}
      /\ Window \in Nat /\ LockoutFor \in Nat \ {0}
      /\ st.count \in 0 .. MaxFails /\ st.since \in 0 .. Window + 1 /\ st.left \in 0 .. LockoutFor
  BY SignInConstants, TotalIs DEF FailState
<1>2. Older(f) \in [Ages -> Nat] /\ Total(Older(f)) =< Total(f) /\ Total(Older(f)) \in Nat
  BY TotalOlder, TotalIs
<1>3. CASE st.count = 0
  <2>1. Later(st) = NoFails /\ Total(f) = 0 /\ NoFails \in FailState /\ NoFails.count = 0
    BY <1>3, TalliedReset DEF Later, Tallied, NoFails
  <2> QED
    BY <1>1, <1>2, <2>1 DEF Tallied
<1>4. CASE st.count > 0
  <2> DEFINE s == UpTo(Window + 1, st.since + 1)
             r == Less(st.left)
             new == Later(st)
  <2>1. new = [count |-> st.count, since |-> s, left |-> r]
    <3>1. st.count # 0
      BY <1>1, <1>4
    <3>2. new = [st EXCEPT !.since = s, !.left = r]
      BY <3>1 DEF Later
    <3>3. st = [count |-> st.count, since |-> st.since, left |-> st.left]
      BY DEF FailState
    <3> QED
      BY <3>2, <3>3
  <2>2. /\ s \in 0 .. Window + 1 /\ s =< st.since + 1 /\ s > 0
        /\ st.since < Window + 1 => s = st.since + 1
        /\ st.since = Window + 1 => s = Window + 1
    BY <1>1 DEF UpTo
  <2>3. /\ r \in 0 .. LockoutFor /\ r + 1 >= st.left
        /\ st.left = 0 => r = 0
    BY <1>1 DEF Less
  <2> HIDE DEF s, r, new
  <2>4. new.count = st.count /\ new.since = s /\ new.left = r
    BY <2>1
  <2>5. new \in FailState
    BY <1>1, <2>1, <2>2, <2>3 DEF FailState
  <2>6. ASSUME NEW d \in Ages, d < s PROVE Older(f)[d] = 0
    <3>1. CASE d = 0
      BY <3>1 DEF Older
    <3>2. CASE d # 0
      <4>1. d - 1 \in Ages /\ d - 1 < st.since
        BY <1>1, <2>2, <2>6, <3>2 DEF Ages
      <4>2. f[d - 1] = 0
        BY <1>4, <4>1 DEF Tallied
      <4> QED
        BY <3>2, <4>2 DEF Older
    <3> QED
      BY <3>1, <3>2
  <2>7. st.count < MaxFails => Total(Older(f)) =< st.count /\ r = 0
    BY <1>1, <1>2, <1>4, <2>3 DEF Tallied
  <2>8. ASSUME st.count = MaxFails
        PROVE  Total(Older(f)) + b =< MaxFails + Cardinality(Logins) - 1
    <3>1. Total(f) + b =< MaxFails + Cardinality(Logins) - 1
      BY <2>8 DEF Tallied
    <3> QED
      BY <1>1, <1>2, <3>1
  <2>9. ASSUME st.count = MaxFails
        PROVE  LockoutFor =< r + s \/ Window =< s
    <3>1. LockoutFor =< st.left + st.since \/ Window =< st.since
      BY <2>9 DEF Tallied
    <3> QED
      BY <1>1, <2>2, <2>3, <3>1
  <2>10. Tallied(new, Older(f), b)
    BY <1>1, <1>4, <2>4, <2>6, <2>7, <2>8, <2>9 DEF Tallied
  <2> QED
    BY <2>5, <2>10 DEF new
<1> QED
  BY <1>1, <1>3, <1>4

\* A set of sign-ins is finite; one that leaves a member out is smaller than
\* the set of all of them.
LEMMA SomeLogins ==
  ASSUME NEW w, w \subseteq Logins, NEW l \in Logins
  PROVE  /\ Cardinality(w) \in Nat /\ Cardinality(w) =< Cardinality(Logins)
         /\ l \notin w => Cardinality(w \cup {l}) = Cardinality(w) + 1
         /\ l \notin w => Cardinality(w) < Cardinality(Logins)
         /\ l \in w => Cardinality(w \ {l}) = Cardinality(w) - 1 /\ Cardinality(w) > 0
<1>1. IsFiniteSet(w) /\ Cardinality(w) \in Nat /\ Cardinality(w) =< Cardinality(Logins)
  BY SignInConstants, FS_Subset, FS_CardinalityType
<1>2. l \notin w => Cardinality(w \cup {l}) = Cardinality(w) + 1
  BY <1>1, FS_AddElement
<1>3. ASSUME l \notin w PROVE Cardinality(w) < Cardinality(Logins)
  <2>1. w \cup {l} \subseteq Logins /\ Cardinality(w \cup {l}) =< Cardinality(Logins)
    BY SignInConstants, FS_Subset
  <2> QED
    BY <1>1, <1>2, <1>3, <2>1, SignInConstants
<1>4. ASSUME l \in w PROVE Cardinality(w \ {l}) = Cardinality(w) - 1 /\ Cardinality(w) > 0
  <2>1. IsFiniteSet(w \ {l}) /\ Cardinality(w \ {l}) = Cardinality(w) - 1
    BY <1>1, <1>4, FS_RemoveElement
  <2>2. Cardinality(w \ {l}) \in Nat
    BY <2>1, FS_CardinalityType
  <2> QED
    BY <1>1, <2>1, <2>2
<1> QED
  BY <1>1, <1>2, <1>3, <1>4

\* A sign-in moves, and the others stay where they are.
LEMMA OneLoginMoves ==
  ASSUME NEW l \in Logins, NEW q \in Progress, login \in [Logins -> Progress], LoginMoves(l, q)
  PROVE  /\ login' \in [Logins -> Progress] /\ login'[l] = q
         /\ \A m \in Logins \ {l} : login'[m] = login[m]
  BY DEF LoginMoves

\* A sign-in starts.
LEMMA OneStarts ==
  ASSUME NEW l \in Logins, NEW q \in Progress, login \in [Logins -> Progress], LoginMoves(l, q),
         login[l].pc = "idle", q.pc # "idle"
  PROVE  /\ Cardinality(AtWork(q.pair)) \in Nat
         /\ Cardinality(AtWork(q.pair)) < Cardinality(Logins)
         /\ Cardinality(AtWork(q.pair)') = Cardinality(AtWork(q.pair)) + 1
         /\ \A r \in Pairs \ {q.pair} : AtWork(r)' = AtWork(r)
<1>1. /\ login' \in [Logins -> Progress] /\ login'[l] = q
      /\ \A m \in Logins \ {l} : login'[m] = login[m]
  BY OneLoginMoves
<1>2. /\ AtWork(q.pair) \subseteq Logins /\ l \notin AtWork(q.pair)
      /\ AtWork(q.pair)' = AtWork(q.pair) \cup {l}
  BY <1>1 DEF AtWork
<1>3. \A r \in Pairs \ {q.pair} : AtWork(r)' = AtWork(r)
  BY <1>1 DEF AtWork
<1> QED
  BY <1>2, <1>3, SomeLogins

\* A sign-in ends.
LEMMA OneEnds ==
  ASSUME NEW l \in Logins, login \in [Logins -> Progress], LoginMoves(l, IdleLogin),
         login[l].pc # "idle", NEW p \in Pairs, p = login[l].pair
  PROVE  /\ Cardinality(AtWork(p)) \in Nat \ {0}
         /\ Cardinality(AtWork(p)) =< Cardinality(Logins)
         /\ Cardinality(AtWork(p)') = Cardinality(AtWork(p)) - 1
         /\ \A r \in Pairs \ {p} : AtWork(r)' = AtWork(r)
<1>1. IdleLogin \in Progress /\ IdleLogin.pc = "idle"
  BY SignInConstants DEF IdleLogin, Progress, LoginPcs, LoginKids
<1>2. /\ login' \in [Logins -> Progress] /\ login'[l] = IdleLogin
      /\ \A m \in Logins \ {l} : login'[m] = login[m]
  BY <1>1, OneLoginMoves
<1>3. AtWork(p) \subseteq Logins /\ l \in AtWork(p) /\ AtWork(p)' = AtWork(p) \ {l}
  BY <1>1, <1>2 DEF AtWork
<1>4. \A r \in Pairs \ {p} : AtWork(r)' = AtWork(r)
  BY <1>1, <1>2 DEF AtWork
<1>5. /\ Cardinality(AtWork(p)) \in Nat \ {0} /\ Cardinality(AtWork(p)) =< Cardinality(Logins)
      /\ Cardinality(AtWork(p) \ {l}) = Cardinality(AtWork(p)) - 1
  <2>1. PICK w : w = AtWork(p)
    OBVIOUS
  <2>2. w \subseteq Logins /\ l \in w
    BY <1>3, <2>1
  <2>3. Cardinality(w) \in Nat /\ Cardinality(w) =< Cardinality(Logins) /\ Cardinality(w) > 0
    BY <2>2, SomeLogins
  <2>4. Cardinality(w \ {l}) = Cardinality(w) - 1
    BY <2>2, SomeLogins
  <2> QED
    BY <2>1, <2>3, <2>4
<1> QED
  BY <1>3, <1>4, <1>5

\* A sign-in goes on.
LEMMA OneGoesOn ==
  ASSUME NEW l \in Logins, NEW q \in Progress, login \in [Logins -> Progress], LoginMoves(l, q),
         login[l].pc # "idle", q.pc # "idle", q.pair = login[l].pair
  PROVE  \A p \in Pairs : AtWork(p)' = AtWork(p)
<1>1. /\ login' \in [Logins -> Progress] /\ login'[l] = q
      /\ \A m \in Logins \ {l} : login'[m] = login[m]
  BY OneLoginMoves
<1> QED
  BY <1>1 DEF AtWork

\* The sign-ins that wait for Google's keys.
Fetchers == {l \in Logins : login[l].pc = "fetch"}

\* One of them holds the verifier's lock, and there is no other.
LEMMA OneFetches ==
  ASSUME SignInTyped, NEW l \in Logins
  PROVE  /\ fetching # NoFetch => fetching \in Fetch
         /\ login[l].pc = "fetch" => /\ fetching \in Fetch /\ fetching.by = l
                                     /\ fetching.age \in 0 .. FetchTimeout /\ Fetchers = {l}
<1>1. fetching # NoFetch => fetching \in Fetch
  BY DEF SignInTyped
<1>2. ASSUME login[l].pc = "fetch" PROVE fetching # NoFetch /\ Fetchers = {fetching.by} /\ fetching.by = l
  BY <1>2 DEF SignInTyped, Fetchers
<1> QED
  BY <1>1, <1>2 DEF Fetch

\* Who fetches is not disturbed by the moves of the others.
LEMMA FetchersStay ==
  ASSUME NEW l \in Logins, NEW q \in Progress, login \in [Logins -> Progress], LoginMoves(l, q),
         login[l].pc # "fetch", q.pc # "fetch"
  PROVE  Fetchers' = Fetchers
<1>1. /\ login' \in [Logins -> Progress] /\ login'[l] = q
      /\ \A m \in Logins \ {l} : login'[m] = login[m]
  BY OneLoginMoves
<1> QED
  BY <1>1 DEF Fetchers

\* Time passes.
LEMMA TickGood ==
  ASSUME SignInInv, AuditTick
  PROVE  SignInInv'
<1>1. /\ SignInTyped /\ BackoffInv /\ KeysInv
      /\ fetching # NoFetch => fetching.age < FetchTimeout
      /\ fails' = [p \in Pairs |-> Later(fails[p])]
      /\ recent' = [p \in Pairs |-> Older(recent[p])]
      /\ cache' = [cache EXCEPT !.left = Less(@)] /\ fetched' = UpTo(FetchEvery, fetched + 1)
      /\ fetching' = IF fetching = NoFetch THEN NoFetch ELSE [fetching EXCEPT !.age = @ + 1]
      /\ gone' = [k \in Kids |-> IF k \in published THEN 0 ELSE UpTo(MaxTTL, gone[k] + 1)]
      /\ published' = published /\ login' = login
  BY DEF SignInInv, AuditTick, Tick, Later, Older, Ages
<1>2. \A p \in Pairs :
        /\ Later(fails[p]) \in FailState /\ Older(recent[p]) \in [Ages -> Nat]
        /\ Tallied(Later(fails[p]), Older(recent[p]), Cardinality(AtWork(p)))
  <2> SUFFICES ASSUME NEW p \in Pairs
               PROVE  /\ Later(fails[p]) \in FailState /\ Older(recent[p]) \in [Ages -> Nat]
                      /\ Tallied(Later(fails[p]), Older(recent[p]), Cardinality(AtWork(p)))
    OBVIOUS
  <2>1. fails[p] \in FailState /\ recent[p] \in [Ages -> Nat]
    BY <1>1 DEF SignInTyped
  <2>2. AtWork(p) \subseteq Logins /\ IsFiniteSet(Logins)
    BY SignInConstants DEF AtWork
  <2>3. Cardinality(AtWork(p)) \in Nat
    BY <2>2, FS_Subset, FS_CardinalityType
  <2>4. Tallied(fails[p], recent[p], Cardinality(AtWork(p)))
    BY <1>1 DEF BackoffInv
  <2> QED
    BY <2>1, <2>3, <2>4, TalliedLater, TotalOlder
<1>3. BackoffInv'
  <2>1. \A p \in Pairs : AtWork(p)' = AtWork(p)
    BY <1>1 DEF AtWork
  <2> QED
    BY <1>1, <1>2, <2>1 DEF BackoffInv
<1>4. cache' \in [keys : SUBSET Kids, left : 0 .. MaxTTL] /\ cache'.keys = cache.keys
      /\ cache'.left = Less(cache.left) /\ cache.left \in 0 .. MaxTTL
  <2>1. cache \in [keys : SUBSET Kids, left : 0 .. MaxTTL]
    BY <1>1 DEF SignInTyped
  <2>2. cache.left \in 0 .. MaxTTL /\ Less(cache.left) \in 0 .. MaxTTL
    BY <2>1, SignInConstants DEF Less
  <2> QED
    BY <1>1, <2>1, <2>2
<1>5. gone \in [Kids -> 0 .. MaxTTL] /\ gone' \in [Kids -> 0 .. MaxTTL]
      /\ \A k \in Kids : gone'[k] = IF k \in published THEN 0 ELSE UpTo(MaxTTL, gone[k] + 1)
  <2>1. gone \in [Kids -> 0 .. MaxTTL]
    BY <1>1 DEF SignInTyped
  <2>2. \A k \in Kids : UpTo(MaxTTL, gone[k] + 1) \in 0 .. MaxTTL
    BY <2>1, SignInConstants DEF UpTo
  <2>3. 0 \in 0 .. MaxTTL
    BY SignInConstants
  <2> QED
    BY <1>1, <2>1, <2>2, <2>3
<1>6. KeysInv'
  <2>1. ASSUME NEW k \in Kids, k \in cache.keys, Less(cache.left) > 0
        PROVE  gone'[k] + Less(cache.left) =< MaxTTL
    <3>1. cache.left > 0 /\ Less(cache.left) = cache.left - 1 /\ cache.left \in Nat
      BY <1>4, <2>1, SignInConstants DEF Less
    <3>2. gone[k] + cache.left =< MaxTTL /\ gone[k] \in Nat
      BY <1>1, <1>5, <2>1, <3>1 DEF KeysInv
    <3>3. gone'[k] \in Nat /\ gone'[k] =< gone[k] + 1
      BY <1>5, <3>2, SignInConstants DEF UpTo
    <3> QED
      BY <3>1, <3>2, <3>3, SignInConstants
  <2> QED
    BY <1>1, <1>4, <1>5, <2>1 DEF KeysInv
<1>7. fetched' \in 0 .. FetchEvery
  <2>1. fetched \in 0 .. FetchEvery
    BY <1>1 DEF SignInTyped
  <2> QED
    BY <1>1, <2>1, SignInConstants DEF UpTo
<1>8. /\ fetching' \in Fetch \cup {NoFetch}
      /\ fetching' = NoFetch <=> fetching = NoFetch
      /\ fetching # NoFetch => fetching'.by = fetching.by
  <2>1. CASE fetching = NoFetch
    BY <1>1, <2>1
  <2>2. CASE fetching # NoFetch
    <3>1. fetching \in Fetch /\ fetching.age < FetchTimeout
      BY <1>1, <2>2 DEF SignInTyped
    <3>2. fetching' = [by |-> fetching.by, age |-> fetching.age + 1]
      BY <1>1, <2>2, <3>1 DEF Fetch
    <3>3. fetching' \in Fetch
      BY <3>1, <3>2, SignInConstants DEF Fetch
    <3>4. NoFetch \notin Fetch
      BY SignInAssumption DEF NoFetch, Fetch
    <3> QED
      BY <2>2, <3>2, <3>3, <3>4
  <2> QED
    BY <2>1, <2>2
<1>9. SignInTyped'
  <2>1. fails' \in [Pairs -> FailState] /\ recent' \in [Pairs -> [Ages -> Nat]]
    BY <1>1, <1>2
  <2>2. /\ published' \in (SUBSET Kids) \ {{}} /\ login' \in [Logins -> Progress]
    BY <1>1 DEF SignInTyped
  <2>3. {l \in Logins : login'[l].pc = "fetch"} = IF fetching' = NoFetch THEN {} ELSE {fetching'.by}
    BY <1>1, <1>8 DEF SignInTyped
  <2> QED
    BY <1>4, <1>5, <1>7, <1>8, <2>1, <2>2, <2>3 DEF SignInTyped
<1> QED
  BY <1>3, <1>6, <1>9 DEF SignInInv

\* Google's keys change.
LEMMA KeysGood ==
  ASSUME SignInInv, AuditKeys
  PROVE  SignInInv'
<1>1. /\ SignInTyped /\ BackoffInv /\ KeysInv
      /\ fails' = fails /\ cache' = cache /\ fetched' = fetched /\ fetching' = fetching
      /\ login' = login /\ recent' = recent
      /\ gone' = [k \in Kids |-> IF k \in published' THEN 0 ELSE gone[k]]
  BY DEF SignInInv, AuditKeys, KeysChange, Rotate, Withdraw, google
<1>2. published \subseteq Kids /\ published # {}
  <2>1. published \in (SUBSET Kids) \ {{}}
    BY <1>1 DEF SignInTyped
  <2> QED
    BY <2>1
<1>3. published' \subseteq Kids /\ published' # {}
  <2>1. PICK k \in Kids : Rotate(k) \/ Withdraw(k)
    BY DEF AuditKeys, KeysChange
  <2>2. CASE Rotate(k)
    BY <1>2, <2>2 DEF Rotate
  <2>3. CASE Withdraw(k)
    <3>1. published # {k}
      <4>1. Cardinality({k}) = 1
        BY FS_Singleton
      <4> QED
        BY <2>3, <4>1 DEF Withdraw
    <3> QED
      BY <1>2, <2>3, <3>1 DEF Withdraw
  <2> QED
    BY <2>1, <2>2, <2>3
<1>4. gone \in [Kids -> 0 .. MaxTTL] /\ 0 \in 0 .. MaxTTL
  BY <1>1, SignInConstants DEF SignInTyped
<1>5. gone' \in [Kids -> 0 .. MaxTTL]
  BY <1>1, <1>4
<1>6. KeysInv'
  <2>1. ASSUME NEW k \in Kids, k \in cache.keys, cache.left > 0
        PROVE  gone'[k] + cache.left =< MaxTTL
    <3>1. gone[k] + cache.left =< MaxTTL /\ gone[k] \in Nat /\ cache.left \in Nat
      BY <1>1, <1>4, <2>1 DEF KeysInv, SignInTyped
    <3> QED
      BY <1>1, <3>1, SignInConstants
  <2> QED
    BY <1>1, <2>1 DEF KeysInv
<1>7. BackoffInv'
  <2>1. \A p \in Pairs : AtWork(p)' = AtWork(p)
    BY <1>1 DEF AtWork
  <2> QED
    BY <1>1, <2>1 DEF BackoffInv
<1>8. SignInTyped'
  <2>1. published' \in (SUBSET Kids) \ {{}}
    BY <1>3
  <2> QED
    BY <1>1, <1>5, <2>1 DEF SignInTyped
<1> QED
  BY <1>6, <1>7, <1>8 DEF SignInInv

\* What the sign-ins leave alone, and what it takes to keep the invariant.
LEMMA LoginKeeps ==
  ASSUME SignInInv, NEW l \in Logins, AuditLogin(l), login' \in [Logins -> Progress],
         Fetchers' = IF fetching' = NoFetch THEN {} ELSE {fetching'.by},
         fetching' \in Fetch \cup {NoFetch}, fetched' \in 0 .. FetchEvery,
         cache' \in [keys : SUBSET Kids, left : 0 .. MaxTTL], KeysInv',
         fails' \in [Pairs -> FailState], recent' \in [Pairs -> [Ages -> Nat]], BackoffInv'
  PROVE  SignInInv'
<1>1. SignInTyped /\ published' = published /\ gone' = gone
  BY DEF SignInInv, AuditLogin, Refuse, Accept, SignInStep, Attempt, Abandon, Key, Fetched, FetchFails
<1>2. published' \in (SUBSET Kids) \ {{}} /\ gone' \in [Kids -> 0 .. MaxTTL]
  BY <1>1 DEF SignInTyped
<1>3. SignInTyped'
  BY <1>2 DEF SignInTyped, Fetchers
<1> QED
  BY <1>3 DEF SignInInv

\* A step that leaves Google's keys alone leaves their invariants alone.
LEMMA GoogleKeeps ==
  ASSUME SignInInv, NEW l \in Logins, AuditLogin(l), UNCHANGED google,
         login[l].pc # "fetch", NEW q \in Progress, LoginMoves(l, q), q.pc # "fetch",
         fails' \in [Pairs -> FailState], recent' \in [Pairs -> [Ages -> Nat]], BackoffInv'
  PROVE  SignInInv'
<1>1. /\ SignInTyped /\ KeysInv /\ published' = published /\ gone' = gone
      /\ cache' = cache /\ fetched' = fetched /\ fetching' = fetching
  BY DEF SignInInv, AuditLogin, Refuse, Accept, SignInStep, Attempt, Abandon, Key, Fetched, FetchFails, google
<1>2. login \in [Logins -> Progress]
  BY <1>1 DEF SignInTyped
<1>3. login' \in [Logins -> Progress] /\ Fetchers' = Fetchers
  BY <1>2, OneLoginMoves, FetchersStay
<1>4. Fetchers' = IF fetching' = NoFetch THEN {} ELSE {fetching'.by}
  BY <1>1, <1>3 DEF SignInTyped, Fetchers
<1>5. /\ fetching' \in Fetch \cup {NoFetch} /\ fetched' \in 0 .. FetchEvery
      /\ cache' \in [keys : SUBSET Kids, left : 0 .. MaxTTL]
  BY <1>1 DEF SignInTyped
<1>6. KeysInv'
  BY <1>1 DEF KeysInv
<1> QED
  BY <1>3, <1>4, <1>5, <1>6, LoginKeeps

\* The back-off when a sign-in starts.
LEMMA AttemptGood ==
  ASSUME SignInInv, NEW l \in Logins, NEW p \in Pairs, NEW kid \in LoginKids,
         Attempt(l, p, kid), UNCHANGED <<recent, gone>>, AuditLogin(l)
  PROVE  SignInInv'
<1> DEFINE q == [pc |-> Opens(p, kid), pair |-> p, kid |-> kid]
<1>1. /\ login[l].pc = "idle" /\ Allowed(fails[p]) /\ LoginMoves(l, q)
      /\ fails' = [fails EXCEPT ![p] = Forgotten(@)] /\ recent' = recent /\ UNCHANGED google
  BY DEF Attempt
<1>2. q \in Progress /\ q.pc \in {"verify", "bad", "key"} /\ q.pair = p
  BY DEF Opens, Progress, LoginPcs
<1> HIDE DEF q
<1>3. /\ login \in [Logins -> Progress] /\ fails \in [Pairs -> FailState]
      /\ recent \in [Pairs -> [Ages -> Nat]] /\ BackoffInv
  BY DEF SignInInv, SignInTyped
<1>4. /\ Cardinality(AtWork(p)) \in Nat /\ Cardinality(AtWork(p)) < Cardinality(Logins)
      /\ Cardinality(AtWork(p)') = Cardinality(AtWork(p)) + 1
      /\ \A r \in Pairs \ {p} : AtWork(r)' = AtWork(r)
  BY <1>1, <1>2, <1>3, OneStarts
<1>5. /\ Forgotten(fails[p]) \in FailState
      /\ Tallied(Forgotten(fails[p]), recent[p], Cardinality(AtWork(p)) + 1)
  BY <1>1, <1>3, <1>4, TalliedAllowed DEF BackoffInv
<1>6. fails' \in [Pairs -> FailState] /\ recent' \in [Pairs -> [Ages -> Nat]]
  BY <1>1, <1>3, <1>5
<1>7. BackoffInv'
  <2>1. /\ fails'[p] = Forgotten(fails[p])
        /\ \A r \in Pairs \ {p} : fails'[r] = fails[r]
    BY <1>1, <1>3
  <2>2. \A r \in Pairs \ {p} : Tallied(fails'[r], recent'[r], Cardinality(AtWork(r)'))
    BY <1>1, <1>3, <1>4, <2>1 DEF BackoffInv
  <2>3. Tallied(fails'[p], recent'[p], Cardinality(AtWork(p)'))
    BY <1>1, <1>4, <1>5, <2>1
  <2> QED
    BY <2>2, <2>3 DEF BackoffInv
<1> QED
  BY <1>1, <1>2, <1>6, <1>7, GoogleKeeps

\* The back-off when a sign-in ends: its pair's entry and failures become st
\* and f, which fit the attempts that are left.
LEMMA EndGood ==
  ASSUME SignInInv, NEW l \in Logins, NEW p \in Pairs, p = login[l].pair,
         login[l].pc # "idle", LoginMoves(l, IdleLogin), NEW st \in FailState,
         NEW f \in [Ages -> Nat], fails' = [fails EXCEPT ![p] = st],
         recent' = [recent EXCEPT ![p] = f], Tallied(st, f, Cardinality(AtWork(p)) - 1)
  PROVE  /\ fails' \in [Pairs -> FailState] /\ recent' \in [Pairs -> [Ages -> Nat]]
         /\ BackoffInv'
<1>1. /\ login \in [Logins -> Progress] /\ fails \in [Pairs -> FailState]
      /\ recent \in [Pairs -> [Ages -> Nat]] /\ BackoffInv
  BY DEF SignInInv, SignInTyped
<1>2. /\ Cardinality(AtWork(p)') = Cardinality(AtWork(p)) - 1
      /\ \A r \in Pairs \ {p} : AtWork(r)' = AtWork(r)
  BY <1>1, OneEnds
<1>3. /\ fails' \in [Pairs -> FailState] /\ recent' \in [Pairs -> [Ages -> Nat]]
      /\ fails'[p] = st /\ recent'[p] = f
      /\ \A r \in Pairs \ {p} : fails'[r] = fails[r] /\ recent'[r] = recent[r]
  BY <1>1
<1>4. \A r \in Pairs \ {p} : Tallied(fails'[r], recent'[r], Cardinality(AtWork(r)'))
  BY <1>1, <1>2, <1>3 DEF BackoffInv
<1>5. Tallied(fails'[p], recent'[p], Cardinality(AtWork(p)'))
  BY <1>2, <1>3
<1> QED
  BY <1>3, <1>4, <1>5 DEF BackoffInv

\* The idle state of a sign-in.
LEMMA IdleIs == IdleLogin \in Progress /\ IdleLogin.pc = "idle"
  BY SignInConstants DEF IdleLogin, Progress, LoginPcs, LoginKids

\* A refused sign-in.
LEMMA RefuseGood ==
  ASSUME SignInInv, NEW l \in Logins, Refuse(l), AuditLogin(l),
         recent' = [recent EXCEPT ![login[l].pair][0] = @ + 1]
  PROVE  SignInInv'
<1>1. /\ login[l].pc \in {"verify", "bad"} /\ LoginMoves(l, IdleLogin) /\ UNCHANGED google
      /\ fails' = [fails EXCEPT ![login[l].pair] = Failed(@)]
  BY DEF Refuse
<1>2. /\ login \in [Logins -> Progress] /\ fails \in [Pairs -> FailState]
      /\ recent \in [Pairs -> [Ages -> Nat]] /\ BackoffInv
  BY DEF SignInInv, SignInTyped
<1>3. PICK p \in Pairs : p = login[l].pair
  BY <1>2 DEF Progress
<1>4. PICK st : st = Failed(fails[p])
  OBVIOUS
<1>5. PICK f : f = [recent[p] EXCEPT ![0] = @ + 1]
  OBVIOUS
<1>6. /\ Cardinality(AtWork(p)) \in Nat \ {0} /\ Cardinality(AtWork(p)) =< Cardinality(Logins)
  BY <1>1, <1>2, <1>3, OneEnds
<1>7. /\ st \in FailState /\ f \in [Ages -> Nat]
      /\ Tallied(st, f, Cardinality(AtWork(p)) - 1)
  <2>1. /\ fails[p] \in FailState /\ recent[p] \in [Ages -> Nat]
        /\ Tallied(fails[p], recent[p], Cardinality(AtWork(p)))
    BY <1>2 DEF BackoffInv
  <2> QED
    BY <1>4, <1>5, <1>6, <2>1, TalliedRefused
<1>8. fails' = [fails EXCEPT ![p] = st] /\ recent' = [recent EXCEPT ![p] = f]
  BY <1>1, <1>3, <1>4, <1>5
<1>9. /\ fails' \in [Pairs -> FailState] /\ recent' \in [Pairs -> [Ages -> Nat]] /\ BackoffInv'
  BY <1>1, <1>3, <1>7, <1>8, EndGood
<1> QED
  BY <1>1, <1>9, IdleIs, GoogleKeeps

\* An accepted sign-in.
LEMMA AcceptGood ==
  ASSUME SignInInv, NEW l \in Logins, Accept(l), AuditLogin(l),
         recent' = [recent EXCEPT ![login[l].pair] = NoneRecent]
  PROVE  SignInInv'
<1>1. /\ login[l].pc = "verify" /\ LoginMoves(l, IdleLogin) /\ UNCHANGED google
      /\ fails' = [fails EXCEPT ![login[l].pair] = NoFails]
  BY DEF Accept
<1>2. login \in [Logins -> Progress]
  BY DEF SignInInv, SignInTyped
<1>3. PICK p \in Pairs : p = login[l].pair
  BY <1>2 DEF Progress
<1>4. /\ NoFails \in FailState /\ NoneRecent \in [Ages -> Nat]
      /\ Tallied(NoFails, NoneRecent, Cardinality(AtWork(p)) - 1)
  BY TalliedReset
<1>5. fails' = [fails EXCEPT ![p] = NoFails] /\ recent' = [recent EXCEPT ![p] = NoneRecent]
  BY <1>1, <1>3
<1>6. /\ fails' \in [Pairs -> FailState] /\ recent' \in [Pairs -> [Ages -> Nat]] /\ BackoffInv'
  BY <1>1, <1>3, <1>4, <1>5, EndGood
<1> QED
  BY <1>1, <1>6, IdleIs, GoogleKeeps

\* A sign-in that ends and counts for nothing.
LEMMA UncountedGood ==
  ASSUME SignInInv, NEW l \in Logins, login[l].pc # "idle", LoginMoves(l, IdleLogin),
         UNCHANGED <<fails, recent>>
  PROVE  /\ fails' \in [Pairs -> FailState] /\ recent' \in [Pairs -> [Ages -> Nat]]
         /\ BackoffInv'
<1>1. /\ login \in [Logins -> Progress] /\ fails \in [Pairs -> FailState]
      /\ recent \in [Pairs -> [Ages -> Nat]] /\ BackoffInv
  BY DEF SignInInv, SignInTyped
<1>2. PICK p \in Pairs : p = login[l].pair
  BY <1>1 DEF Progress
<1>3. PICK n : n = Cardinality(AtWork(p))
  OBVIOUS
<1>4. n \in Nat \ {0}
  BY <1>1, <1>2, <1>3, OneEnds
<1>5. PICK st \in FailState, f \in [Ages -> Nat] : st = fails[p] /\ f = recent[p]
  BY <1>1
<1>6. Tallied(st, f, n - 1)
  <2>1. Tallied(st, f, n)
    BY <1>1, <1>3, <1>5 DEF BackoffInv
  <2>2. n \in Nat /\ n - 1 \in Nat /\ n - 1 =< n
    BY <1>4
  <2> QED
    BY <2>1, <2>2, TalliedLess
<1>7. fails' = [fails EXCEPT ![p] = st] /\ recent' = [recent EXCEPT ![p] = f]
  BY <1>1, <1>5
<1> QED
  BY <1>2, <1>3, <1>6, <1>7, EndGood

\* A sign-in that goes on.
LEMMA GoesOnGood ==
  ASSUME SignInInv, NEW l \in Logins, NEW q \in Progress, LoginMoves(l, q),
         login[l].pc # "idle", q.pc # "idle", q.pair = login[l].pair,
         UNCHANGED <<fails, recent>>
  PROVE  /\ fails' \in [Pairs -> FailState] /\ recent' \in [Pairs -> [Ages -> Nat]]
         /\ BackoffInv'
<1>1. /\ login \in [Logins -> Progress] /\ fails \in [Pairs -> FailState]
      /\ recent \in [Pairs -> [Ages -> Nat]] /\ BackoffInv
  BY DEF SignInInv, SignInTyped
<1>2. \A p \in Pairs : AtWork(p)' = AtWork(p)
  BY <1>1, OneGoesOn
<1> QED
  BY <1>1, <1>2 DEF BackoffInv

\* A sign-in that is given up.
LEMMA AbandonGood ==
  ASSUME SignInInv, NEW l \in Logins, Abandon(l), AuditLogin(l), UNCHANGED recent
  PROVE  SignInInv'
<1>1. /\ login[l].pc = "verify" /\ LoginMoves(l, IdleLogin)
      /\ UNCHANGED google /\ UNCHANGED <<fails, recent>>
  BY DEF Abandon
<1> QED
  BY <1>1, IdleIs, UncountedGood, GoogleKeeps

\* A key is looked for.
LEMMA KeyGood ==
  ASSUME SignInInv, NEW l \in Logins, Key(l), AuditLogin(l), UNCHANGED recent
  PROVE  SignInInv'
<1>1. /\ SignInTyped /\ KeysInv /\ login \in [Logins -> Progress]
      /\ login[l].pc = "key" /\ fetching = NoFetch /\ UNCHANGED <<fails, recent>>
      /\ published' = published /\ cache' = cache /\ fetched' = fetched
  BY DEF Key, SignInInv, SignInTyped
<1>2. PICK pc \in {"verify", "bad", "fetch"} :
        /\ LoginMoves(l, [login[l] EXCEPT !.pc = pc])
        /\ pc # "fetch" => fetching' = fetching
        /\ pc = "fetch" => fetching' = [by |-> l, age |-> 0]
  BY DEF Key
<1>3. PICK q : q = [login[l] EXCEPT !.pc = pc]
  OBVIOUS
<1>4. q \in Progress /\ q.pc = pc /\ q.pair = login[l].pair /\ LoginMoves(l, q)
  BY <1>1, <1>2, <1>3 DEF Progress, LoginPcs
<1>5. /\ fails' \in [Pairs -> FailState] /\ recent' \in [Pairs -> [Ages -> Nat]] /\ BackoffInv'
  BY <1>1, <1>4, GoesOnGood
<1>6. CASE pc # "fetch"
  <2>1. UNCHANGED google
    BY <1>1, <1>2, <1>6 DEF google
  <2> QED
    BY <1>1, <1>4, <1>5, <1>6, <2>1, GoogleKeeps
<1>7. CASE pc = "fetch"
  <2>1. login' \in [Logins -> Progress] /\ login'[l] = q /\ \A m \in Logins \ {l} : login'[m] = login[m]
    BY <1>1, <1>4, OneLoginMoves
  <2>2. Fetchers = {}
    BY <1>1 DEF SignInTyped, Fetchers
  <2>3. Fetchers' = {l}
    BY <1>4, <1>7, <2>1, <2>2 DEF Fetchers
  <2>4. fetching' \in Fetch /\ fetching'.by = l
    BY <1>2, <1>7, SignInConstants DEF Fetch
  <2>5. fetching' # NoFetch
    <3>1. NoFetch.by = "" /\ l # ""
      BY SignInAssumption DEF NoFetch
    <3> QED
      BY Zenon, <2>4, <3>1
  <2>6. fetched' \in 0 .. FetchEvery /\ cache' \in [keys : SUBSET Kids, left : 0 .. MaxTTL]
    BY <1>1 DEF SignInTyped
  <2>7. KeysInv'
    <3>1. gone' = gone
      BY DEF AuditLogin
    <3> QED
      BY <1>1, <3>1 DEF KeysInv
  <2> QED
    BY <1>5, <2>1, <2>3, <2>4, <2>5, <2>6, <2>7, LoginKeeps
<1> QED
  BY <1>6, <1>7

\* The verifier's lock is released: nobody fetches any more.
LEMMA LockReleased ==
  ASSUME SignInTyped, NEW l \in Logins, login[l].pc = "fetch", NEW q \in Progress,
         LoginMoves(l, q), q.pc # "fetch", fetching' = NoFetch,
         fetched' = UpTo(FetchEvery, fetching.age)
  PROVE  /\ login' \in [Logins -> Progress] /\ fetched' \in 0 .. FetchEvery
         /\ Fetchers' = IF fetching' = NoFetch THEN {} ELSE {fetching'.by}
         /\ fetching.age \in Nat
<1>1. login \in [Logins -> Progress]
  BY DEF SignInTyped
<1>2. login' \in [Logins -> Progress] /\ login'[l] = q /\ \A m \in Logins \ {l} : login'[m] = login[m]
  BY <1>1, OneLoginMoves
<1>3. Fetchers = {l} /\ fetching.age \in Nat
  BY OneFetches, SignInConstants
<1>4. Fetchers' = {}
  BY <1>2, <1>3 DEF Fetchers
<1>5. fetched' \in 0 .. FetchEvery
  BY <1>3, SignInConstants DEF UpTo
<1> QED
  BY <1>2, <1>3, <1>4, <1>5

\* Google answers with its keys.
LEMMA FetchedGood ==
  ASSUME SignInInv, NEW l \in Logins, NEW ttl \in TTLs, Fetched(l, ttl), AuditLogin(l),
         UNCHANGED recent
  PROVE  SignInInv'
<1>1. /\ SignInTyped /\ KeysInv /\ login \in [Logins -> Progress]
      /\ login[l].pc = "fetch" /\ UNCHANGED <<fails, recent>> /\ published' = published
      /\ cache' = [keys |-> published, left |-> IF ttl > fetching.age THEN ttl - fetching.age ELSE 0]
      /\ fetched' = UpTo(FetchEvery, fetching.age) /\ fetching' = NoFetch
  BY DEF Fetched, SignInInv, SignInTyped
<1>2. PICK pc \in {"verify", "bad"} : LoginMoves(l, [login[l] EXCEPT !.pc = pc])
  BY DEF Fetched
<1>3. PICK q : q = [login[l] EXCEPT !.pc = pc]
  OBVIOUS
<1>4. q \in Progress /\ q.pc = pc /\ q.pair = login[l].pair /\ LoginMoves(l, q)
  BY <1>1, <1>2, <1>3 DEF Progress, LoginPcs
<1>5. /\ fails' \in [Pairs -> FailState] /\ recent' \in [Pairs -> [Ages -> Nat]] /\ BackoffInv'
  BY <1>1, <1>2, <1>4, GoesOnGood
<1>6. /\ login' \in [Logins -> Progress] /\ fetched' \in 0 .. FetchEvery
      /\ Fetchers' = IF fetching' = NoFetch THEN {} ELSE {fetching'.by}
      /\ fetching.age \in Nat
  BY <1>1, <1>2, <1>4, LockReleased
<1>7. PICK left \in 0 .. MaxTTL : cache' = [keys |-> published, left |-> left]
  <2>1. ttl \in Nat /\ ttl =< MaxTTL /\ MaxTTL \in Nat
    BY SignInConstants
  <2>2. (IF ttl > fetching.age THEN ttl - fetching.age ELSE 0) \in 0 .. MaxTTL
    BY <1>6, <2>1
  <2> QED
    BY <1>1, <2>2
<1>8. cache' \in [keys : SUBSET Kids, left : 0 .. MaxTTL]
  <2>1. published \in SUBSET Kids
    BY <1>1 DEF SignInTyped
  <2> QED
    BY <1>7, <2>1
<1>9. KeysInv'
  <2>1. gone' = gone
    BY DEF AuditLogin
  <2>2. \A k \in Kids : k \in published => gone[k] = 0
    BY <1>1 DEF KeysInv
  <2>3. cache'.keys = published /\ cache'.left = left /\ left =< MaxTTL /\ left \in Nat
    BY <1>7, SignInConstants
  <2> QED
    BY <1>1, <2>1, <2>2, <2>3 DEF KeysInv
<1>10. fetching' \in Fetch \cup {NoFetch}
  BY <1>1
<1> QED
  BY <1>5, <1>6, <1>8, <1>9, <1>10, LoginKeeps

\* Google does not answer.
LEMMA FetchFailsGood ==
  ASSUME SignInInv, NEW l \in Logins, FetchFails(l), AuditLogin(l), UNCHANGED recent
  PROVE  SignInInv'
<1>1. /\ SignInTyped /\ KeysInv /\ login \in [Logins -> Progress]
      /\ login[l].pc = "fetch" /\ UNCHANGED <<fails, recent>> /\ published' = published
      /\ cache' = cache /\ fetched' = UpTo(FetchEvery, fetching.age) /\ fetching' = NoFetch
      /\ LoginMoves(l, IdleLogin)
  BY DEF FetchFails, SignInInv, SignInTyped
<1>2. /\ fails' \in [Pairs -> FailState] /\ recent' \in [Pairs -> [Ages -> Nat]] /\ BackoffInv'
  BY <1>1, UncountedGood
<1>3. /\ login' \in [Logins -> Progress] /\ fetched' \in 0 .. FetchEvery
      /\ Fetchers' = IF fetching' = NoFetch THEN {} ELSE {fetching'.by}
  BY <1>1, IdleIs, LockReleased
<1>4. KeysInv'
  <2>1. gone' = gone
    BY DEF AuditLogin
  <2> QED
    BY <1>1, <2>1 DEF KeysInv
<1>5. cache' \in [keys : SUBSET Kids, left : 0 .. MaxTTL] /\ fetching' \in Fetch \cup {NoFetch}
  BY <1>1 DEF SignInTyped
<1> QED
  BY <1>2, <1>3, <1>4, <1>5, LoginKeeps

\* A step of a sign-in.
LEMMA LoginGood ==
  ASSUME SignInInv, NEW l \in Logins, AuditLogin(l)
  PROVE  SignInInv'
<1>1. \/ Refuse(l) /\ recent' = [recent EXCEPT ![login[l].pair][0] = @ + 1]
      \/ Accept(l) /\ recent' = [recent EXCEPT ![login[l].pair] = NoneRecent]
      \/ SignInStep(l) /\ UNCHANGED recent
  BY DEF AuditLogin
<1>2. gone' = gone
  BY DEF AuditLogin
<1>3. ASSUME SignInStep(l), UNCHANGED recent PROVE SignInInv'
  <2>1. ASSUME NEW p \in Pairs \ {GooglePair}, Attempt(l, p, "") PROVE SignInInv'
    BY <1>2, <1>3, <2>1, AttemptGood DEF LoginKids
  <2>2. ASSUME NEW kid \in Kids \cup {"none", ""}, Attempt(l, GooglePair, kid) PROVE SignInInv'
    BY <1>2, <1>3, <2>2, AttemptGood, SignInConstants DEF LoginKids
  <2>3. ASSUME NEW ttl \in TTLs, Fetched(l, ttl) PROVE SignInInv'
    BY <1>3, <2>3, FetchedGood
  <2>4. CASE Abandon(l)
    BY <1>3, <2>4, AbandonGood
  <2>5. CASE Key(l)
    BY <1>3, <2>5, KeyGood
  <2>6. CASE FetchFails(l)
    BY <1>3, <2>6, FetchFailsGood
  <2> QED
    BY <1>3, <2>1, <2>2, <2>3, <2>4, <2>5, <2>6 DEF SignInStep
<1> QED
  BY <1>1, <1>3, RefuseGood, AcceptGood

\* In the beginning nobody has failed and Google publishes one key.
LEMMA SignInStarts ==
  ASSUME SignInAuditInit
  PROVE  SignInInv
<1>1. /\ fails = [p \in Pairs |-> NoFails] /\ recent = [p \in Pairs |-> NoneRecent]
      /\ published \in {{k} : k \in Kids} /\ cache = NoKeys /\ fetched = FetchEvery
      /\ fetching = NoFetch /\ login = [l \in Logins |-> IdleLogin]
      /\ gone = [k \in Kids |-> IF k \in published THEN 0 ELSE MaxTTL]
  BY DEF SignInAuditInit, SignInInit
<1>2. BackoffInv
  BY <1>1, TalliedReset DEF BackoffInv
<1>3. KeysInv
  BY <1>1 DEF KeysInv, NoKeys
<1>4. fails \in [Pairs -> FailState] /\ recent \in [Pairs -> [Ages -> Nat]]
  BY <1>1, TalliedReset
<1>5. /\ published \in (SUBSET Kids) \ {{}} /\ gone \in [Kids -> 0 .. MaxTTL]
      /\ cache \in [keys : SUBSET Kids, left : 0 .. MaxTTL] /\ fetched \in 0 .. FetchEvery
  <2>1. 0 \in 0 .. MaxTTL /\ MaxTTL \in 0 .. MaxTTL /\ FetchEvery \in 0 .. FetchEvery
    BY SignInConstants
  <2> QED
    BY <1>1, <2>1 DEF NoKeys
<1>6. login \in [Logins -> Progress] /\ Fetchers = {}
  BY <1>1, IdleIs DEF Fetchers
<1>7. SignInTyped
  BY <1>1, <1>4, <1>5, <1>6 DEF SignInTyped, Fetchers
<1> QED
  BY <1>2, <1>3, <1>7 DEF SignInInv

\* The invariant holds in every state.
LEMMA SignInAlways == SignInAuditSpec => []SignInInv
<1>1. SignInInv /\ [SignInAuditNext]_signInAuditVars => SignInInv'
  <2>1. CASE UNCHANGED signInAuditVars
    BY <2>1 DEF signInAuditVars, signInVars, google, SignInInv, SignInTyped, BackoffInv, KeysInv, AtWork
  <2>2. CASE SignInAuditNext
    BY <2>2, TickGood, KeysGood, LoginGood DEF SignInAuditNext
  <2> QED
    BY <2>1, <2>2
<1> QED
  BY <1>1, SignInStarts, PTL DEF SignInAuditSpec

\* The distances stay in their ranges, and the verifier's lock is held by the
\* sign-in that is fetching.
THEOREM SignInTypeCorrect == SignInAuditSpec => []SignInTypeOK
<1>1. SignInInv => SignInTypeOK
  BY DEF SignInInv, SignInTyped, SignInTypeOK, FailState
<1> QED
  BY <1>1, SignInAlways, PTL

\* However many sign-ins are tried at once, a pair that does not succeed fails
\* within any window fewer times than the limit and the sign-ins together.
THEOREM GuessesAreBounded == SignInAuditSpec => []GuessesBounded
<1>1. SignInInv => GuessesBounded
  <2> SUFFICES ASSUME SignInInv, NEW p \in Pairs
               PROVE  Total(recent[p]) < MaxFails + Cardinality(Logins)
    BY DEF GuessesBounded, Total
  <2>1. /\ fails[p] \in FailState /\ recent[p] \in [Ages -> Nat]
        /\ login \in [Logins -> Progress]
    BY DEF SignInInv, SignInTyped
  <2>2. /\ Total(recent[p]) \in Nat /\ Cardinality(Logins) \in Nat /\ MaxFails \in Nat \ {0}
        /\ fails[p].count \in 0 .. MaxFails
    BY <2>1, SignInConstants, TotalIs DEF FailState
  <2>3. PICK n \in Nat : n = Cardinality(AtWork(p))
    <3>1. AtWork(p) \subseteq Logins
      BY DEF AtWork
    <3> QED
      BY <3>1, SignInConstants, FS_Subset, FS_CardinalityType
  <2>4. Tallied(fails[p], recent[p], n)
    BY <2>3 DEF SignInInv, BackoffInv
  <2>5. CASE fails[p].count = 0
    BY <2>2, <2>4, <2>5 DEF Tallied
  <2>6. CASE fails[p].count > 0 /\ fails[p].count < MaxFails
    BY <2>2, <2>4, <2>6 DEF Tallied
  <2>7. CASE fails[p].count = MaxFails
    BY <2>2, <2>3, <2>4, <2>7 DEF Tallied
  <2> QED
    BY <2>2, <2>5, <2>6, <2>7
<1> QED
  BY <1>1, SignInAlways, PTL

\* A token passes the key check only while its key is published or has been
\* withdrawn for less than the longest max-age.
THEOREM WithdrawnKeysDoExpire == SignInAuditSpec => WithdrawnKeysExpire
<1> DEFINE Expires(l) ==
      login[l].pc \in {"key", "fetch"} /\ login'[l].pc = "verify" => gone[login[l].kid] < MaxTTL
<1>1. SignInInv /\ [SignInAuditNext]_signInAuditVars => [\A l \in Logins : Expires(l)]_signInAuditVars
  <2> SUFFICES ASSUME SignInInv, SignInAuditNext, NEW l \in Logins,
                      login[l].pc \in {"key", "fetch"}, login'[l].pc = "verify"
               PROVE  gone[login[l].kid] < MaxTTL
    OBVIOUS
  <2>1. SignInTyped /\ KeysInv /\ login \in [Logins -> Progress]
    BY DEF SignInInv, SignInTyped
  <2>2. PICK m \in Logins : AuditLogin(m)
    BY DEF SignInAuditNext, AuditTick, Tick, AuditKeys, KeysChange, Rotate, Withdraw
  <2>3. ASSUME NEW q, LoginMoves(m, q) PROVE m = l /\ q.pc = "verify"
    BY <2>1, <2>3 DEF LoginMoves
  <2>4. CASE Key(m)
    <3>1. Known(login[l].kid)
      <4>1. PICK pc : /\ LoginMoves(m, [login[m] EXCEPT !.pc = pc])
                      /\ pc = "verify" => Known(login[m].kid)
        BY <2>4 DEF Key
      <4>2. PICK q : q = [login[m] EXCEPT !.pc = pc]
        OBVIOUS
      <4>3. q.pc = pc
        BY <2>1, <4>2 DEF Progress
      <4>4. m = l /\ q.pc = "verify"
        BY <2>3, <4>1, <4>2
      <4> QED
        BY <4>1, <4>3, <4>4
    <3>2. login[l].kid \in Kids /\ login[l].kid \in cache.keys /\ cache.left > 0 /\ cache.left \in Nat
      BY <2>1, <3>1, SignInConstants DEF Known, SignInTyped
    <3>3. gone[login[l].kid] + cache.left =< MaxTTL /\ gone[login[l].kid] \in Nat
      BY <2>1, <3>2, SignInConstants DEF KeysInv, SignInTyped
    <3> QED
      BY <3>2, <3>3, SignInConstants
  <2>5. ASSUME NEW ttl \in TTLs, Fetched(m, ttl) PROVE gone[login[l].kid] < MaxTTL
    <3>1. login[l].kid \in published
      <4>1. PICK pc : /\ LoginMoves(m, [login[m] EXCEPT !.pc = pc])
                      /\ pc = IF login[m].kid \in published THEN "verify" ELSE "bad"
        BY <2>5 DEF Fetched
      <4>2. PICK q : q = [login[m] EXCEPT !.pc = pc]
        OBVIOUS
      <4>3. q.pc = pc
        BY <2>1, <4>2 DEF Progress
      <4>4. m = l /\ q.pc = "verify"
        BY <2>3, <4>1, <4>2
      <4> QED
        BY <4>1, <4>3, <4>4
    <3>2. published \subseteq Kids
      BY <2>1 DEF SignInTyped
    <3>3. gone[login[l].kid] = 0
      BY <2>1, <3>1, <3>2 DEF KeysInv
    <3> QED
      BY <3>3, SignInConstants
  <2>6. ASSUME NEW p, NEW kid, Attempt(m, p, kid) PROVE FALSE
    BY <2>3, <2>6 DEF Attempt
  <2>7. CASE Refuse(m) \/ Accept(m) \/ Abandon(m) \/ FetchFails(m)
    BY <2>3, <2>7, IdleIs DEF Refuse, Accept, Abandon, FetchFails
  <2> QED
    BY <2>2, <2>4, <2>5, <2>6, <2>7 DEF AuditLogin, SignInStep
<1> QED
  BY <1>1, SignInAlways, PTL DEF SignInAuditSpec, WithdrawnKeysExpire
=============================================================================
