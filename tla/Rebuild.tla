------------------------------- MODULE Rebuild -------------------------------
(***************************************************************************)
(* How a change made in the admin GUI reaches the hot path                 *)
(* (internal/gateway: applyMutation, rebuildPools, clearRuntimeDisable and *)
(* the client-key, user-access and catalog caches).                        *)
(*                                                                         *)
(* The database is the source of truth; requests only read copies of it in *)
(* memory.  A mutation writes one row and then refreshes every copy, one   *)
(* statement after another, and nothing serialises two mutations: every    *)
(* signed-in user runs them (client keys, settings, providers).  Requests  *)
(* hold on to the pool they resolved while a rebuild replaces it, so pools *)
(* of several generations are alive at once; a rebuild carries the runtime *)
(* state of the live pools over by key hash.                               *)
(*                                                                         *)
(* A key's runtime state is its disable (classify's auth and expiry        *)
(* verdicts); the other fields of KeyState are copied by the same lines.   *)
(* A store query, like a write, is one step: SQLite has one connection.    *)
(***************************************************************************)
EXTENDS Naturals, FiniteSets

CONSTANTS
  Providers,    \* providers that exist or may be created
  Zen,          \* the builtin provider: never deleted, its pool never dropped
  Order,        \* provider -> sort_order
  Keys,         \* upstream keys, as their hashes
  InitialKeys,  \* provider -> its keys in the database at start
  ClientKeys,   \* client API keys, each of a user of its own
  Admins,       \* handlers that may run a mutation at the same time
  Requests,     \* client requests in flight at the same time
  MaxWrites,    \* bound: mutations made
  MaxFetches,   \* bound: catalog fetches
  MaxFailures   \* bound: store reads that fail during a rebuild

ASSUME RebuildAssumption ==
  /\ Zen \in Providers
  /\ Order \in [Providers -> Nat]
  /\ \A p, q \in Providers : Order[p] = Order[q] => p = q
  /\ InitialKeys \in [Providers -> SUBSET Keys]
  /\ IsFiniteSet(Admins) /\ IsFiniteSet(Requests)
  /\ MaxWrites \in Nat /\ MaxFetches \in Nat /\ MaxFailures \in Nat

VARIABLES
  status,      \* table providers: "on", "off" or "none" (no such row)
  keyRow,      \* table provider_keys: "on", "off" or "none"
  clientRow,   \* table client_keys: the enabled keys
  accessRow,   \* table user_provider_access: <<client key, provider>> revoked
  pools,       \* generation -> provider -> pool
  registry,    \* [gen, routable]: the generation in use, its enabled providers
  clients,     \* clientKeyCache
  denied,      \* userAccessCache
  catalog,     \* providers in the cached /v1/models, or Dropped
  fetching,    \* what catMu's holder fetches, Dropped when the lock is free
  admin,       \* handler -> its mutation in progress
  req,         \* request -> its progress
  writes, fetches, failures  \* counters for the bounds

store == <<status, keyRow, clientRow, accessRow>>
caches == <<clients, denied>>
catalogVars == <<catalog, fetching>>
bounds == <<writes, fetches, failures>>
vars == <<store, pools, registry, caches, catalogVars, admin, req, bounds>>

Rows == Providers \X Keys
\* Generations in use at once: the live one and those somebody still holds;
\* one more number for the next.
Generations == 1 .. Cardinality(Admins) + Cardinality(Requests) + 2

\* A pool: the keys in rotation, and those of them disabled at runtime.
NoPool == [keys |-> {}, dead |-> {}]
NoPools == [p \in Providers |-> NoPool]
Live == pools[registry.gen]

Dropped == [valid |-> FALSE, providers |-> {}]
Offered(ps) == [valid |-> TRUE, providers |-> ps]

NoProviders == [p \in Providers |-> "none"]
NoKeys == [row \in Rows |-> "none"]
NoRow == <<>>

\* The locals of a mutation: what it read of the store and of the old pools,
\* and the row whose runtime disable it lifts in the end.
IdleAdmin ==
  [ pc |-> "idle", revive |-> NoRow, status |-> NoProviders, keyRow |-> NoKeys,
    prev |-> {}, seen |-> {}, gen |-> 0, routable |-> {} ]

IdleRequest == [pc |-> "idle", gen |-> 0, key |-> NoRow]

\* The enabled keys of provider p according to what was read of the table.
EnabledKeys(read, p) == {k \in Keys : read[<<p, k>>] = "on"}

\* Mutant of Built: the disables are carried over for keys no longer there.
BuiltKeepingAll(read, prev) ==
  [p \in Providers |-> [keys |-> EnabledKeys(read, p), dead |-> prev]]

\* newPoolPreserving: switched-off rows stay out, dead keys stay dead.
Built(read, prev) ==
  [p \in Providers |-> [keys |-> EnabledKeys(read, p),
                        dead |-> EnabledKeys(read, p) \cap prev]]

Routable(read) == {p \in Providers : read[p] = "on"}

\* Mutant of Preserved: only the registry's pools are copied.
PreservedFromRegistry ==
  {k \in Keys : \E p \in registry.routable : k \in Live[p].dead}

\* The dead keys among the states a rebuild preserves: the registry's pools
\* in order and zen's last, a later copy replacing an earlier one.
Preserved ==
  LET holders(k) == {p \in registry.routable \cup {Zen} : k \in Live[p].keys}
      last(k) == IF Zen \in holders(k) THEN Zen
                 ELSE CHOOSE p \in holders(k) :
                        \A q \in holders(k) : Order[q] =< Order[p]
  IN  {k \in Keys : holders(k) # {} /\ k \in Live[last(k)].dead}

\* Pools nobody refers to any more are garbage.
InUse(newGen, admins, reqs) ==
  {newGen} \cup {reqs[r].gen : r \in Requests} \cup {admins[a].gen : a \in Admins}
Collected(ps, used) == [g \in Generations |-> IF g \in used THEN ps[g] ELSE NoPools]

-----------------------------------------------------------------------------
Init ==
  /\ status = [p \in Providers |-> "on"]
  /\ keyRow = [row \in Rows |-> IF row[2] \in InitialKeys[row[1]] THEN "on" ELSE "none"]
  /\ clientRow = ClientKeys
  /\ accessRow = {}
  /\ pools = [g \in Generations |-> IF g = 1 THEN Built(keyRow, {}) ELSE NoPools]
  /\ registry = [gen |-> 1, routable |-> Providers]
  /\ clients = ClientKeys
  /\ denied = {}
  /\ catalog = Dropped
  /\ fetching = Dropped
  /\ admin = [a \in Admins |-> IdleAdmin]
  /\ req = [r \in Requests |-> IdleRequest]
  /\ writes = 0
  /\ fetches = 0
  /\ failures = 0

(***************************************************************************)
(* A mutation: the write of one handler, then rebuildPools.                *)
(***************************************************************************)
Becomes(a, q) == admin' = [admin EXCEPT ![a] = q]

\* applyMutation calls the handler's write.
Write(a, revive) ==
  /\ admin[a].pc = "idle" /\ writes < MaxWrites
  /\ writes' = writes + 1
  /\ Becomes(a, [IdleAdmin EXCEPT !.pc = "providers", !.revive = revive])
  /\ UNCHANGED <<pools, registry, caches, catalogVars, req, fetches, failures>>

\* handleCreateProvider: a provider comes with its keys.
CreateProvider(a, p, ks) ==
  /\ status[p] = "none"
  /\ status' = [status EXCEPT ![p] = "on"]
  /\ keyRow' = [row \in Rows |-> IF row[1] = p /\ row[2] \in ks THEN "on" ELSE keyRow[row]]
  /\ Write(a, NoRow)
  /\ UNCHANGED <<clientRow, accessRow>>

\* handlePatchProvider
SwitchProvider(a, p) ==
  /\ status[p] # "none"
  /\ status' = [status EXCEPT ![p] = IF @ = "on" THEN "off" ELSE "on"]
  /\ Write(a, NoRow)
  /\ UNCHANGED <<keyRow, clientRow, accessRow>>

\* handleDeleteProvider: the keys cascade.  The access rows stay, but name an
\* id no later provider gets, so here they go with it.
DeleteProvider(a, p) ==
  /\ p # Zen /\ status[p] # "none"
  /\ status' = [status EXCEPT ![p] = "none"]
  /\ keyRow' = [row \in Rows |-> IF row[1] = p THEN "none" ELSE keyRow[row]]
  /\ accessRow' = {pair \in accessRow : pair[2] # p}
  /\ Write(a, NoRow)
  /\ UNCHANGED clientRow

\* handleAddProviderKey, which refuses a key the provider already has.
AddKey(a, row) ==
  /\ status[row[1]] # "none" /\ keyRow[row] = "none"
  /\ keyRow' = [keyRow EXCEPT ![row] = "on"]
  /\ Write(a, NoRow)
  /\ UNCHANGED <<status, clientRow, accessRow>>

\* Mutant of SwitchKey: only a row that was off has its disable lifted.
SwitchKeyIfChanged(a, row, to) ==
  /\ keyRow[row] # "none"
  /\ keyRow' = [keyRow EXCEPT ![row] = to]
  /\ Write(a, IF to = "on" /\ keyRow[row] = "off" THEN row ELSE NoRow)
  /\ UNCHANGED <<status, clientRow, accessRow>>

\* handlePatchProviderKey; switching a key on, whether or not it was off,
\* asks for its runtime disable to be lifted.
SwitchKey(a, row, to) ==
  /\ keyRow[row] # "none"
  /\ keyRow' = [keyRow EXCEPT ![row] = to]
  /\ Write(a, IF to = "on" THEN row ELSE NoRow)
  /\ UNCHANGED <<status, clientRow, accessRow>>

\* handleDeleteProviderKey
DeleteKey(a, row) ==
  /\ keyRow[row] # "none"
  /\ keyRow' = [keyRow EXCEPT ![row] = "none"]
  /\ Write(a, NoRow)
  /\ UNCHANGED <<status, clientRow, accessRow>>

\* The client-key handlers: a key is created or switched on, or it is
\* switched off or deleted.
SwitchClient(a, c) ==
  /\ clientRow' = IF c \in clientRow THEN clientRow \ {c} ELSE clientRow \cup {c}
  /\ Write(a, NoRow)
  /\ UNCHANGED <<status, keyRow, accessRow>>

\* handlePutUserProviderAccess
SwitchAccess(a, c, p) ==
  /\ status[p] # "none"
  /\ accessRow' = IF <<c, p>> \in accessRow THEN accessRow \ {<<c, p>>}
                                            ELSE accessRow \cup {<<c, p>>}
  /\ Write(a, NoRow)
  /\ UNCHANGED <<status, keyRow, clientRow>>

Mutate(a) ==
  \/ \E p \in Providers, ks \in (SUBSET Keys) \ {{}} : CreateProvider(a, p, ks)
  \/ \E p \in Providers : SwitchProvider(a, p)
  \/ \E p \in Providers : DeleteProvider(a, p)
  \/ \E row \in Rows : AddKey(a, row)
  \/ \E row \in Rows, to \in {"on", "off"} : SwitchKey(a, row, to)
  \/ \E row \in Rows : DeleteKey(a, row)
  \/ \E c \in ClientKeys : SwitchClient(a, c)
  \/ \E c \in ClientKeys, p \in Providers : SwitchAccess(a, c, p)

\* ListProvidersWithKeys: two queries.
ListProviders(a) ==
  /\ admin[a].pc = "providers"
  /\ Becomes(a, [admin[a] EXCEPT !.pc = "keys", !.status = status])
  /\ UNCHANGED <<store, pools, registry, caches, catalogVars, req, bounds>>

ListKeys(a) ==
  /\ admin[a].pc = "keys"
  /\ Becomes(a, [admin[a] EXCEPT !.pc = "copy", !.keyRow = keyRow])
  /\ UNCHANGED <<store, pools, registry, caches, catalogVars, req, bounds>>

\* stateCopies of every live pool, under regMu.
CopyStates(a) ==
  /\ admin[a].pc = "copy"
  /\ Becomes(a, [admin[a] EXCEPT !.pc = "swap", !.prev = Preserved])
  /\ UNCHANGED <<store, pools, registry, caches, catalogVars, req, bounds>>

\* The pools of a provider missing from the first query are not built.
Swap(a) ==
  LET q    == admin[a]
      gen  == CHOOSE g \in Generations :
                g \notin InUse(registry.gen, admin, req)
      read == [row \in Rows |-> IF q.status[row[1]] = "none" THEN "none" ELSE q.keyRow[row]]
      next == [admin EXCEPT ![a] = [IdleAdmin EXCEPT !.pc = "clients", !.revive = q.revive]]
  IN
  /\ q.pc = "swap"
  /\ pools' = Collected([pools EXCEPT ![gen] = Built(read, q.prev)],
                        InUse(gen, next, req))
  /\ registry' = [gen |-> gen, routable |-> Routable(q.status)]
  /\ admin' = next
  /\ UNCHANGED <<store, caches, catalogVars, req, bounds>>

\* ck.reload: query, then install.
ReadClients(a) ==
  /\ admin[a].pc = "clients"
  /\ Becomes(a, [admin[a] EXCEPT !.pc = "ck", !.seen = clientRow])
  /\ UNCHANGED <<store, pools, registry, caches, catalogVars, req, bounds>>

InstallClients(a) ==
  /\ admin[a].pc = "ck"
  /\ clients' = admin[a].seen
  /\ Becomes(a, [admin[a] EXCEPT !.pc = "access", !.seen = {}])
  /\ UNCHANGED <<store, pools, registry, denied, catalogVars, req, bounds>>

\* access.reload: query, then install.
ReadAccess(a) ==
  /\ admin[a].pc = "access"
  /\ Becomes(a, [admin[a] EXCEPT !.pc = "ua", !.seen = accessRow])
  /\ UNCHANGED <<store, pools, registry, caches, catalogVars, req, bounds>>

InstallAccess(a) ==
  /\ admin[a].pc = "ua"
  /\ denied' = admin[a].seen
  /\ Becomes(a, [admin[a] EXCEPT !.pc = "catalog", !.seen = {}])
  /\ UNCHANGED <<store, pools, registry, clients, catalogVars, req, bounds>>

\* Mutant of DropCatalog: it does not wait for catMu.
DropCatalogUnlocked(a) ==
  /\ admin[a].pc = "catalog"
  /\ catalog' = Dropped
  /\ Becomes(a, IF admin[a].revive = NoRow THEN IdleAdmin
                ELSE [admin[a] EXCEPT !.pc = "find"])
  /\ UNCHANGED <<store, pools, registry, caches, fetching, req, bounds>>

\* invalidateCatalog waits for a fetch under catMu.  Then the mutation is
\* done, unless it lifts a runtime disable.
DropCatalog(a) ==
  /\ admin[a].pc = "catalog" /\ ~fetching.valid
  /\ catalog' = Dropped
  /\ Becomes(a, IF admin[a].revive = NoRow THEN IdleAdmin
                ELSE [admin[a] EXCEPT !.pc = "find"])
  /\ UNCHANGED <<store, pools, registry, caches, fetching, req, bounds>>

\* clearRuntimeDisable: find the row's key, snapshot the registry (the two
\* steps after the query need no store and see one registry) ...
FindRevived(a) ==
  /\ admin[a].pc = "find"
  /\ Becomes(a, IF keyRow[admin[a].revive] = "none" THEN IdleAdmin
                ELSE [admin[a] EXCEPT !.pc = "revive", !.gen = registry.gen,
                                      !.routable = registry.routable])
  /\ UNCHANGED <<store, pools, registry, caches, catalogVars, req, bounds>>

\* ... and switch the key on in every pool of it.
Revive(a) ==
  LET q == admin[a]
      k == q.revive[2]
      on == [p \in Providers |->
               IF p \in q.routable THEN [pools[q.gen][p] EXCEPT !.dead = @ \ {k}]
                                   ELSE pools[q.gen][p]]
      next == [admin EXCEPT ![a] = IdleAdmin]
  IN
  /\ q.pc = "revive"
  /\ admin' = next
  /\ pools' = Collected([pools EXCEPT ![q.gen] = on], InUse(registry.gen, next, req))
  /\ UNCHANGED <<store, registry, caches, catalogVars, req, bounds>>

\* A store read fails: the handler answers "Saved to the database, but
\* applying it live failed" and every later refresh is skipped; if it is the
\* last read, the disable is not lifted and the handler only logs it.
RebuildFails(a) ==
  /\ failures < MaxFailures
  /\ admin[a].pc \in {"providers", "keys", "clients", "access", "find"}
  /\ failures' = failures + 1
  /\ Becomes(a, IdleAdmin)
  /\ UNCHANGED <<store, pools, registry, caches, catalogVars, req, writes, fetches>>

(***************************************************************************)
(* A client request.                                                       *)
(***************************************************************************)
Moves(r, q) == req' = [req EXCEPT ![r] = q]

\* clientOnly authenticates the caller, providerFor finds the provider's pool
\* in the registry and consults the access cache.  In one step: whichever
\* caches the three reads meet, all that is left of them is the pool.
Arrive(r, c, p) ==
  /\ req[r].pc = "idle"
  /\ c \in clients /\ p \in registry.routable /\ <<c, p>> \notin denied
  /\ Moves(r, [pc |-> "pick", gen |-> registry.gen, key |-> <<p>>])
  /\ UNCHANGED <<store, pools, registry, caches, catalogVars, admin, bounds>>

\* pool.pick on the pool the request holds, replaced meanwhile or not.
PickKey(r, k) ==
  LET p == req[r].key[1]
      pool == pools[req[r].gen][p]
  IN
  /\ req[r].pc = "pick"
  /\ k \in pool.keys \ pool.dead
  /\ Moves(r, [req[r] EXCEPT !.pc = "call", !.key = <<p, k>>])
  /\ UNCHANGED <<store, pools, registry, caches, catalogVars, admin, bounds>>

\* The upstream rejects the key for good; the walk goes on.
Rejected(r) ==
  LET q == req[r] IN
  /\ q.pc = "call"
  /\ pools' = [pools EXCEPT ![q.gen][q.key[1]].dead = @ \cup {q.key[2]}]
  /\ Moves(r, [q EXCEPT !.pc = "pick", !.key = <<q.key[1]>>])
  /\ UNCHANGED <<store, registry, caches, catalogVars, admin, bounds>>

\* The request ends: served, out of keys, or refused by the upstream.
End(r) ==
  LET next == [req EXCEPT ![r] = IdleRequest] IN
  /\ req[r].pc # "idle"
  /\ req' = next
  /\ pools' = Collected(pools, InUse(registry.gen, admin, next))
  /\ UNCHANGED <<store, registry, caches, catalogVars, admin, bounds>>

(***************************************************************************)
(* /v1/models: one fetch at a time, catMu held throughout.                 *)
(***************************************************************************)
FetchCatalog ==
  /\ ~fetching.valid /\ fetches < MaxFetches
  /\ fetches' = fetches + 1
  /\ fetching' = Offered(registry.routable)
  /\ UNCHANGED <<store, pools, registry, caches, catalog, admin, req, writes, failures>>

\* Unreachable providers are left out.  With no model at all nothing is cached:
\* the old catalog stays if a provider failed, and is dropped if none did.
CacheCatalog(reached) ==
  /\ fetching.valid /\ reached \subseteq fetching.providers
  /\ catalog' \in CASE reached # {}            -> {Offered(reached)}
                    [] fetching.providers = {} -> {Dropped}
                    [] OTHER                   -> {catalog, Dropped}
  /\ fetching' = Dropped
  /\ UNCHANGED <<store, pools, registry, caches, admin, req, bounds>>

\* The process stops at any point and starts again from the database.
Restart ==
  /\ pools' = [g \in Generations |->
                 IF g = 1 THEN Built(keyRow, {}) ELSE NoPools]
  /\ registry' = [gen |-> 1, routable |-> Routable(status)]
  /\ clients' = clientRow /\ denied' = accessRow
  /\ catalog' = Dropped /\ fetching' = Dropped
  /\ admin' = [a \in Admins |-> IdleAdmin]
  /\ req' = [r \in Requests |-> IdleRequest]
  /\ UNCHANGED <<store, bounds>>

Refresh(a) ==
  \/ ListProviders(a) \/ ListKeys(a) \/ CopyStates(a) \/ Swap(a)
  \/ ReadClients(a) \/ InstallClients(a) \/ ReadAccess(a) \/ InstallAccess(a)
  \/ DropCatalog(a) \/ FindRevived(a) \/ Revive(a) \/ RebuildFails(a)

Serve(r) ==
  \/ \E c \in ClientKeys, p \in Providers : Arrive(r, c, p)
  \/ \E k \in Keys : PickKey(r, k)
  \/ Rejected(r)
  \/ End(r)

Running ==
  \/ \E a \in Admins : Mutate(a)
  \/ \E a \in Admins : Refresh(a)
  \/ \E r \in Requests : Serve(r)
  \/ FetchCatalog
  \/ \E reached \in SUBSET Providers : CacheCatalog(reached)

Next == Running \/ Restart

Spec == Init /\ [][Next]_vars
=============================================================================
