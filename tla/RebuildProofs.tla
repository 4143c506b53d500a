---------------------------- MODULE RebuildProofs ----------------------------
(***************************************************************************)
(* Theorems about admin mutations, pool rebuilds and requests, for any     *)
(* number of providers, keys, handlers, requests, failures and restarts.   *)
(***************************************************************************)
EXTENDS RebuildAudit, Sequences, FiniteSetTheorems, TLAPS

States == {"on", "off", "none"}

Stages == {"idle", "providers", "keys", "copy", "swap", "clients", "ck", "access",
           "ua", "catalog", "find", "revive"}

Mutation ==
  [ pc : Stages, revive : Rows \cup {NoRow}, status : [Providers -> States],
    keyRow : [Rows -> States], prev : SUBSET Keys,
    seen : (SUBSET ClientKeys) \cup SUBSET (ClientKeys \X Providers),
    gen : Generations \cup {0}, routable : SUBSET Providers ]

\* What a handler holds fits the statement it has reached.
GoodMutation(q) ==
  /\ q \in Mutation
  /\ q.pc = "idle" => q = IdleAdmin
  /\ q.pc \in {"keys", "copy", "swap"} => q.status[Zen] # "none"
  /\ q.pc = "ck" => q.seen \subseteq ClientKeys
  /\ q.pc = "ua" => q.seen \subseteq ClientKeys \X Providers
  /\ q.pc \in {"find", "revive"} => q.revive \in Rows
  /\ q.pc = "revive" => q.gen \in Generations

Request ==
  [ pc : {"idle", "pick", "call"}, gen : Generations \cup {0},
    key : {NoRow} \cup {<<p>> : p \in Providers} \cup Rows ]

\* A request that called an upstream has a key of the pool it holds.
GoodRequest(q, ps) ==
  /\ q \in Request
  /\ q.pc = "idle" => q = IdleRequest
  /\ q.pc = "pick" => /\ q.gen \in Generations
                      /\ \E p \in Providers : q.key = <<p>>
  /\ q.pc = "call" => /\ q.gen \in Generations
                      /\ q.key \in Rows
                      /\ q.key[2] \in ps[q.gen][q.key[1]].keys

TablesInv ==
  /\ status \in [Providers -> States] /\ status[Zen] # "none"
  /\ keyRow \in [Rows -> States]
  /\ clientRow \subseteq ClientKeys /\ clients \subseteq ClientKeys
  /\ accessRow \subseteq ClientKeys \X Providers
  /\ denied \subseteq ClientKeys \X Providers

Catalogs == {Dropped} \cup {Offered(ps) : ps \in SUBSET Providers}

PoolsInv ==
  /\ pools \in [Generations -> [Providers -> PoolState]]
  /\ registry \in [gen : Generations, routable : SUBSET Providers]
  /\ catalog \in Catalogs /\ fetching \in Catalogs

HandlersInv ==
  /\ admin \in [Admins -> Mutation]
  /\ \A a \in Admins : GoodMutation(admin[a])

RequestsInv ==
  /\ req \in [Requests -> Request]
  /\ \A r \in Requests : GoodRequest(req[r], pools)

WellFormed == TablesInv /\ PoolsInv /\ HandlersInv /\ RequestsInv

\* A disable the upstream asked for is on the live pool, and every rebuild
\* under way has read what it takes to carry it over.
Disabled(row) ==
  /\ row \in Rows
  /\ keyRow[row] = "on" /\ Exclusive(row)
  /\ status[row[1]] = "on" \/ row[1] = Zen
  /\ row[1] \in registry.routable \cup {Zen}
  /\ row[2] \in Live[row[1]].dead
  /\ \A a \in Admins :
       /\ admin[a].pc \in {"keys", "copy", "swap"} =>
            admin[a].status[row[1]] = "on" \/ row[1] = Zen
       /\ admin[a].pc \in {"copy", "swap"} => admin[a].keyRow[row] = "on"
       /\ admin[a].pc = "swap" => row[2] \in admin[a].prev

\* A request that resolved its pool in the registry in use is for a provider
\* that is routable there.
Routed(r) ==
  req[r].pc # "idle" /\ req[r].gen = registry.gen => req[r].key[1] \in registry.routable

DisableInv ==
  /\ \A row \in rejected : Disabled(row)
  /\ \A r \in Requests : Routed(r)

\* A mutation that has met no other is alone, the row it was asked to switch
\* on is the one it will revive, and it revives it in the live pools.
AloneInv ==
  /\ \A a \in Admins :
       /\ solo[a] /\ ~Idle(a) => \A b \in Admins \ {a} : Idle(b)
       /\ asked[a] = admin[a].revive
       /\ solo[a] /\ admin[a].pc = "revive" =>
            admin[a].gen = registry.gen /\ admin[a].routable = registry.routable

\* No rebuild under way has copied a disable that was lifted since.
Lifted(row) ==
  /\ row \in Rows /\ Exclusive(row)
  /\ row[2] \notin Live[row[1]].dead
  /\ \A a \in Admins : admin[a].pc = "swap" => row[2] \notin admin[a].prev

LiftInv == \A row \in lifted : Lifted(row)

\* The pools and the catalog show the database, or will when a mutation that
\* has met no other gets there.
PoolsInStep ==
  /\ registry.routable = Routable(status)
  /\ \A p \in registry.routable : Live[p].keys = EnabledKeys(keyRow, p)

CatalogInStep ==
  /\ catalog.valid => catalog.providers \subseteq Routable(status)
  /\ fetching.providers \subseteq Routable(status)

Follows(q) ==
  /\ q.pc \in {"keys", "copy", "swap"} => q.status = status
  /\ q.pc \in {"copy", "swap"} => q.keyRow = keyRow
  /\ q.pc \in {"clients", "ck", "access", "ua", "catalog", "find", "revive"} => PoolsInStep
  /\ q.pc = "ck" => q.seen = clientRow
  /\ q.pc \in {"access", "ua", "catalog", "find", "revive"} => clients = clientRow
  /\ q.pc = "ua" => q.seen = accessRow
  /\ q.pc \in {"catalog", "find", "revive"} => denied = accessRow
  /\ q.pc \in {"find", "revive"} => CatalogInStep

AllInStep == PoolsInStep /\ clients = clientRow /\ denied = accessRow /\ CatalogInStep

FollowInv ==
  /\ settled /\ AllIdle => AllInStep
  /\ \A a \in Admins : solo[a] => Follows(admin[a])

FailuresCounted == failures \in Nat

RebuildInv == WellFormed /\ FailuresCounted /\ DisableInv /\ AloneInv /\ LiftInv /\ FollowInv

-----------------------------------------------------------------------------
\* A rebuild always finds a number for its pools: at most one generation per
\* handler and request is held besides the live one.
LEMMA FreshGeneration ==
  ASSUME WellFormed
  PROVE  LET g == CHOOSE g \in Generations : g \notin InUse(registry.gen, admin, req)
         IN  g \in Generations /\ g \notin InUse(registry.gen, admin, req)
<1> DEFINE R == [r \in Requests |-> req[r].gen]
           A == [a \in Admins |-> admin[a].gen]
           RG == {req[r].gen : r \in Requests}
           AG == {admin[a].gen : a \in Admins}
           U == InUse(registry.gen, admin, req)
<1>1. IsFiniteSet(Admins) /\ IsFiniteSet(Requests)
  BY RebuildAssumption
<1>2. R \in Surjection(Requests, RG) /\ A \in Surjection(Admins, AG)
  BY DEF Surjection
<1>3. /\ IsFiniteSet(RG) /\ Cardinality(RG) <= Cardinality(Requests)
      /\ IsFiniteSet(AG) /\ Cardinality(AG) <= Cardinality(Admins)
  <2> HIDE DEF R, A, RG, AG
  <2> QED
    BY <1>1, <1>2, FS_Surjection
<1>4. IsFiniteSet({registry.gen}) /\ Cardinality({registry.gen}) = 1
  BY FS_Singleton
<1>5. U = ({registry.gen} \cup RG) \cup AG
  BY DEF InUse
<1>6. IsFiniteSet(U) /\ Cardinality(U) <= 1 + Cardinality(Requests) + Cardinality(Admins)
  <2> DEFINE LG == {registry.gen}
  <2> HIDE DEF RG, AG, U, LG
  <2>1. /\ Cardinality(RG) \in Nat /\ Cardinality(AG) \in Nat /\ Cardinality(LG) \in Nat
        /\ Cardinality(Requests) \in Nat /\ Cardinality(Admins) \in Nat
    BY <1>1, <1>3, <1>4, FS_CardinalityType DEF LG
  <2>2. /\ IsFiniteSet(LG \cup RG)
        /\ Cardinality(LG \cup RG) = Cardinality(LG) + Cardinality(RG) - Cardinality(LG \cap RG)
    BY <1>3, <1>4, FS_Union DEF LG
  <2>3. Cardinality(LG \cap RG) \in Nat
    BY <1>4, FS_Intersection, FS_CardinalityType DEF LG
  <2>4. Cardinality(LG \cup RG) <= 1 + Cardinality(Requests) /\ Cardinality(LG \cup RG) \in Nat
    <3>1. Cardinality(LG \cup RG) \in Nat
      BY <2>2, FS_CardinalityType
    <3>2. Cardinality(LG) = 1
      BY <1>4 DEF LG
    <3> QED
      BY <1>3, <2>1, <2>2, <2>3, <3>1, <3>2
  <2>5. /\ IsFiniteSet((LG \cup RG) \cup AG)
        /\ Cardinality((LG \cup RG) \cup AG) =
             Cardinality(LG \cup RG) + Cardinality(AG) - Cardinality((LG \cup RG) \cap AG)
    BY <1>3, <2>2, FS_Union
  <2>6. Cardinality((LG \cup RG) \cap AG) \in Nat
    BY <2>2, FS_Intersection, FS_CardinalityType
  <2>7. U = (LG \cup RG) \cup AG
    BY <1>5 DEF LG
  <2> QED
    BY <1>3, <2>1, <2>4, <2>5, <2>6, <2>7
<1>7. /\ IsFiniteSet(Generations)
      /\ Cardinality(Generations) = Cardinality(Admins) + Cardinality(Requests) + 2
  <2> DEFINE n == Cardinality(Admins) + Cardinality(Requests) + 2
  <2>1. n \in Nat /\ n >= 1
    BY <1>1, FS_CardinalityType
  <2> HIDE DEF n
  <2>2. IsFiniteSet(1 .. n) /\ Cardinality(1 .. n) = n
    BY <2>1, FS_Interval
  <2> QED
    BY <2>2 DEF n, Generations
<1>8. ~(Generations \subseteq U)
  <2> HIDE DEF U
  <2>1. Generations \subseteq U => Cardinality(Generations) <= Cardinality(U)
    BY <1>6, FS_Subset
  <2>2. Cardinality(U) \in Nat /\ Cardinality(Admins) \in Nat /\ Cardinality(Requests) \in Nat
    BY <1>1, <1>6, FS_CardinalityType
  <2> QED
    BY <1>6, <1>7, <2>1, <2>2
<1>9. \E g \in Generations : g \notin U
  BY <1>8
<1> HIDE DEF U
<1>10. LET g == CHOOSE g \in Generations : g \notin U IN g \in Generations /\ g \notin U
  BY <1>9
<1> QED
  BY <1>10 DEF U

\* Pools are built of the rows read, and only keys they have are disabled.
LEMMA BuiltPools ==
  ASSUME NEW read, NEW prev
  PROVE  /\ Built(read, prev) \in [Providers -> PoolState]
         /\ \A p \in Providers :
              /\ Built(read, prev)[p].keys = EnabledKeys(read, p)
              /\ Built(read, prev)[p].dead = EnabledKeys(read, p) \cap prev
  BY DEF Built, EnabledKeys, PoolState

\* A process without pools is well formed.
LEMMA NoPoolsTyped == NoPools \in [Providers -> PoolState]
  BY DEF NoPools, NoPool, PoolState

\* Collecting garbage leaves pools, and the pools in use as they are.
LEMMA CollectedPools ==
  ASSUME NEW ps \in [Generations -> [Providers -> PoolState]], NEW used
  PROVE  /\ Collected(ps, used) \in [Generations -> [Providers -> PoolState]]
         /\ \A g \in Generations \cap used : Collected(ps, used)[g] = ps[g]
  BY NoPoolsTyped DEF Collected

\* A handler that takes a step is left with a good mutation.
LEMMA MutationMoves ==
  ASSUME HandlersInv, NEW a \in Admins, NEW q, GoodMutation(q),
         admin' = [admin EXCEPT ![a] = q]
  PROVE  /\ HandlersInv' /\ admin'[a] = q
         /\ \A b \in Admins : b # a => admin'[b] = admin[b]
  BY DEF HandlersInv, GoodMutation, IdleAdmin

\* An admin request at rest is well formed.
LEMMA IdleAdminGood == GoodMutation(IdleAdmin) /\ IdleAdmin \in Mutation
  BY DEF GoodMutation, Mutation, IdleAdmin, Stages, States, NoProviders, NoKeys, NoRow

\* Requests keep what they hold while the keys of the pools stay.
LEMMA RequestsKeep ==
  ASSUME RequestsInv, req' = req,
         \A r \in Requests : req[r].pc = "call" =>
           pools'[req[r].gen][req[r].key[1]].keys = pools[req[r].gen][req[r].key[1]].keys
  PROVE  RequestsInv'
  BY DEF RequestsInv, GoodRequest

-----------------------------------------------------------------------------
\* The write of a mutation leaves everything but the tables and its handler
\* as it is, and the tables well formed.
LEMMA WriteKeeps ==
  ASSUME WellFormed, NEW a \in Admins, NEW revive \in Rows \cup {NoRow},
         Write(a, revive), TablesInv'
  PROVE  WellFormed'
<1> DEFINE q == [IdleAdmin EXCEPT !.pc = "providers", !.revive = revive]
<1>1. GoodMutation(q)
  <2>1. q \in Mutation
    BY IdleAdminGood DEF Mutation, Stages
  <2>2. q.pc = "providers"
    BY DEF IdleAdmin
  <2> HIDE DEF q
  <2> QED
    BY <2>1, <2>2 DEF GoodMutation
<1>2. admin' = [admin EXCEPT ![a] = q]
  BY DEF Write, Becomes
<1> HIDE DEF q
<1>3. HandlersInv'
  BY <1>1, <1>2, MutationMoves DEF WellFormed
<1>4. UNCHANGED <<pools, registry, catalog, fetching, req>>
  BY DEF Write, catalogVars
<1>5. PoolsInv' /\ RequestsInv'
  BY <1>4, RequestsKeep DEF WellFormed, PoolsInv
<1> QED
  BY <1>3, <1>5 DEF WellFormed

\* The store's mutations keep the state well formed.
LEMMA MutateKeeps ==
  ASSUME WellFormed, NEW a \in Admins, Mutate(a)
  PROVE  WellFormed'
<1> USE DEF States
<1>0. /\ NoRow \in Rows \cup {NoRow} /\ TablesInv /\ Zen \in Providers
      /\ Rows = Providers \X Keys
  BY RebuildAssumption DEF WellFormed, Rows
<1>1. CASE \E p \in Providers, ks \in (SUBSET Keys) \ {{}} : CreateProvider(a, p, ks)
  <2>1. PICK p \in Providers, ks \in (SUBSET Keys) \ {{}} : CreateProvider(a, p, ks)
    BY <1>1
  <2>2. Write(a, NoRow)
    BY <2>1 DEF CreateProvider
  <2>3. TablesInv'
    BY <1>0, <2>1 DEF TablesInv, CreateProvider, Write, caches
  <2> QED
    BY <1>0, <2>2, <2>3, WriteKeeps
<1>2. CASE \E p \in Providers : SwitchProvider(a, p)
  <2>1. PICK p \in Providers : SwitchProvider(a, p)
    BY <1>2
  <2>2. Write(a, NoRow)
    BY <2>1 DEF SwitchProvider
  <2>3. TablesInv'
    BY <1>0, <2>1 DEF TablesInv, SwitchProvider, Write, caches
  <2> QED
    BY <1>0, <2>2, <2>3, WriteKeeps
<1>3. CASE \E p \in Providers : DeleteProvider(a, p)
  <2>1. PICK p \in Providers : DeleteProvider(a, p)
    BY <1>3
  <2>2. Write(a, NoRow)
    BY <2>1 DEF DeleteProvider
  <2>3. TablesInv'
    BY <1>0, <2>1 DEF TablesInv, DeleteProvider, Write, caches
  <2> QED
    BY <1>0, <2>2, <2>3, WriteKeeps
<1>4. CASE \E row \in Rows : AddKey(a, row)
  <2>1. PICK row \in Rows : AddKey(a, row)
    BY <1>4
  <2>2. Write(a, NoRow)
    BY <2>1 DEF AddKey
  <2>3. TablesInv'
    BY <1>0, <2>1 DEF TablesInv, AddKey, Write, caches
  <2> QED
    BY <1>0, <2>2, <2>3, WriteKeeps
<1>5. CASE \E row \in Rows, to \in {"on", "off"} : SwitchKey(a, row, to)
  <2>1. PICK row \in Rows, to \in {"on", "off"} : SwitchKey(a, row, to)
    BY <1>5
  <2>2. Write(a, row) \/ Write(a, NoRow)
    BY <2>1 DEF SwitchKey
  <2>3. TablesInv'
    BY <1>0, <2>1, <2>2 DEF TablesInv, SwitchKey, Write, caches
  <2> QED
    BY <1>0, <2>2, <2>3, WriteKeeps
<1>6. CASE \E row \in Rows : DeleteKey(a, row)
  <2>1. PICK row \in Rows : DeleteKey(a, row)
    BY <1>6
  <2>2. Write(a, NoRow)
    BY <2>1 DEF DeleteKey
  <2>3. TablesInv'
    BY <1>0, <2>1 DEF TablesInv, DeleteKey, Write, caches
  <2> QED
    BY <1>0, <2>2, <2>3, WriteKeeps
<1>7. CASE \E c \in ClientKeys : SwitchClient(a, c)
  <2>1. PICK c \in ClientKeys : SwitchClient(a, c)
    BY <1>7
  <2>2. Write(a, NoRow)
    BY <2>1 DEF SwitchClient
  <2>3. TablesInv'
    BY <1>0, <2>1 DEF TablesInv, SwitchClient, Write, caches
  <2> QED
    BY <1>0, <2>2, <2>3, WriteKeeps
<1>8. CASE \E c \in ClientKeys, p \in Providers : SwitchAccess(a, c, p)
  <2>1. PICK c \in ClientKeys, p \in Providers : SwitchAccess(a, c, p)
    BY <1>8
  <2>2. Write(a, NoRow)
    BY <2>1 DEF SwitchAccess
  <2>3. TablesInv'
    BY <1>0, <2>1 DEF TablesInv, SwitchAccess, Write, caches
  <2> QED
    BY <1>0, <2>2, <2>3, WriteKeeps
<1> QED
  BY <1>1, <1>2, <1>3, <1>4, <1>5, <1>6, <1>7, <1>8 DEF Mutate

\* A handler that reads, or gives up, changes nothing but itself.
LEMMA LocalStepKeeps ==
  ASSUME WellFormed, NEW a \in Admins, NEW q, GoodMutation(q),
         admin' = [admin EXCEPT ![a] = q], TablesInv', PoolsInv', pools' = pools, req' = req
  PROVE  WellFormed'
  BY MutationMoves, RequestsKeep DEF WellFormed

\* A rebuild's reads keep the state well formed.
LEMMA ReadsKeep ==
  ASSUME WellFormed, NEW a \in Admins,
         ListProviders(a) \/ ListKeys(a) \/ CopyStates(a) \/ ReadClients(a) \/ ReadAccess(a)
  PROVE  WellFormed'
<1> DEFINE m == admin[a]
<1>0. /\ m \in Mutation /\ GoodMutation(m)
      /\ Preserved \subseteq Keys
  BY DEF WellFormed, HandlersInv, Preserved
<1>1. UNCHANGED <<store, pools, registry, caches, catalogVars, req>>
  BY DEF ListProviders, ListKeys, CopyStates, ReadClients, ReadAccess
<1>2. TablesInv' /\ PoolsInv' /\ pools' = pools /\ req' = req
  BY <1>1 DEF WellFormed, TablesInv, PoolsInv, store, caches, catalogVars
<1>3. CASE ListProviders(a)
  <2> DEFINE q == [m EXCEPT !.pc = "keys", !.status = status]
  <2>1. q \in Mutation
    BY <1>0 DEF Mutation, Stages, WellFormed, TablesInv
  <2>2. q.pc = "keys" /\ q.status = status
    BY <1>0 DEF Mutation
  <2>3. admin' = [admin EXCEPT ![a] = q]
    BY <1>3 DEF ListProviders, Becomes
  <2> HIDE DEF q
  <2>4. GoodMutation(q)
    BY <2>1, <2>2 DEF GoodMutation, WellFormed, TablesInv
  <2> QED
    BY <1>2, <2>3, <2>4, LocalStepKeeps
<1>4. CASE ListKeys(a)
  <2> DEFINE q == [m EXCEPT !.pc = "copy", !.keyRow = keyRow]
  <2>1. q \in Mutation
    BY <1>0 DEF Mutation, Stages, WellFormed, TablesInv
  <2>2. q.pc = "copy" /\ q.status = m.status /\ m.pc = "keys"
    BY <1>0, <1>4 DEF Mutation, ListKeys
  <2>3. admin' = [admin EXCEPT ![a] = q]
    BY <1>4 DEF ListKeys, Becomes
  <2> HIDE DEF q
  <2>4. GoodMutation(q)
    BY <1>0, <2>1, <2>2 DEF GoodMutation
  <2> QED
    BY <1>2, <2>3, <2>4, LocalStepKeeps
<1>5. CASE CopyStates(a)
  <2> DEFINE q == [m EXCEPT !.pc = "swap", !.prev = Preserved]
  <2>1. q \in Mutation
    BY <1>0 DEF Mutation, Stages
  <2>2. q.pc = "swap" /\ q.status = m.status /\ m.pc = "copy"
    BY <1>0, <1>5 DEF Mutation, CopyStates
  <2>3. admin' = [admin EXCEPT ![a] = q]
    BY <1>5 DEF CopyStates, Becomes
  <2> HIDE DEF q
  <2>4. GoodMutation(q)
    BY <1>0, <2>1, <2>2 DEF GoodMutation
  <2> QED
    BY <1>2, <2>3, <2>4, LocalStepKeeps
<1>6. CASE ReadClients(a)
  <2> DEFINE q == [m EXCEPT !.pc = "ck", !.seen = clientRow]
  <2>1. q \in Mutation
    BY <1>0 DEF Mutation, Stages, WellFormed, TablesInv
  <2>2. q.pc = "ck" /\ q.seen = clientRow
    BY <1>0 DEF Mutation
  <2>3. admin' = [admin EXCEPT ![a] = q]
    BY <1>6 DEF ReadClients, Becomes
  <2> HIDE DEF q
  <2>4. GoodMutation(q)
    BY <2>1, <2>2 DEF GoodMutation, WellFormed, TablesInv
  <2> QED
    BY <1>2, <2>3, <2>4, LocalStepKeeps
<1>7. CASE ReadAccess(a)
  <2> DEFINE q == [m EXCEPT !.pc = "ua", !.seen = accessRow]
  <2>1. q \in Mutation
    BY <1>0 DEF Mutation, Stages, WellFormed, TablesInv
  <2>2. q.pc = "ua" /\ q.seen = accessRow
    BY <1>0 DEF Mutation
  <2>3. admin' = [admin EXCEPT ![a] = q]
    BY <1>7 DEF ReadAccess, Becomes
  <2> HIDE DEF q
  <2>4. GoodMutation(q)
    BY <2>1, <2>2 DEF GoodMutation, WellFormed, TablesInv
  <2> QED
    BY <1>2, <2>3, <2>4, LocalStepKeeps
<1> QED
  BY <1>3, <1>4, <1>5, <1>6, <1>7

\* Swapping in the caches, and a rebuild that fails, keep it well formed.
LEMMA InstallsKeep ==
  ASSUME WellFormed, NEW a \in Admins,
         \/ InstallClients(a) \/ InstallAccess(a)
         \/ DropCatalog(a) \/ FindRevived(a) \/ RebuildFails(a)
  PROVE  WellFormed'
<1> DEFINE m == admin[a]
<1>0. m \in Mutation /\ GoodMutation(m)
  BY DEF WellFormed, HandlersInv
<1>1. UNCHANGED <<store, pools, registry, req>>
  BY DEF InstallClients, InstallAccess, DropCatalog, FindRevived, RebuildFails
<1>2. GoodMutation(IdleAdmin)
  BY IdleAdminGood
<1>3. CASE InstallClients(a)
  <2> DEFINE q == [m EXCEPT !.pc = "access", !.seen = {}]
  <2>1. q \in Mutation
    BY <1>0 DEF Mutation, Stages
  <2>2. q.pc = "access" /\ m.pc = "ck"
    BY <1>0, <1>3 DEF Mutation, InstallClients
  <2>3. admin' = [admin EXCEPT ![a] = q] /\ clients' = m.seen
    BY <1>3 DEF InstallClients, Becomes
  <2> HIDE DEF q
  <2>4. GoodMutation(q)
    BY <2>1, <2>2 DEF GoodMutation
  <2>5. m.seen \subseteq ClientKeys
    BY <1>0, <2>2 DEF GoodMutation
  <2>6. TablesInv' /\ PoolsInv'
    BY <1>1, <1>3, <2>3, <2>5
      DEF WellFormed, TablesInv, PoolsInv, InstallClients, store, catalogVars
  <2> QED
    BY <1>1, <2>3, <2>4, <2>6, LocalStepKeeps
<1>4. CASE InstallAccess(a)
  <2> DEFINE q == [m EXCEPT !.pc = "catalog", !.seen = {}]
  <2>1. q \in Mutation
    BY <1>0 DEF Mutation, Stages
  <2>2. q.pc = "catalog" /\ m.pc = "ua"
    BY <1>0, <1>4 DEF Mutation, InstallAccess
  <2>3. admin' = [admin EXCEPT ![a] = q] /\ denied' = m.seen
    BY <1>4 DEF InstallAccess, Becomes
  <2> HIDE DEF q
  <2>4. GoodMutation(q)
    BY <2>1, <2>2 DEF GoodMutation
  <2>5. m.seen \subseteq ClientKeys \X Providers
    BY <1>0, <2>2 DEF GoodMutation
  <2>6. TablesInv' /\ PoolsInv'
    BY <1>1, <1>4, <2>3, <2>5
      DEF WellFormed, TablesInv, PoolsInv, InstallAccess, store, catalogVars
  <2> QED
    BY <1>1, <2>3, <2>4, <2>6, LocalStepKeeps
<1>5. CASE DropCatalog(a)
  <2> DEFINE q == [m EXCEPT !.pc = "find"]
  <2>1. q \in Mutation
    BY <1>0 DEF Mutation, Stages
  <2>2. q.pc = "find" /\ q.revive = m.revive /\ m.revive \in Rows \cup {NoRow}
    BY <1>0 DEF Mutation
  <2>3. admin' = [admin EXCEPT ![a] = IF m.revive = NoRow THEN IdleAdmin ELSE q]
    BY <1>5 DEF DropCatalog, Becomes
  <2> HIDE DEF q
  <2>4. m.revive # NoRow => GoodMutation(q)
    BY <2>1, <2>2 DEF GoodMutation
  <2>5. Dropped \in Catalogs
    BY DEF Dropped, Catalogs
  <2>6. TablesInv' /\ PoolsInv'
    BY <1>1, <1>5, <2>5 DEF WellFormed, TablesInv, PoolsInv, DropCatalog, store, caches
  <2> QED
    BY <1>1, <1>2, <2>3, <2>4, <2>6, LocalStepKeeps
<1>6. CASE FindRevived(a)
  <2> DEFINE q == [m EXCEPT !.pc = "revive", !.gen = registry.gen,
                            !.routable = registry.routable]
  <2>0. registry.gen \in Generations /\ registry.routable \subseteq Providers
    BY DEF WellFormed, PoolsInv
  <2>1. q \in Mutation
    BY <1>0, <2>0 DEF Mutation, Stages
  <2>2. /\ q.pc = "revive" /\ q.revive = m.revive /\ m.pc = "find"
        /\ q.gen = registry.gen
    BY <1>0, <1>6 DEF Mutation, FindRevived
  <2>3. admin' = [admin EXCEPT ![a] = IF keyRow[m.revive] = "none" THEN IdleAdmin ELSE q]
    BY <1>6 DEF FindRevived, Becomes
  <2> HIDE DEF q
  <2>4. GoodMutation(q)
    BY <1>0, <2>0, <2>1, <2>2 DEF GoodMutation
  <2>5. TablesInv' /\ PoolsInv'
    BY <1>1, <1>6 DEF WellFormed, TablesInv, PoolsInv, FindRevived, store, caches, catalogVars
  <2> QED
    BY <1>1, <1>2, <2>3, <2>4, <2>5, LocalStepKeeps
<1>7. CASE RebuildFails(a)
  <2>1. admin' = [admin EXCEPT ![a] = IdleAdmin]
    BY <1>7 DEF RebuildFails, Becomes
  <2>2. TablesInv' /\ PoolsInv'
    BY <1>1, <1>7 DEF WellFormed, TablesInv, PoolsInv, RebuildFails, store, caches, catalogVars
  <2> QED
    BY <1>1, <1>2, <2>1, <2>2, LocalStepKeeps
<1> QED
  BY <1>3, <1>4, <1>5, <1>6, <1>7

-----------------------------------------------------------------------------
\* The rows of the providers a rebuild has read.
Read(q) == [row \in Rows |-> IF q.status[row[1]] = "none" THEN "none" ELSE q.keyRow[row]]

\* A swap puts new pools under a free number; the pools that are held stay.
LEMMA SwapEffect ==
  ASSUME WellFormed, NEW a \in Admins, Swap(a)
  PROVE  /\ PoolsInv'
         /\ registry'.routable = Routable(admin[a].status)
         /\ pools'[registry'.gen] = Built(Read(admin[a]), admin[a].prev)
         /\ registry'.gen \in Generations
         /\ \A r \in Requests : req[r].gen \in Generations => pools'[req[r].gen] = pools[req[r].gen]
         /\ \A r \in Requests : req[r].gen # registry'.gen
<1> DEFINE m == admin[a]
           g == CHOOSE x \in Generations : x \notin InUse(registry.gen, admin, req)
           ps == [pools EXCEPT ![g] = Built(Read(m), m.prev)]
           next == [admin EXCEPT ![a] = [IdleAdmin EXCEPT !.pc = "clients", !.revive = m.revive]]
           used == InUse(g, next, req)
<1>1. g \in Generations /\ g \notin InUse(registry.gen, admin, req)
  BY FreshGeneration
<1>2. /\ pools' = Collected(ps, used)
      /\ registry' = [gen |-> g, routable |-> Routable(m.status)]
      /\ admin' = next
      /\ UNCHANGED <<catalog, fetching>>
  BY Zenon DEF Swap, Read, catalogVars
<1>3. g \in used /\ \A r \in Requests : req[r].gen \in used
  BY DEF InUse
<1>4. \A r \in Requests : req[r].gen # g
  BY <1>1 DEF InUse
<1>5. pools \in [Generations -> [Providers -> PoolState]]
  BY DEF WellFormed, PoolsInv
<1> HIDE DEF g, used
<1>6. ps \in [Generations -> [Providers -> PoolState]]
  BY <1>5, BuiltPools
<1>7. /\ ps[g] = Built(Read(m), m.prev)
      /\ \A h \in Generations : h # g => ps[h] = pools[h]
  BY <1>1, <1>5
<1> HIDE DEF ps
<1>8. /\ pools' \in [Generations -> [Providers -> PoolState]]
      /\ \A h \in Generations \cap used : pools'[h] = ps[h]
  BY <1>2, <1>6, CollectedPools
<1>9. Routable(m.status) \subseteq Providers
  BY DEF Routable
<1>10. PoolsInv'
  BY <1>1, <1>2, <1>8, <1>9 DEF WellFormed, PoolsInv
<1> QED
  BY <1>1, <1>2, <1>3, <1>4, <1>7, <1>8, <1>10

\* The swap of the pools keeps it well formed.
LEMMA SwapKeeps ==
  ASSUME WellFormed, NEW a \in Admins, Swap(a)
  PROVE  WellFormed'
<1> DEFINE m == admin[a]
           q == [IdleAdmin EXCEPT !.pc = "clients", !.revive = m.revive]
<1>1. m \in Mutation
  BY DEF WellFormed, HandlersInv
<1>2. q \in Mutation /\ q.pc = "clients"
  BY <1>1, IdleAdminGood DEF Mutation, Stages
<1>3. admin' = [admin EXCEPT ![a] = q] /\ UNCHANGED <<store, caches, req>>
  BY DEF Swap
<1> HIDE DEF q
<1>4. GoodMutation(q)
  BY <1>2 DEF GoodMutation
<1>5. HandlersInv' /\ TablesInv'
  BY <1>3, <1>4, MutationMoves DEF WellFormed, TablesInv, store, caches
<1>6. PoolsInv'
  BY SwapEffect
<1>7. \A r \in Requests : req[r].gen \in Generations => pools'[req[r].gen] = pools[req[r].gen]
  BY SwapEffect
<1>8. \A r \in Requests : req[r].pc = "call" => req[r].gen \in Generations
  BY DEF WellFormed, RequestsInv, GoodRequest
<1>9. RequestsInv'
  BY <1>3, <1>7, <1>8, RequestsKeep DEF WellFormed
<1> QED
  BY <1>5, <1>6, <1>9 DEF WellFormed

\* A revival only takes the key out of the disabled ones of the pools found.
LEMMA ReviveEffect ==
  ASSUME WellFormed, NEW a \in Admins, Revive(a)
  PROVE  /\ PoolsInv' /\ admin[a].revive \in Rows /\ admin[a].gen \in Generations
         /\ \A r \in Requests, p \in Providers : req[r].gen \in Generations =>
              pools'[req[r].gen][p].keys = pools[req[r].gen][p].keys
         /\ \A p \in Providers :
              /\ Live'[p].keys = Live[p].keys
              /\ Live'[p].dead =
                    IF admin[a].gen = registry.gen /\ p \in admin[a].routable
                    THEN Live[p].dead \ {admin[a].revive[2]} ELSE Live[p].dead
<1> DEFINE m == admin[a]
           k == m.revive[2]
           on == [p \in Providers |->
                    IF p \in m.routable THEN [pools[m.gen][p] EXCEPT !.dead = @ \ {k}]
                                        ELSE pools[m.gen][p]]
           ps == [pools EXCEPT ![m.gen] = on]
           next == [admin EXCEPT ![a] = IdleAdmin]
           used == InUse(registry.gen, next, req)
<1>0. m.revive \in Rows /\ m.gen \in Generations
  BY DEF WellFormed, HandlersInv, GoodMutation, Revive
<1>1. pools' = Collected(ps, used) /\ UNCHANGED <<registry, catalog, fetching>>
  BY Zenon DEF Revive, catalogVars
<1>2. registry.gen \in used /\ \A r \in Requests : req[r].gen \in used
  BY DEF InUse
<1>3. /\ pools \in [Generations -> [Providers -> PoolState]]
      /\ registry.gen \in Generations
  BY DEF WellFormed, PoolsInv
<1>4. \A p \in Providers :
        /\ pools[m.gen][p] \in PoolState
        /\ [pools[m.gen][p] EXCEPT !.dead = @ \ {k}] \in PoolState
        /\ [pools[m.gen][p] EXCEPT !.dead = @ \ {k}].keys = pools[m.gen][p].keys
        /\ [pools[m.gen][p] EXCEPT !.dead = @ \ {k}].dead = pools[m.gen][p].dead \ {k}
  <2>1. ASSUME NEW s \in PoolState
        PROVE  LET t == [s EXCEPT !.dead = @ \ {k}]
               IN  t \in PoolState /\ t.keys = s.keys /\ t.dead = s.dead \ {k}
    BY DEF PoolState
  <2>2. \A p \in Providers : pools[m.gen][p] \in PoolState
    BY <1>0, <1>3
  <2> QED
    BY Zenon, <2>1, <2>2
<1>5. /\ on \in [Providers -> PoolState]
      /\ \A p \in Providers :
           /\ on[p].keys = pools[m.gen][p].keys
           /\ on[p].dead = IF p \in m.routable THEN pools[m.gen][p].dead \ {k}
                                                ELSE pools[m.gen][p].dead
  BY <1>4
<1> HIDE DEF on, used
<1>6. /\ ps \in [Generations -> [Providers -> PoolState]]
      /\ ps[m.gen] = on /\ \A h \in Generations : h # m.gen => ps[h] = pools[h]
  BY <1>0, <1>3, <1>5
<1> HIDE DEF ps
<1>7. /\ pools' \in [Generations -> [Providers -> PoolState]]
      /\ \A h \in Generations \cap used : pools'[h] = ps[h]
  <2>1. /\ Collected(ps, used) \in [Generations -> [Providers -> PoolState]]
        /\ \A g \in Generations \cap used : Collected(ps, used)[g] = ps[g]
    BY Zenon, <1>6, CollectedPools
  <2> QED
    BY Zenon, <1>1, <2>1
<1>8. PoolsInv'
  BY <1>1, <1>7 DEF WellFormed, PoolsInv
<1>9. \A r \in Requests, p \in Providers : req[r].gen \in Generations =>
        pools'[req[r].gen][p].keys = pools[req[r].gen][p].keys
  <2>1. \A g \in Generations, p \in Providers : ps[g][p].keys = pools[g][p].keys
    BY <1>0, <1>5, <1>6
  <2> QED
    BY Zenon, <1>2, <1>7, <2>1
<1>10. Live' = ps[registry.gen] /\ Live = pools[registry.gen]
  <2>1. registry' = registry
    BY <1>1
  <2>2. pools'[registry.gen] = ps[registry.gen]
    BY Zenon, <1>2, <1>3, <1>7
  <2> QED
    BY Zenon, <2>1, <2>2 DEF Live
<1>11. ASSUME NEW p \in Providers
      PROVE  /\ Live'[p].keys = Live[p].keys
             /\ Live'[p].dead = IF m.gen = registry.gen /\ p \in m.routable
                                THEN Live[p].dead \ {k} ELSE Live[p].dead
  BY <1>3, <1>5, <1>6, <1>10
<1> QED
  BY <1>0, <1>8, <1>9, <1>11

\* Enabling a revived key in the live pool keeps it well formed.
LEMMA ReviveKeeps ==
  ASSUME WellFormed, NEW a \in Admins, Revive(a)
  PROVE  WellFormed'
<1>1. admin' = [admin EXCEPT ![a] = IdleAdmin] /\ UNCHANGED <<store, caches, req>>
  BY DEF Revive
<1>2. HandlersInv' /\ TablesInv'
  BY <1>1, IdleAdminGood, MutationMoves DEF WellFormed, TablesInv, store, caches
<1>3. PoolsInv'
  BY ReviveEffect
<1>4. \A r \in Requests : req[r].pc = "call" =>
        req[r].gen \in Generations /\ req[r].key[1] \in Providers
  BY DEF WellFormed, RequestsInv, GoodRequest, Rows
<1>5. RequestsInv'
  BY <1>1, <1>4, ReviveEffect, RequestsKeep DEF WellFormed
<1> QED
  BY <1>2, <1>3, <1>5 DEF WellFormed

\* A rejection disables the key in the pool the request holds, nothing else.
LEMMA RejectedEffect ==
  ASSUME WellFormed, NEW r \in Requests, Rejected(r)
  PROVE  /\ PoolsInv' /\ req[r].key \in Rows /\ req[r].gen \in Generations
         /\ req[r].key[2] \in pools[req[r].gen][req[r].key[1]].keys
         /\ \A g \in Generations, p \in Providers :
              /\ pools'[g][p].keys = pools[g][p].keys
              /\ pools'[g][p].dead =
                   IF g = req[r].gen /\ p = req[r].key[1]
                   THEN pools[g][p].dead \cup {req[r].key[2]} ELSE pools[g][p].dead
<1> DEFINE q == req[r]
           pool == pools[q.gen][q.key[1]]
           shut == [pool EXCEPT !.dead = @ \cup {q.key[2]}]
<1>1. /\ q.key \in Rows /\ q.gen \in Generations /\ q.key[2] \in pool.keys
      /\ q.key[1] \in Providers /\ q.key[2] \in Keys
  BY DEF Rejected, WellFormed, RequestsInv, GoodRequest, Rows
<1>2. pools \in [Generations -> [Providers -> PoolState]]
  BY DEF WellFormed, PoolsInv
<1>3. pool \in PoolState
  BY <1>1, <1>2
<1>4. shut \in PoolState /\ shut.keys = pool.keys /\ shut.dead = pool.dead \cup {q.key[2]}
  <2> HIDE DEF pool
  <2> QED
    BY <1>1, <1>3 DEF PoolState
<1>5. pools' = [pools EXCEPT ![q.gen][q.key[1]] = shut]
  <2>1. pools' = [pools EXCEPT ![q.gen][q.key[1]].dead = @ \cup {q.key[2]}]
    BY Zenon DEF Rejected
  <2> QED
    BY <1>1, <1>2, <2>1
<1> HIDE DEF shut
<1>6. pools' \in [Generations -> [Providers -> PoolState]]
  BY <1>1, <1>2, <1>4, <1>5
<1>7. UNCHANGED <<registry, catalog, fetching>>
  BY DEF Rejected, catalogVars
<1>8. PoolsInv'
  BY <1>6, <1>7 DEF WellFormed, PoolsInv
<1>9. ASSUME NEW g \in Generations, NEW p \in Providers
      PROVE  pools'[g][p] = IF g = q.gen /\ p = q.key[1] THEN shut ELSE pools[g][p]
  BY <1>1, <1>2, <1>5
<1> QED
  BY <1>1, <1>4, <1>8, <1>9

\* No pool loses a disable to a rejection, and none gains another key's.
LEMMA RejectedGrows ==
  ASSUME WellFormed, NEW r \in Requests, Rejected(r), NEW g \in Generations, NEW p \in Providers
  PROVE  /\ pools[g][p].dead \subseteq pools'[g][p].dead
         /\ pools'[g][p].dead \subseteq pools[g][p].dead \cup {req[r].key[2]}
<1>1. pools'[g][p].dead =
        IF g = req[r].gen /\ p = req[r].key[1]
        THEN pools[g][p].dead \cup {req[r].key[2]} ELSE pools[g][p].dead
  BY Zenon, RejectedEffect
<1> QED
  BY <1>1

\* A request that takes a step is left as a good one.
LEMMA RequestMoves ==
  ASSUME WellFormed, NEW r \in Requests, NEW q, GoodRequest(q, pools'),
         req' = [req EXCEPT ![r] = q],
         \A s \in Requests : s # r /\ req[s].pc = "call" =>
           pools'[req[s].gen][req[s].key[1]].keys = pools[req[s].gen][req[s].key[1]].keys
  PROVE  RequestsInv'
<1>1. req \in [Requests -> Request] /\ q \in Request
  BY DEF WellFormed, RequestsInv, GoodRequest
<1>2. ASSUME NEW s \in Requests
      PROVE  GoodRequest(req'[s], pools')
  <2>1. CASE s = r
    BY <1>1, <2>1
  <2>2. CASE s # r
    <3>1. req'[s] = req[s] /\ GoodRequest(req[s], pools)
      BY <1>1, <2>2 DEF WellFormed, RequestsInv
    <3> QED
      BY <2>2, <3>1 DEF GoodRequest
  <2> QED
    BY <2>1, <2>2
<1> QED
  BY <1>1, <1>2 DEF RequestsInv

\* A client request at rest holds no pool.
LEMMA IdleRequestGood == ASSUME NEW ps PROVE GoodRequest(IdleRequest, ps)
  BY DEF GoodRequest, IdleRequest, Request

\* Every step of a client request keeps the state well formed.
LEMMA ServeKeeps ==
  ASSUME WellFormed, NEW r \in Requests, Serve(r)
  PROVE  WellFormed'
<1> DEFINE q0 == req[r]
<1>0. /\ req \in [Requests -> Request] /\ GoodRequest(q0, pools)
      /\ registry.gen \in Generations /\ registry.routable \subseteq Providers
  BY DEF WellFormed, RequestsInv, PoolsInv
<1>1. UNCHANGED <<store, registry, caches, catalogVars, admin>>
  BY DEF Serve, Arrive, PickKey, Rejected, End
<1>2. TablesInv' /\ HandlersInv'
  BY <1>1 DEF WellFormed, TablesInv, HandlersInv, store, caches
<1>3. ASSUME NEW c \in ClientKeys, NEW p \in Providers, Arrive(r, c, p)
      PROVE  WellFormed'
  <2> DEFINE q == [pc |-> "pick", gen |-> registry.gen, key |-> <<p>>]
  <2>1. GoodRequest(q, pools')
    BY <1>0 DEF GoodRequest, Request
  <2>2. req' = [req EXCEPT ![r] = q] /\ UNCHANGED pools
    BY <1>3 DEF Arrive, Moves
  <2> HIDE DEF q
  <2>3. RequestsInv'
    BY <2>1, <2>2, RequestMoves
  <2>4. PoolsInv'
    BY <1>1, <2>2 DEF WellFormed, PoolsInv, catalogVars
  <2> QED
    BY <1>2, <2>3, <2>4 DEF WellFormed
<1>4. ASSUME NEW k \in Keys, PickKey(r, k)
      PROVE  WellFormed'
  <2> DEFINE p == q0.key[1]
             q == [q0 EXCEPT !.pc = "call", !.key = <<p, k>>]
  <2>1. /\ q0.pc = "pick" /\ k \in pools[q0.gen][p].keys /\ req' = [req EXCEPT ![r] = q]
        /\ UNCHANGED pools
    BY <1>4 DEF PickKey, Moves
  <2>2. q0 \in Request /\ q0.gen \in Generations /\ p \in Providers
    BY <1>0, <2>1 DEF GoodRequest
  <2>3. <<p, k>> \in Rows /\ <<p, k>>[1] = p /\ <<p, k>>[2] = k
    BY <2>2 DEF Rows
  <2> HIDE DEF p
  <2>4. q \in Request /\ q.pc = "call" /\ q.gen = q0.gen /\ q.key = <<p, k>>
    BY <2>2, <2>3 DEF Request
  <2> HIDE DEF q
  <2>5. GoodRequest(q, pools')
    BY <2>1, <2>2, <2>3, <2>4 DEF GoodRequest
  <2>6. RequestsInv'
    BY <2>1, <2>5, RequestMoves
  <2>7. PoolsInv'
    BY <1>1, <2>1 DEF WellFormed, PoolsInv, catalogVars
  <2> QED
    BY <1>2, <2>6, <2>7 DEF WellFormed
<1>5. CASE Rejected(r)
  <2> DEFINE q == [q0 EXCEPT !.pc = "pick", !.key = <<q0.key[1]>>]
  <2>1. q0.pc = "call" /\ req' = [req EXCEPT ![r] = q]
    BY <1>5 DEF Rejected, Moves
  <2>2. q0 \in Request /\ q0.gen \in Generations /\ q0.key[1] \in Providers
    BY <1>0, <2>1 DEF GoodRequest, Rows
  <2>3. q \in Request /\ q.pc = "pick" /\ q.gen = q0.gen /\ q.key = <<q0.key[1]>>
    BY <2>2 DEF Request
  <2> HIDE DEF q
  <2>4. GoodRequest(q, pools')
    BY <2>2, <2>3 DEF GoodRequest
  <2>5. \A s \in Requests : req[s].pc = "call" =>
          req[s].gen \in Generations /\ req[s].key[1] \in Providers
    BY DEF WellFormed, RequestsInv, GoodRequest, Rows
  <2>6. RequestsInv' /\ PoolsInv'
    <3>1. /\ PoolsInv'
          /\ \A g \in Generations, p \in Providers : pools'[g][p].keys = pools[g][p].keys
      BY <1>5, RejectedEffect
    <3>2. \A s \in Requests : s # r /\ req[s].pc = "call" =>
            pools'[req[s].gen][req[s].key[1]].keys = pools[req[s].gen][req[s].key[1]].keys
      BY Zenon, <2>5, <3>1
    <3>3. RequestsInv'
      BY <2>1, <2>4, <3>2, RequestMoves
    <3> QED
      BY <3>1, <3>3
  <2> QED
    BY <1>2, <2>6 DEF WellFormed
<1>6. CASE End(r)
  <2> DEFINE next == [req EXCEPT ![r] = IdleRequest]
             used == InUse(registry.gen, admin, next)
  <2>1. req' = next /\ pools' = Collected(pools, used)
    BY <1>6, Zenon DEF End
  <2>2. pools \in [Generations -> [Providers -> PoolState]]
    BY DEF WellFormed, PoolsInv
  <2>3. \A s \in Requests : s # r => req[s].gen \in used
    <3>1. \A s \in Requests : s # r => next[s] = req[s]
      BY <1>0
    <3> HIDE DEF next
    <3> QED
      BY <3>1 DEF InUse
  <2> HIDE DEF used
  <2>4. /\ pools' \in [Generations -> [Providers -> PoolState]]
        /\ \A g \in Generations \cap used : pools'[g] = pools[g]
    BY <2>1, <2>2, CollectedPools
  <2>5. \A s \in Requests : req[s].pc = "call" => req[s].gen \in Generations
    BY DEF WellFormed, RequestsInv, GoodRequest
  <2>6. RequestsInv'
    BY <2>1, <2>3, <2>4, <2>5, IdleRequestGood, RequestMoves
  <2>7. PoolsInv'
    BY <1>1, <2>4 DEF WellFormed, PoolsInv, catalogVars
  <2> QED
    BY <1>2, <2>6, <2>7 DEF WellFormed
<1> QED
  BY <1>3, <1>4, <1>5, <1>6 DEF Serve

\* Fetching and caching the catalog keep it well formed.
LEMMA CatalogKeeps ==
  ASSUME WellFormed,
         FetchCatalog \/ \E reached \in SUBSET Providers : CacheCatalog(reached)
  PROVE  WellFormed'
<1>1. UNCHANGED <<store, pools, registry, caches, admin, req>>
  BY DEF FetchCatalog, CacheCatalog
<1>2. TablesInv' /\ HandlersInv' /\ RequestsInv'
  BY <1>1 DEF WellFormed, TablesInv, HandlersInv, RequestsInv, store, caches
<1>3. Dropped \in Catalogs /\ \A ps \in SUBSET Providers : Offered(ps) \in Catalogs
  BY DEF Dropped, Offered, Catalogs
<1>4. catalog \in Catalogs /\ fetching \in Catalogs /\ registry.routable \subseteq Providers
  BY DEF WellFormed, PoolsInv
<1>5. catalog' \in Catalogs /\ fetching' \in Catalogs
  <2>1. CASE FetchCatalog
    BY <1>3, <1>4, <2>1 DEF FetchCatalog
  <2>2. CASE \E reached \in SUBSET Providers : CacheCatalog(reached)
    <3>1. PICK reached \in SUBSET Providers : CacheCatalog(reached)
      BY <2>2
    <3>2. catalog' \in {Offered(reached), catalog, Dropped} /\ fetching' = Dropped
      BY <3>1 DEF CacheCatalog
    <3> QED
      BY <1>3, <1>4, <3>2
  <2> QED
    BY <2>1, <2>2
<1> QED
  BY <1>1, <1>2, <1>5 DEF WellFormed, PoolsInv

\* After a start there is one generation, built of the database.
LEMMA StartedPools ==
  ASSUME NEW rows
  PROVE  LET ps == [g \in Generations |-> IF g = 1 THEN Built(rows, {}) ELSE NoPools]
         IN  /\ ps \in [Generations -> [Providers -> PoolState]]
             /\ 1 \in Generations /\ ps[1] = Built(rows, {})
<1>1. 1 \in Generations
  <2>1. Cardinality(Admins) \in Nat /\ Cardinality(Requests) \in Nat
    BY RebuildAssumption, FS_CardinalityType
  <2> QED
    BY <2>1 DEF Generations
<1> QED
  BY <1>1, BuiltPools, NoPoolsTyped

\* A restart keeps it well formed.
LEMMA RestartKeeps ==
  ASSUME WellFormed, Restart
  PROVE  WellFormed'
<1>1. TablesInv'
  BY DEF WellFormed, TablesInv, Restart, store
<1>2. Dropped \in Catalogs /\ Routable(status) \subseteq Providers
  BY DEF Dropped, Catalogs, Routable
<1>3. PoolsInv'
  BY <1>2, StartedPools DEF Restart, PoolsInv
<1>4. HandlersInv'
  BY IdleAdminGood DEF Restart, HandlersInv
<1>5. RequestsInv'
  <2>1. IdleRequest \in Request
    BY IdleRequestGood DEF GoodRequest
  <2> QED
    BY <2>1, IdleRequestGood DEF Restart, RequestsInv
<1> QED
  BY <1>1, <1>3, <1>4, <1>5 DEF WellFormed

\* The state is well formed initially.
LEMMA InitWellFormed == Init => WellFormed
<1> SUFFICES ASSUME Init PROVE WellFormed
  OBVIOUS
<1>1. TablesInv
  BY RebuildAssumption DEF Init, TablesInv, States, Rows
<1>2. Dropped \in Catalogs
  BY DEF Dropped, Catalogs
<1>3. PoolsInv
  BY <1>2, StartedPools DEF Init, PoolsInv
<1>4. HandlersInv
  BY IdleAdminGood DEF Init, HandlersInv
<1>5. RequestsInv
  <2>1. IdleRequest \in Request
    BY IdleRequestGood DEF GoodRequest
  <2> QED
    BY <2>1, IdleRequestGood DEF Init, RequestsInv
<1> QED
  BY <1>1, <1>3, <1>4, <1>5 DEF WellFormed

\* Every step keeps it well formed.
LEMMA StepWellFormed == WellFormed /\ [Next]_vars => WellFormed'
<1> SUFFICES ASSUME WellFormed, [Next]_vars PROVE WellFormed'
  OBVIOUS
<1>1. ASSUME NEW a \in Admins, Refresh(a) PROVE WellFormed'
  BY <1>1, ReadsKeep, SwapKeeps, InstallsKeep, ReviveKeeps DEF Refresh
<1>2. CASE UNCHANGED vars
  BY <1>2 DEF WellFormed, TablesInv, PoolsInv, HandlersInv, RequestsInv,
              vars, store, caches, catalogVars
<1> QED
  BY <1>1, <1>2, MutateKeeps, ServeKeeps, CatalogKeeps, RestartKeeps DEF Next, Running

\* A well-formed state has the types.
LEMMA WellFormedTyped == WellFormed => TypeOK
<1> SUFFICES ASSUME WellFormed PROVE TypeOK
  OBVIOUS
<1>1. /\ \A a \in Admins : admin[a].pc = "idle" => admin[a] = IdleAdmin
      /\ \A r \in Requests : req[r].pc = "idle" => req[r] = IdleRequest
  BY DEF WellFormed, HandlersInv, RequestsInv, GoodMutation, GoodRequest
<1>2. /\ \A g \in Generations, p \in Providers : pools[g][p] \in PoolState
      /\ registry.gen \in Generations /\ registry.routable \subseteq Providers
      /\ catalog.providers \cup fetching.providers \subseteq Providers
  BY DEF WellFormed, PoolsInv, Catalogs, Dropped, Offered
<1>3. TablesInv
  BY DEF WellFormed
<1> QED
  BY <1>1, <1>2, <1>3 DEF TablesInv, States, TypeOK

\* The history only observes: every step with it is a step of the model.
LEMMA AuditSteps == [AuditNext]_auditVars => [Next]_vars
  BY DEF AuditNext, AuditRestart, Next, auditVars

\* Rows, caches, mutations and requests stay in their domains: in particular
\* a rebuild always has a free generation, a request's key belongs to the
\* pool it holds, and no pool disables a key it does not have.
THEOREM RebuildTypeCorrect == AuditSpec => []TypeOK
<1>1. AuditInit => WellFormed
  BY InitWellFormed DEF AuditInit
<1>2. WellFormed /\ [AuditNext]_auditVars => WellFormed'
  BY AuditSteps, StepWellFormed
<1> QED
  BY <1>1, <1>2, WellFormedTyped, PTL DEF AuditSpec

-----------------------------------------------------------------------------
\* The handler of a write starts its mutation; what it will revive is the row
\* it was asked to switch on, if it was.
LEMMA MutateEffect ==
  ASSUME WellFormed, NEW a \in Admins, Mutate(a)
  PROVE  /\ Idle(a) /\ admin'[a].pc = "providers"
         /\ \A b \in Admins \ {a} : admin'[b] = admin[b]
         /\ UNCHANGED <<pools, registry, clients, denied, catalog, fetching, req, failures>>
         /\ admin'[a].revive \in Rows \cup {NoRow}
         /\ \A row \in Rows : SwitchKey(a, row, "on") <=> admin'[a].revive = row
<1>1. \A row \in Rows : row # NoRow
  <2> SUFFICES ASSUME NEW row \in Rows PROVE row # NoRow
    OBVIOUS
  <2>1. Len(row) = 2
    BY DEF Rows
  <2>2. Len(NoRow) = 0
    BY DEF NoRow
  <2> QED
    BY <2>1, <2>2
<1>2. admin \in [Admins -> Mutation]
  BY DEF WellFormed, HandlersInv
<1>3. ASSUME NEW revive, Write(a, revive)
      PROVE  /\ Idle(a) /\ admin'[a].pc = "providers" /\ admin'[a].revive = revive
             /\ \A b \in Admins \ {a} : admin'[b] = admin[b]
             /\ UNCHANGED <<pools, registry, clients, denied, catalog, fetching, req, failures>>
  BY <1>2, <1>3 DEF Write, Becomes, Idle, IdleAdmin, caches, catalogVars
<1>4. \A row \in Rows : SwitchKey(a, row, "on") => Write(a, row)
  BY DEF SwitchKey
<1>5. CASE Write(a, NoRow)
  BY <1>1, <1>3, <1>4, <1>5
<1>6. CASE \E row \in Rows : SwitchKey(a, row, "on")
  BY <1>3, <1>4, <1>6
<1>7. ASSUME NEW row \in Rows, SwitchKey(a, row, "off")
      PROVE  Write(a, NoRow)
  BY <1>7 DEF SwitchKey
<1> QED
  BY <1>5, <1>6, <1>7 DEF Mutate, CreateProvider, SwitchProvider, DeleteProvider, AddKey,
       DeleteKey, SwitchClient, SwitchAccess

\* What each statement of a refresh does to its handler.
LEMMA RefreshFields ==
  ASSUME WellFormed, NEW a \in Admins
  PROVE  LET m == admin[a]
             n == admin'[a]
         IN
         /\ ListProviders(a) =>
              m.pc = "providers" /\ n.pc = "keys" /\ n.status = status /\ n.revive = m.revive
         /\ ListKeys(a) =>
              m.pc = "keys" /\ n.pc = "copy" /\ n.status = m.status /\ n.keyRow = keyRow /\ n.revive = m.revive
         /\ CopyStates(a) =>
              m.pc = "copy" /\ n.pc = "swap" /\ n.status = m.status /\ n.keyRow = m.keyRow /\ n.prev = Preserved /\ n.revive = m.revive
         /\ Swap(a) =>
              m.pc = "swap" /\ n.pc = "clients" /\ n.revive = m.revive
         /\ ReadClients(a) =>
              m.pc = "clients" /\ n.pc = "ck" /\ n.seen = clientRow /\ n.revive = m.revive
         /\ InstallClients(a) =>
              m.pc = "ck" /\ n.pc = "access" /\ n.revive = m.revive
         /\ ReadAccess(a) =>
              m.pc = "access" /\ n.pc = "ua" /\ n.seen = accessRow /\ n.revive = m.revive
         /\ InstallAccess(a) =>
              m.pc = "ua" /\ n.pc = "catalog" /\ n.revive = m.revive
         /\ DropCatalog(a) =>
              m.pc = "catalog" /\ IF m.revive = NoRow THEN n = IdleAdmin
                ELSE n.pc = "find" /\ n.revive = m.revive
         /\ FindRevived(a) =>
              m.pc = "find" /\ IF keyRow[m.revive] = "none" THEN n = IdleAdmin
                ELSE n.pc = "revive" /\ n.gen = registry.gen /\ n.routable = registry.routable /\ n.revive = m.revive
         /\ Revive(a) => m.pc = "revive" /\ n = IdleAdmin
         /\ RebuildFails(a) =>
              m.pc # "idle" /\ n = IdleAdmin /\ failures' = failures + 1
         /\ Refresh(a) => \A b \in Admins \ {a} : admin'[b] = admin[b]
<1> DEFINE m == admin[a]
           n == admin'[a]
<1>1. admin \in [Admins -> Mutation] /\ m \in Mutation
  BY DEF WellFormed, HandlersInv
<1>2. ASSUME NEW q, admin' = [admin EXCEPT ![a] = q]
      PROVE  n = q /\ \A b \in Admins \ {a} : admin'[b] = admin[b]
  BY <1>1, <1>2
<1>4. ASSUME ListProviders(a)
      PROVE  /\ m.pc = "providers" /\ n.pc = "keys" /\ n.status = status /\ n.revive = m.revive
             /\ \A b \in Admins \ {a} : admin'[b] = admin[b]
  <2> DEFINE q == [m EXCEPT !.pc = "keys", !.status = status]
  <2>1. q.pc = "keys" /\ q.status = status /\ q.revive = m.revive
    BY <1>1 DEF Mutation
  <2>2. admin' = [admin EXCEPT ![a] = q] /\ m.pc = "providers"
    BY <1>4 DEF ListProviders, Becomes
  <2> HIDE DEF q
  <2> QED
    BY <1>2, <2>1, <2>2
<1>5. ASSUME ListKeys(a)
      PROVE  /\ m.pc = "keys" /\ n.pc = "copy" /\ n.status = m.status /\ n.keyRow = keyRow /\ n.revive = m.revive
             /\ \A b \in Admins \ {a} : admin'[b] = admin[b]
  <2> DEFINE q == [m EXCEPT !.pc = "copy", !.keyRow = keyRow]
  <2>1. q.pc = "copy" /\ q.status = m.status /\ q.keyRow = keyRow /\ q.revive = m.revive
    BY <1>1 DEF Mutation
  <2>2. admin' = [admin EXCEPT ![a] = q] /\ m.pc = "keys"
    BY <1>5 DEF ListKeys, Becomes
  <2> HIDE DEF q
  <2> QED
    BY <1>2, <2>1, <2>2
<1>6. ASSUME CopyStates(a)
      PROVE  /\ m.pc = "copy" /\ n.pc = "swap" /\ n.status = m.status /\ n.keyRow = m.keyRow /\ n.prev = Preserved /\ n.revive = m.revive
             /\ \A b \in Admins \ {a} : admin'[b] = admin[b]
  <2> DEFINE q == [m EXCEPT !.pc = "swap", !.prev = Preserved]
  <2>1. q.pc = "swap" /\ q.status = m.status /\ q.keyRow = m.keyRow /\ q.prev = Preserved /\ q.revive = m.revive
    BY <1>1 DEF Mutation
  <2>2. admin' = [admin EXCEPT ![a] = q] /\ m.pc = "copy"
    BY <1>6 DEF CopyStates, Becomes
  <2> HIDE DEF q
  <2> QED
    BY <1>2, <2>1, <2>2
<1>7. ASSUME Swap(a)
      PROVE  /\ m.pc = "swap" /\ n.pc = "clients" /\ n.revive = m.revive
             /\ \A b \in Admins \ {a} : admin'[b] = admin[b]
  <2> DEFINE q == [IdleAdmin EXCEPT !.pc = "clients", !.revive = m.revive]
  <2>1. q.pc = "clients" /\ q.revive = m.revive
    BY <1>1 DEF Mutation, IdleAdmin
  <2>2. admin' = [admin EXCEPT ![a] = q] /\ m.pc = "swap"
    BY <1>7 DEF Swap, Becomes
  <2> HIDE DEF q
  <2> QED
    BY <1>2, <2>1, <2>2
<1>8. ASSUME ReadClients(a)
      PROVE  /\ m.pc = "clients" /\ n.pc = "ck" /\ n.seen = clientRow /\ n.revive = m.revive
             /\ \A b \in Admins \ {a} : admin'[b] = admin[b]
  <2> DEFINE q == [m EXCEPT !.pc = "ck", !.seen = clientRow]
  <2>1. q.pc = "ck" /\ q.seen = clientRow /\ q.revive = m.revive
    BY <1>1 DEF Mutation
  <2>2. admin' = [admin EXCEPT ![a] = q] /\ m.pc = "clients"
    BY <1>8 DEF ReadClients, Becomes
  <2> HIDE DEF q
  <2> QED
    BY <1>2, <2>1, <2>2
<1>9. ASSUME InstallClients(a)
      PROVE  /\ m.pc = "ck" /\ n.pc = "access" /\ n.revive = m.revive
             /\ \A b \in Admins \ {a} : admin'[b] = admin[b]
  <2> DEFINE q == [m EXCEPT !.pc = "access", !.seen = {}]
  <2>1. q.pc = "access" /\ q.revive = m.revive
    BY <1>1 DEF Mutation
  <2>2. admin' = [admin EXCEPT ![a] = q] /\ m.pc = "ck"
    BY <1>9 DEF InstallClients, Becomes
  <2> HIDE DEF q
  <2> QED
    BY <1>2, <2>1, <2>2
<1>10. ASSUME ReadAccess(a)
      PROVE  /\ m.pc = "access" /\ n.pc = "ua" /\ n.seen = accessRow /\ n.revive = m.revive
             /\ \A b \in Admins \ {a} : admin'[b] = admin[b]
  <2> DEFINE q == [m EXCEPT !.pc = "ua", !.seen = accessRow]
  <2>1. q.pc = "ua" /\ q.seen = accessRow /\ q.revive = m.revive
    BY <1>1 DEF Mutation
  <2>2. admin' = [admin EXCEPT ![a] = q] /\ m.pc = "access"
    BY <1>10 DEF ReadAccess, Becomes
  <2> HIDE DEF q
  <2> QED
    BY <1>2, <2>1, <2>2
<1>11. ASSUME InstallAccess(a)
      PROVE  /\ m.pc = "ua" /\ n.pc = "catalog" /\ n.revive = m.revive
             /\ \A b \in Admins \ {a} : admin'[b] = admin[b]
  <2> DEFINE q == [m EXCEPT !.pc = "catalog", !.seen = {}]
  <2>1. q.pc = "catalog" /\ q.revive = m.revive
    BY <1>1 DEF Mutation
  <2>2. admin' = [admin EXCEPT ![a] = q] /\ m.pc = "ua"
    BY <1>11 DEF InstallAccess, Becomes
  <2> HIDE DEF q
  <2> QED
    BY <1>2, <2>1, <2>2
<1>12. ASSUME DropCatalog(a)
      PROVE  /\ m.pc = "catalog" /\ IF m.revive = NoRow THEN n = IdleAdmin
                ELSE n.pc = "find" /\ n.revive = m.revive
             /\ \A b \in Admins \ {a} : admin'[b] = admin[b]
  <2> DEFINE q == [m EXCEPT !.pc = "find"]
  <2>1. q.pc = "find" /\ q.revive = m.revive
    BY <1>1 DEF Mutation
  <2>2. admin' = [admin EXCEPT ![a] = IF m.revive = NoRow THEN IdleAdmin ELSE q] /\ m.pc = "catalog"
    BY <1>12 DEF DropCatalog, Becomes
  <2> HIDE DEF q
  <2> QED
    BY <1>2, <2>1, <2>2
<1>13. ASSUME FindRevived(a)
      PROVE  /\ m.pc = "find" /\ IF keyRow[m.revive] = "none" THEN n = IdleAdmin
                ELSE n.pc = "revive" /\ n.gen = registry.gen /\ n.routable = registry.routable /\ n.revive = m.revive
             /\ \A b \in Admins \ {a} : admin'[b] = admin[b]
  <2> DEFINE q == [m EXCEPT !.pc = "revive", !.gen = registry.gen,
                            !.routable = registry.routable]
  <2>1. q.pc = "revive" /\ q.gen = registry.gen /\ q.routable = registry.routable /\ q.revive = m.revive
    BY <1>1 DEF Mutation
  <2>2. admin' = [admin EXCEPT ![a] = IF keyRow[m.revive] = "none" THEN IdleAdmin ELSE q] /\ m.pc = "find"
    BY <1>13 DEF FindRevived, Becomes
  <2> HIDE DEF q
  <2> QED
    BY <1>2, <2>1, <2>2
<1>14. ASSUME Revive(a)
      PROVE  m.pc = "revive" /\ n = IdleAdmin /\ \A b \in Admins \ {a} : admin'[b] = admin[b]
  BY <1>2, <1>14 DEF Revive
<1>15. ASSUME RebuildFails(a)
      PROVE  /\ m.pc # "idle" /\ n = IdleAdmin /\ failures' = failures + 1
             /\ \A b \in Admins \ {a} : admin'[b] = admin[b]
  BY <1>2, <1>15 DEF RebuildFails, Becomes
<1> QED
  BY <1>4, <1>5, <1>6, <1>7, <1>8, <1>9, <1>10, <1>11, <1>12, <1>13, <1>14, <1>15 DEF Refresh

\* A refresh moves one handler on, keeping the row it will revive, or ends it.
LEMMA RefreshEffect ==
  ASSUME WellFormed, NEW a \in Admins, Refresh(a)
  PROVE  /\ ~Idle(a) /\ UNCHANGED <<store, req>>
         /\ \A b \in Admins \ {a} : admin'[b] = admin[b]
         /\ admin'[a] = IdleAdmin \/ admin'[a].revive = admin[a].revive
         /\ admin'[a].pc # "providers"
<1>1. UNCHANGED <<store, req>>
  BY DEF Refresh, ListProviders, ListKeys, CopyStates, Swap, ReadClients, InstallClients,
         ReadAccess, InstallAccess, DropCatalog, FindRevived, Revive, RebuildFails
<1>2. IdleAdmin.pc = "idle"
  BY DEF IdleAdmin
<1> QED
  BY <1>1, <1>2, RefreshFields DEF Refresh, Idle

\* Of the other steps none touches a handler or the store.
LEMMA OthersEffect ==
  ASSUME WellFormed,
         \/ \E r \in Requests : Serve(r)
         \/ FetchCatalog
         \/ \E reached \in SUBSET Providers : CacheCatalog(reached)
  PROVE  UNCHANGED <<store, registry, caches, admin, failures>>
  BY DEF Serve, Arrive, PickKey, Rejected, End, FetchCatalog, CacheCatalog, bounds

\* The pools in use survive the end of a request.
LEMMA EndEffect ==
  ASSUME WellFormed, NEW r \in Requests, End(r)
  PROVE  Live' = Live
<1> DEFINE next == [req EXCEPT ![r] = IdleRequest]
           used == InUse(registry.gen, admin, next)
<1>1. pools' = Collected(pools, used) /\ registry' = registry
  BY Zenon DEF End
<1>2. registry.gen \in used
  BY DEF InUse
<1>3. pools \in [Generations -> [Providers -> PoolState]] /\ registry.gen \in Generations
  BY DEF WellFormed, PoolsInv
<1> HIDE DEF used
<1> QED
  BY <1>1, <1>2, <1>3, CollectedPools DEF Live

\* Every step keeps the count of failed rebuilds.
LEMMA FailuresStep ==
  ASSUME FailuresCounted, [Next]_vars
  PROVE  FailuresCounted'
<1>1. ASSUME NEW a \in Admins, Refresh(a) PROVE failures' \in {failures, failures + 1}
  BY <1>1 DEF Refresh, ListProviders, ListKeys, CopyStates, Swap, ReadClients,
     InstallClients, ReadAccess, InstallAccess, DropCatalog, FindRevived, Revive, RebuildFails,
     bounds
<1>2. ASSUME NEW a \in Admins, Mutate(a) PROVE failures' = failures
  BY <1>2 DEF Mutate, CreateProvider, SwitchProvider, DeleteProvider, AddKey,
       SwitchKey, DeleteKey, SwitchClient, SwitchAccess, Write
<1>3. ASSUME NEW r \in Requests, Serve(r) PROVE failures' = failures
  BY <1>3 DEF Serve, Arrive, PickKey, Rejected, End, bounds
<1>4. FetchCatalog \/ (\E reached \in SUBSET Providers : CacheCatalog(reached)) \/ Restart
        \/ UNCHANGED vars => failures' = failures
  BY DEF FetchCatalog, CacheCatalog, Restart, vars, bounds
<1>5. failures' \in {failures, failures + 1}
  BY <1>1, <1>2, <1>3, <1>4 DEF Next, Running
<1> QED
  BY <1>5 DEF FailuresCounted

-----------------------------------------------------------------------------
\* What a rebuild copies of a key on one provider only.
LEMMA CopiesOfOne ==
  ASSUME WellFormed, NEW row \in Rows, Exclusive(row)
  PROVE  /\ row[2] \notin Live[row[1]].dead => row[2] \notin Preserved
         /\ row[2] \in Live[row[1]].dead /\ row[1] \in registry.routable \cup {Zen} =>
              row[2] \in Preserved
<1> DEFINE k == row[2]
           holders == {p \in registry.routable \cup {Zen} : k \in Live[p].keys}
           last == IF Zen \in holders THEN Zen
                   ELSE CHOOSE p \in holders : \A q \in holders : Order[q] =< Order[p]
<1>1. /\ row[1] \in Providers /\ k \in Keys /\ Zen \in Providers
      /\ registry.routable \subseteq Providers
      /\ \A p \in Providers : Live[p].dead \subseteq Live[p].keys
      /\ Order \in [Providers -> Nat]
  BY RebuildAssumption DEF WellFormed, PoolsInv, PoolState, Rows, Live
<1>2. holders \subseteq {row[1]}
  BY <1>1 DEF Exclusive
<1>3. k \in Preserved <=> holders # {} /\ k \in Live[last].dead
  BY <1>1 DEF Preserved
<1>4. holders # {} => last = row[1]
  <2> HIDE DEF holders
  <2>1. CASE holders = {row[1]}
    <3>1. Order[row[1]] =< Order[row[1]]
      BY <1>1
    <3> QED
      BY <2>1, <3>1
  <2> QED
    BY <1>2, <2>1
<1>5. k \in Live[row[1]].dead /\ row[1] \in registry.routable \cup {Zen} => holders # {}
  BY <1>1
<1> HIDE DEF holders, last
<1> QED
  BY <1>3, <1>4, <1>5

\* Steps that leave the pools, and the handlers that are rebuilding, alone.
Quiet ==
  /\ Live' = Live /\ registry' = registry
  /\ \A a \in Admins :
       admin'[a] = admin[a] \/ admin'[a].pc \notin {"keys", "copy", "swap"}

\* As far as the key states go, a step is quiet, one of five steps of a
\* rebuild, or a key's rejection.
LEMMA StepKinds ==
  ASSUME WellFormed, Running
  PROVE  \/ Quiet
         \/ \E a \in Admins :
              ListProviders(a) \/ ListKeys(a) \/ CopyStates(a) \/ Swap(a) \/ Revive(a)
         \/ \E r \in Requests : Rejected(r)
<1>1. IdleAdmin.pc = "idle"
  BY DEF IdleAdmin
<1>2. ASSUME NEW a \in Admins, Mutate(a) PROVE Quiet
  BY <1>2, MutateEffect DEF Quiet, Live
<1>3. ASSUME NEW a \in Admins,
             \/ ReadClients(a) \/ InstallClients(a) \/ ReadAccess(a) \/ InstallAccess(a)
             \/ DropCatalog(a) \/ FindRevived(a) \/ RebuildFails(a)
      PROVE  Quiet
  <2>1. Refresh(a) /\ UNCHANGED <<pools, registry>>
    BY <1>3 DEF Refresh, ReadClients, InstallClients, ReadAccess, InstallAccess, DropCatalog,
       FindRevived, RebuildFails
  <2>2. admin'[a].pc \notin {"keys", "copy", "swap"}
    BY <1>1, <1>3, RefreshFields
  <2>3. \A b \in Admins \ {a} : admin'[b] = admin[b]
    BY <2>1, RefreshFields
  <2> QED
    BY <2>1, <2>2, <2>3 DEF Quiet, Live
<1>4. ASSUME NEW r \in Requests, Serve(r) PROVE Quiet \/ Rejected(r)
  <2>1. UNCHANGED <<registry, admin>>
    BY <1>4, OthersEffect
  <2>2. CASE End(r)
    BY <2>1, <2>2, EndEffect DEF Quiet
  <2>3. CASE \E c \in ClientKeys, p \in Providers : Arrive(r, c, p)
    BY <2>1, <2>3 DEF Quiet, Live, Arrive
  <2>4. CASE \E k \in Keys : PickKey(r, k)
    BY <2>1, <2>4 DEF Quiet, Live, PickKey
  <2> QED
    BY <1>4, <2>2, <2>3, <2>4 DEF Serve
<1>5. FetchCatalog \/ (\E reached \in SUBSET Providers : CacheCatalog(reached)) => Quiet
  BY DEF FetchCatalog, CacheCatalog, Quiet, Live
<1> QED
  BY <1>2, <1>3, <1>4, <1>5 DEF Running, Refresh

\* Only a rejection takes a request from its call back to the pool.
LEMMA RejectionsOnly ==
  ASSUME WellFormed, Running, NEW r \in Requests, req[r].pc = "call", req'[r].pc = "pick"
  PROVE  Rejected(r)
<1>0. req \in [Requests -> Request]
  BY DEF WellFormed, RequestsInv
<1>1. ASSUME NEW s \in Requests, Serve(s) PROVE Rejected(r)
  <2>1. CASE \E c \in ClientKeys, p \in Providers : Arrive(s, c, p)
    BY <1>0, <2>1 DEF Arrive, Moves
  <2>2. CASE \E k \in Keys : PickKey(s, k)
    BY <1>0, <2>2 DEF PickKey, Moves
  <2>3. CASE End(s)
    BY <1>0, <2>3 DEF End, IdleRequest
  <2>4. CASE Rejected(s)
    BY <1>0, <2>4 DEF Rejected, Moves
  <2> QED
    BY <1>1, <2>1, <2>2, <2>3, <2>4 DEF Serve
<1>2. ASSUME NEW a \in Admins, Mutate(a) PROVE req' = req
  BY <1>2, MutateEffect
<1>3. ASSUME NEW a \in Admins, Refresh(a) PROVE req' = req
  BY <1>3, RefreshEffect
<1>4. FetchCatalog \/ (\E reached \in SUBSET Providers : CacheCatalog(reached)) => req' = req
  BY DEF FetchCatalog, CacheCatalog
<1> QED
  BY <1>1, <1>2, <1>3, <1>4 DEF Running

\* A disable stays on record and on the live pool through every step that
\* leaves its row alone and does not revive its key.
LEMMA DisableCarried ==
  ASSUME WellFormed, WellFormed', Running, NEW row, Disabled(row),
         Undisturbed(row), row[2] \notin LiftedKeys
  PROVE  Disabled(row)'
<1>0. /\ row \in Rows /\ row[1] \in Providers /\ row[2] \in Keys
      /\ keyRow[row] = "on" /\ Exclusive(row)
      /\ status[row[1]] = "on" \/ row[1] = Zen
      /\ row[1] \in registry.routable \cup {Zen}
      /\ row[2] \in Live[row[1]].dead
      /\ <<row[1], row[2]>> = row
  BY DEF Disabled, Rows
<1>1. keyRow'[row] = "on" /\ Exclusive(row)' /\ (status'[row[1]] = "on" \/ row[1] = Zen)
  BY DEF Undisturbed
<1> DEFINE Served == row[1] \in registry'.routable \cup {Zen} /\ row[2] \in Live'[row[1]].dead
           Carried(a) ==
             /\ admin[a].pc \in {"keys", "copy", "swap"} =>
                  admin[a].status[row[1]] = "on" \/ row[1] = Zen
             /\ admin[a].pc \in {"copy", "swap"} => admin[a].keyRow[row] = "on"
             /\ admin[a].pc = "swap" => row[2] \in admin[a].prev
<1>2. \A a \in Admins : Carried(a)
  BY DEF Disabled
<1>3. SUFFICES Served /\ \A a \in Admins : Carried(a)'
  BY <1>0, <1>1 DEF Disabled
<1>4. CASE Quiet
  BY <1>0, <1>2, <1>4 DEF Quiet
<1>5. ASSUME NEW a \in Admins, Refresh(a), Carried(a)', Served
      PROVE  Served /\ \A b \in Admins : Carried(b)'
  <2>1. \A b \in Admins \ {a} : admin'[b] = admin[b]
    BY <1>5, RefreshEffect
  <2> QED
    BY <1>2, <1>5, <2>1
<1>6. ASSUME NEW a \in Admins, ListProviders(a) \/ ListKeys(a) \/ CopyStates(a)
      PROVE  Carried(a)' /\ Served
  <2>1. UNCHANGED <<pools, registry>>
    BY <1>6 DEF ListProviders, ListKeys, CopyStates
  <2>2. Served
    BY <1>0, <2>1 DEF Live
  <2>3. row[2] \in Preserved
    BY <1>0, CopiesOfOne
  <2>4. CASE ListProviders(a)
    BY <1>0, <2>2, <2>4, RefreshFields
  <2>5. CASE ListKeys(a)
    BY <1>0, <1>2, <2>2, <2>5, RefreshFields
  <2>6. CASE CopyStates(a)
    BY <1>0, <1>2, <2>2, <2>3, <2>6, RefreshFields
  <2> QED
    BY <1>6, <2>4, <2>5, <2>6
<1>7. ASSUME NEW a \in Admins, Swap(a)
      PROVE  Carried(a)' /\ Served
  <2> DEFINE m == admin[a]
  <2>1. m.pc = "swap" /\ admin'[a].pc = "clients"
    BY <1>7, RefreshFields
  <2>2. /\ m.status[row[1]] = "on" \/ row[1] = Zen
        /\ m.keyRow[row] = "on" /\ row[2] \in m.prev
    BY <1>2, <2>1
  <2>3. m.status[Zen] # "none"
    BY <2>1 DEF WellFormed, HandlersInv, GoodMutation
  <2>4. Read(m)[row] = "on"
    BY <1>0, <2>2, <2>3 DEF Read
  <2>5. row[2] \in EnabledKeys(Read(m), row[1])
    BY <1>0, <2>4 DEF EnabledKeys
  <2>6. /\ Live' = Built(Read(m), m.prev)
        /\ registry'.routable = Routable(m.status)
    BY <1>7, SwapEffect DEF Live
  <2>7. row[2] \in Live'[row[1]].dead
    BY <1>0, <2>2, <2>5, <2>6, BuiltPools
  <2>8. row[1] \in registry'.routable \cup {Zen}
    BY <1>0, <2>2, <2>6 DEF Routable
  <2> QED
    BY <2>1, <2>7, <2>8
<1>8. ASSUME NEW a \in Admins, Revive(a)
      PROVE  Carried(a)' /\ Served
  <2>1. admin[a].pc = "revive" /\ admin'[a] = IdleAdmin /\ IdleAdmin.pc = "idle"
    BY <1>8, RefreshFields DEF IdleAdmin
  <2>2. admin[a].revive[2] \in LiftedKeys
    BY <2>1 DEF LiftedKeys, Ends, Idle
  <2>3. row[2] # admin[a].revive[2]
    BY <2>2
  <2>a. \A p \in Providers :
          \/ Live'[p].dead = Live[p].dead \ {admin[a].revive[2]}
          \/ Live'[p].dead = Live[p].dead
    BY <1>8, ReviveEffect
  <2>4. row[2] \in Live'[row[1]].dead
    BY <1>0, <2>3, <2>a
  <2>5. registry' = registry
    BY <1>8 DEF Revive
  <2> QED
    BY <1>0, <2>1, <2>4, <2>5
<1>9. ASSUME NEW r \in Requests, Rejected(r)
      PROVE  Served /\ \A b \in Admins : Carried(b)'
  <2>1. UNCHANGED <<registry, admin>>
    BY <1>9 DEF Rejected
  <2>2. registry.gen \in Generations
    BY DEF WellFormed, PoolsInv
  <2>3. row[2] \in Live'[row[1]].dead
    BY <1>0, <1>9, <2>1, <2>2, RejectedGrows DEF Live
  <2> QED
    BY <1>0, <1>2, <2>1, <2>3
<1>10. ASSUME NEW a \in Admins,
              ListProviders(a) \/ ListKeys(a) \/ CopyStates(a) \/ Swap(a) \/ Revive(a)
       PROVE  Refresh(a) /\ Carried(a)' /\ Served
  <2>1. Refresh(a)
    BY <1>10 DEF Refresh
  <2> QED
    BY <1>6, <1>7, <1>8, <1>10, <2>1
<1> HIDE DEF Served, Carried
<1> QED
  BY <1>4, <1>5, <1>9, <1>10, StepKinds

\* Every step leaves each request with a pool that was installed.
LEMMA RoutedStep ==
  ASSUME WellFormed, \A r \in Requests : Routed(r), Running
  PROVE  \A r \in Requests : Routed(r)'
<1>0. req \in [Requests -> Request]
  BY DEF WellFormed, RequestsInv
<1>1. ASSUME NEW s \in Requests, Serve(s) PROVE \A r \in Requests : Routed(r)'
  <2>0. registry' = registry
    BY <1>1, OthersEffect
  <2>1. CASE \E c \in ClientKeys, p \in Providers : Arrive(s, c, p)
    BY <1>0, <2>0, <2>1 DEF Arrive, Moves, Routed
  <2>2. CASE \E k \in Keys : PickKey(s, k)
    BY <1>0, <2>0, <2>2 DEF PickKey, Moves, Routed, Request
  <2>3. CASE End(s)
    BY <1>0, <2>0, <2>3 DEF End, IdleRequest, Routed
  <2>4. CASE Rejected(s)
    BY <1>0, <2>0, <2>4 DEF Rejected, Moves, Routed, Request
  <2> QED
    BY <1>1, <2>1, <2>2, <2>3, <2>4 DEF Serve
<1>2. ASSUME req' = req, registry' = registry PROVE \A r \in Requests : Routed(r)'
  BY <1>2 DEF Routed
<1>3. ASSUME NEW a \in Admins, Mutate(a) PROVE \A r \in Requests : Routed(r)'
  BY <1>2, <1>3, MutateEffect
<1>4. ASSUME NEW a \in Admins, Refresh(a) PROVE \A r \in Requests : Routed(r)'
  <2>1. CASE Swap(a)
    <3>1. \A r \in Requests : req[r].gen # registry'.gen
      BY <2>1, SwapEffect
    <3>2. req' = req
      BY <2>1 DEF Swap
    <3> QED
      BY <3>1, <3>2 DEF Routed
  <2>2. CASE ~Swap(a)
    <3>1. req' = req /\ registry' = registry
      BY <1>4, <2>2 DEF Refresh, ListProviders, ListKeys, CopyStates, ReadClients,
         InstallClients, ReadAccess, InstallAccess, DropCatalog, FindRevived, Revive, RebuildFails
    <3> QED
      BY <1>2, <3>1
  <2> QED
    BY <2>1, <2>2
<1>5. ASSUME FetchCatalog \/ \E reached \in SUBSET Providers : CacheCatalog(reached)
      PROVE  \A r \in Requests : Routed(r)'
  BY <1>2, <1>5 DEF FetchCatalog, CacheCatalog
<1> QED
  BY <1>1, <1>3, <1>4, <1>5 DEF Running

\* Every step keeps the record of who is disabled.
LEMMA DisableStep ==
  ASSUME WellFormed, WellFormed', DisableInv, Running, Notes
  PROVE  DisableInv'
<1>1. \A r \in Requests : Routed(r)'
  BY RoutedStep DEF DisableInv
<1>2. ASSUME NEW row \in rejected' PROVE Disabled(row)'
  <2>1. /\ row \in rejected \/ (~Rebuilding /\ row \in RejectedNow)
        /\ Undisturbed(row) /\ row[2] \notin LiftedKeys
    BY DEF Notes
  <2>2. CASE row \in rejected
    BY <2>1, <2>2, DisableCarried DEF DisableInv
  <2>3. CASE ~Rebuilding /\ row \in RejectedNow
    <3>1. PICK r \in Requests : /\ req[r].pc = "call" /\ req'[r].pc = "pick"
                                /\ req[r].gen = registry.gen /\ row = req[r].key
      BY <2>3 DEF RejectedNow
    <3>2. Rejected(r)
      BY <3>1, RejectionsOnly
    <3>3. /\ row \in Rows /\ registry.gen \in Generations
          /\ row[1] \in Providers
      BY <3>1, <3>2, RejectedEffect DEF Rows
    <3>4. UNCHANGED <<registry, admin>>
      BY <3>2 DEF Rejected
    <3>5. row[2] \in Live'[row[1]].dead
      BY <3>1, <3>2, <3>3, <3>4, RejectedEffect DEF Live
    <3>6. row[1] \in registry'.routable
      BY <3>1, <3>4 DEF DisableInv, Routed
    <3>7. \A a \in Admins : admin'[a].pc \notin {"keys", "copy", "swap"}
      BY <2>3, <3>4 DEF Rebuilding
    <3>8. keyRow'[row] = "on" /\ Exclusive(row)' /\ (status'[row[1]] = "on" \/ row[1] = Zen)
      BY <2>1 DEF Undisturbed
    <3> QED
      BY <3>3, <3>5, <3>6, <3>7, <3>8 DEF Disabled
  <2> QED
    BY <2>1, <2>2, <2>3
<1> QED
  BY <1>1, <1>2 DEF DisableInv

-----------------------------------------------------------------------------
\* A step moves one handler at most: it starts, it moves on or nobody does.
LEMMA OneMoves ==
  ASSUME WellFormed, Running
  PROVE  \/ admin' = admin /\ \A a \in Admins : ~Mutate(a) /\ ~Refresh(a)
         \/ \E a \in Admins :
              /\ Mutate(a) \/ Refresh(a)
              /\ \A b \in Admins \ {a} : admin'[b] = admin[b]
  BY MutateEffect, RefreshEffect, OthersEffect DEF Running

\* The handler that begins does so with a write, and then all others rest.
LEMMA BeginsByWriting ==
  ASSUME WellFormed, Running, NEW a \in Admins, Begins(a)
  PROVE  Mutate(a)
<1>1. admin'[a] # admin[a] /\ Idle(a)
  BY DEF Begins, Idle
<1>2. PICK c \in Admins : /\ Mutate(c) \/ Refresh(c)
                         /\ \A b \in Admins \ {c} : admin'[b] = admin[b]
  BY <1>1, OneMoves
<1>3. c = a
  BY <1>1, <1>2
<1>4. ~Refresh(a)
  BY <1>1, RefreshEffect
<1> QED
  BY <1>2, <1>3, <1>4

\* The handler that ends does so with a refresh.
LEMMA EndsByRefreshing ==
  ASSUME WellFormed, Running, NEW a \in Admins, Ends(a)
  PROVE  Refresh(a)
<1>1. admin'[a] # admin[a] /\ ~Idle(a)
  BY DEF Ends, Idle
<1>2. PICK c \in Admins : /\ Mutate(c) \/ Refresh(c)
                         /\ \A b \in Admins \ {c} : admin'[b] = admin[b]
  BY <1>1, OneMoves
<1>3. c = a
  BY <1>1, <1>2
<1>4. ~Mutate(a)
  BY <1>1, MutateEffect
<1> QED
  BY <1>2, <1>3, <1>4

\* What the notes say of a handler: it is alone while no other has begun.
LEMMA SoloNoted ==
  ASSUME WellFormed, AloneInv, Running, Notes, NEW a \in Admins, solo'[a], ~Idle(a)'
  PROVE  /\ \A b \in Admins \ {a} : Idle(b) /\ Idle(b)'
         /\ ~Idle(a) => solo[a] /\ (Refresh(a) \/ admin' = admin)
<1>1. solo'[a] = IF Begins(a) THEN \A b \in Admins \ {a} : Idle(b)
                 ELSE solo[a] /\ (Idle(a) \/ ~\E b \in Admins : Begins(b))
  BY DEF Notes
<1>2. CASE Begins(a)
  <2>1. Mutate(a) /\ Idle(a)
    BY <1>2, BeginsByWriting DEF Begins
  <2>2. \A b \in Admins \ {a} : Idle(b) /\ admin'[b] = admin[b]
    BY <1>1, <1>2, <2>1, MutateEffect
  <2> QED
    BY <2>1, <2>2 DEF Idle
<1>3. CASE ~Begins(a)
  <2>1. ~Idle(a) /\ solo[a] /\ ~\E b \in Admins : Begins(b)
    BY <1>1, <1>3 DEF Begins
  <2>2. \A b \in Admins \ {a} : Idle(b)
    BY <2>1 DEF AloneInv
  <2>3. \A b \in Admins \ {a} : Idle(b)'
    BY <2>1, <2>2 DEF Begins
  <2>4. admin' = admin \/ Refresh(a)
    <3>1. ASSUME NEW c \in Admins, Mutate(c) PROVE FALSE
      <4>1. Idle(c) /\ ~Idle(c)'
        BY <3>1, MutateEffect DEF Idle
      <4> QED
        BY <2>1, <4>1 DEF Begins
    <3>2. ASSUME NEW c \in Admins, Refresh(c) PROVE c = a
      BY <2>2, <3>2, RefreshEffect
    <3> QED
      BY <3>1, <3>2, OneMoves
  <2> QED
    BY <2>1, <2>2, <2>3, <2>4
<1> QED
  BY <1>2, <1>3

\* Every step keeps what is known of the rebuild that runs alone.
LEMMA AloneStep ==
  ASSUME WellFormed, WellFormed', AloneInv, Running, Notes
  PROVE  AloneInv'
<1> SUFFICES ASSUME NEW a \in Admins
             PROVE  /\ solo'[a] /\ ~Idle(a)' => \A b \in Admins \ {a} : Idle(b)'
                    /\ asked'[a] = admin'[a].revive
                    /\ solo'[a] /\ admin'[a].pc = "revive" =>
                         admin'[a].gen = registry'.gen /\ admin'[a].routable = registry'.routable
  BY DEF AloneInv
<1>1. solo'[a] /\ ~Idle(a)' => \A b \in Admins \ {a} : Idle(b)'
  BY SoloNoted
<1>2. asked'[a] = admin'[a].revive
  <2>0. /\ IdleAdmin.revive = NoRow /\ IdleAdmin.pc = "idle"
        /\ Idle(a) => admin[a] = IdleAdmin
        /\ Idle(a)' => admin'[a] = IdleAdmin
    BY DEF IdleAdmin, WellFormed, HandlersInv, GoodMutation, Idle
  <2> DEFINE chosen == IF \E row \in Rows : SwitchKey(a, row, "on")
                       THEN CHOOSE row \in Rows : SwitchKey(a, row, "on")
                       ELSE NoRow
  <2>1. asked'[a] = CASE Ends(a) -> NoRow
                      [] Begins(a) -> chosen
                      [] OTHER -> asked[a]
    BY Zenon DEF Notes
  <2> HIDE DEF chosen
  <2>2. CASE Ends(a)
    <3>1. Idle(a)' /\ ~Begins(a)
      BY <2>2 DEF Ends, Begins
    <3>2. asked'[a] = NoRow
      BY <2>1, <2>2, <3>1, Zenon
    <3> QED
      BY <2>0, <3>1, <3>2
  <2>3. CASE Begins(a)
    <3>1. ~Ends(a) /\ Mutate(a)
      BY <2>3, BeginsByWriting DEF Ends, Begins
    <3>2. asked'[a] = chosen
      BY <2>1, <2>3, <3>1, Zenon
    <3>3. /\ admin'[a].revive \in Rows \cup {NoRow}
          /\ \A row \in Rows : SwitchKey(a, row, "on") <=> admin'[a].revive = row
      BY <3>1, MutateEffect
    <3>4. CASE \E row \in Rows : SwitchKey(a, row, "on")
      <4>1. chosen \in Rows /\ SwitchKey(a, chosen, "on")
        BY <3>4 DEF chosen
      <4> QED
        BY <3>2, <3>3, <4>1
    <3>5. CASE ~\E row \in Rows : SwitchKey(a, row, "on")
      <4>1. chosen = NoRow
        BY <3>5 DEF chosen
      <4>2. admin'[a].revive \notin Rows
        BY <3>3, <3>5
      <4> QED
        BY <3>2, <3>3, <4>1, <4>2
    <3> QED
      BY <3>4, <3>5
  <2>4. CASE ~Ends(a) /\ ~Begins(a)
    <3>1. asked'[a] = asked[a] /\ asked[a] = admin[a].revive
      BY <2>1, <2>4, Zenon DEF AloneInv
    <3>2. CASE Idle(a)
      <4>1. Idle(a)'
        BY <2>4, <3>2 DEF Begins
      <4> QED
        BY <2>0, <3>1, <3>2, <4>1
    <3>3. CASE ~Idle(a)
      <4>1. admin'[a] # IdleAdmin
        BY <2>0, <2>4, <3>3 DEF Ends, Idle
      <4>2. admin'[a].revive = admin[a].revive
        <5>1. CASE admin'[a] = admin[a]
          BY <5>1
        <5>2. CASE admin'[a] # admin[a]
          <6>1. PICK c \in Admins : /\ Mutate(c) \/ Refresh(c)
                                   /\ \A b \in Admins \ {c} : admin'[b] = admin[b]
            BY <5>2, OneMoves
          <6>2. c = a /\ ~Mutate(a)
            BY <3>3, <5>2, <6>1, MutateEffect
          <6> QED
            BY <4>1, <6>1, <6>2, RefreshEffect
        <5> QED
          BY <5>1, <5>2
      <4> QED
        BY <3>1, <4>2
    <3> QED
      BY <3>2, <3>3
  <2> QED
    BY <2>2, <2>3, <2>4
<1>3. ASSUME solo'[a], admin'[a].pc = "revive"
      PROVE  admin'[a].gen = registry'.gen /\ admin'[a].routable = registry'.routable
  <2>1. ~Idle(a)'
    BY <1>3 DEF Idle
  <2>2. ~Idle(a)
    <3>1. SUFFICES ASSUME Idle(a) PROVE FALSE
      OBVIOUS
    <3>2. Mutate(a)
      BY <2>1, <3>1, BeginsByWriting DEF Begins
    <3> QED
      BY <1>3, <3>2, MutateEffect
  <2>3. solo[a] /\ (Refresh(a) \/ admin' = admin) /\ \A b \in Admins \ {a} : Idle(b)
    BY <1>3, <2>1, <2>2, SoloNoted
  <2>4. CASE Refresh(a)
    <3>1. FindRevived(a)
      BY <1>3, <2>4, RefreshFields DEF Refresh, IdleAdmin
    <3>2. admin'[a] # IdleAdmin
      BY <1>3 DEF IdleAdmin
    <3>3. admin'[a].gen = registry.gen /\ admin'[a].routable = registry.routable
      BY <3>1, <3>2, RefreshFields
    <3> QED
      BY <3>1, <3>3 DEF FindRevived
  <2>5. CASE ~Refresh(a) /\ admin' = admin
    <3>1. registry' = registry
      <4>1. \A c \in Admins : ~Refresh(c)
        BY <2>3, <2>5, RefreshEffect
      <4> QED
        BY <4>1, MutateEffect, OthersEffect DEF Running
    <3> QED
      BY <1>3, <2>3, <2>5, <3>1 DEF AloneInv
  <2> QED
    BY <2>3, <2>4, <2>5
<1> QED
  BY <1>1, <1>2, <1>3

-----------------------------------------------------------------------------
\* A lifted disable is not brought back by any step but a new rejection.
LEMMA LiftCarried ==
  ASSUME WellFormed, WellFormed', Running, NEW row, Lifted(row),
         Undisturbed(row), row[2] \notin RejectedKeys
  PROVE  Lifted(row)'
<1>0. /\ row \in Rows /\ row[1] \in Providers /\ row[2] \in Keys
      /\ Exclusive(row) /\ row[2] \notin Live[row[1]].dead
      /\ \A a \in Admins : admin[a].pc = "swap" => row[2] \notin admin[a].prev
  BY DEF Lifted, Rows
<1>1. Exclusive(row)'
  BY DEF Undisturbed
<1> DEFINE Out == row[2] \notin Live'[row[1]].dead
           Clean(a) == admin[a].pc = "swap" => row[2] \notin admin[a].prev
<1>2. \A a \in Admins : Clean(a)
  BY <1>0
<1>3. SUFFICES Out /\ \A a \in Admins : Clean(a)'
  BY <1>0, <1>1 DEF Lifted
<1>4. CASE Quiet
  BY <1>0, <1>2, <1>4 DEF Quiet
<1>5. ASSUME NEW a \in Admins, Refresh(a), Clean(a)', Out
      PROVE  Out /\ \A b \in Admins : Clean(b)'
  <2>1. \A b \in Admins \ {a} : admin'[b] = admin[b]
    BY <1>5, RefreshEffect
  <2> QED
    BY <1>2, <1>5, <2>1
<1>6. ASSUME NEW a \in Admins, ListProviders(a) \/ ListKeys(a) \/ CopyStates(a)
      PROVE  Clean(a)' /\ Out
  <2>1. UNCHANGED <<pools, registry>>
    BY <1>6 DEF ListProviders, ListKeys, CopyStates
  <2>2. Out
    BY <1>0, <2>1 DEF Live
  <2>3. row[2] \notin Preserved
    BY <1>0, CopiesOfOne
  <2> QED
    BY <1>6, <2>2, <2>3, RefreshFields
<1>7. ASSUME NEW a \in Admins, Swap(a)
      PROVE  Clean(a)' /\ Out
  <2>1. admin[a].pc = "swap" /\ admin'[a].pc = "clients"
    BY <1>7, RefreshFields
  <2>2. row[2] \notin admin[a].prev
    BY <1>2, <2>1
  <2>3. Live' = Built(Read(admin[a]), admin[a].prev)
    BY <1>7, SwapEffect DEF Live
  <2>4. Out
    BY <1>0, <2>2, <2>3, BuiltPools
  <2> QED
    BY <2>1, <2>4
<1>8. ASSUME NEW a \in Admins, Revive(a)
      PROVE  Clean(a)' /\ Out
  <2>1. admin'[a] = IdleAdmin /\ IdleAdmin.pc = "idle"
    BY <1>8, RefreshFields DEF IdleAdmin
  <2>2. Out
    BY <1>0, <1>8, ReviveEffect
  <2> QED
    BY <2>1, <2>2
<1>9. ASSUME NEW r \in Requests, Rejected(r)
      PROVE  Out /\ \A b \in Admins : Clean(b)'
  <2>1. UNCHANGED <<registry, admin>>
    BY <1>9 DEF Rejected
  <2>2. req[r].pc = "call" /\ req'[r].pc = "pick"
    BY <1>9 DEF Rejected, Moves, WellFormed, RequestsInv, Request
  <2>3. req[r].key[2] # row[2]
    BY <2>2 DEF RejectedKeys
  <2>4. registry.gen \in Generations
    BY DEF WellFormed, PoolsInv
  <2>5. Live'[row[1]].dead \subseteq Live[row[1]].dead \cup {req[r].key[2]}
    BY <1>0, <1>9, <2>1, <2>4, RejectedGrows DEF Live
  <2>6. Out
    BY <1>0, <2>3, <2>5
  <2> QED
    BY <1>2, <2>1, <2>6
<1>10. ASSUME NEW a \in Admins,
              ListProviders(a) \/ ListKeys(a) \/ CopyStates(a) \/ Swap(a) \/ Revive(a)
       PROVE  Refresh(a) /\ Clean(a)' /\ Out
  <2>1. Refresh(a)
    BY <1>10 DEF Refresh
  <2> QED
    BY <1>6, <1>7, <1>8, <1>10, <2>1
<1> HIDE DEF Out, Clean
<1> QED
  BY <1>4, <1>5, <1>9, <1>10, StepKinds

\* The answer to a switch-on that met no other mutation puts the key back.
LEMMA LiftBegins ==
  ASSUME WellFormed, FailuresCounted, AloneInv, Running, NEW b \in Admins, NEW row,
         row = asked[b], Ends(b), solo[b], ~Fails, row # NoRow,
         row[1] \in registry.routable, Undisturbed(row)
  PROVE  Lifted(row)'
<1> DEFINE m == admin[b]
<1>1. Refresh(b) /\ ~Idle(b) /\ Idle(b)'
  BY EndsByRefreshing DEF Ends
<1>2. row = m.revive /\ \A c \in Admins \ {b} : Idle(c)
  BY <1>1 DEF AloneInv
<1>3. \A c \in Admins : Idle(c)'
  BY <1>1, <1>2, RefreshEffect DEF Idle
<1>4. Revive(b)
  <2>1. admin'[b].pc = "idle"
    BY <1>1 DEF Idle
  <2>2. ~RebuildFails(b)
    BY RefreshFields DEF Fails, FailuresCounted
  <2>3. ~DropCatalog(b)
    BY <1>2, <2>1, RefreshFields
  <2>4. ~FindRevived(b)
    <3>1. SUFFICES ASSUME FindRevived(b) PROVE FALSE
      OBVIOUS
    <3>2. keyRow[row] = "none"
      BY <1>2, <2>1, <3>1, RefreshFields
    <3>3. keyRow' = keyRow
      BY <3>1 DEF FindRevived, store
    <3> QED
      BY <3>2, <3>3 DEF Undisturbed
  <2> QED
    BY <1>1, <2>1, <2>2, <2>3, <2>4, RefreshFields DEF Refresh
<1>5. m.pc = "revive" /\ m.gen = registry.gen /\ m.routable = registry.routable
  BY <1>4, RefreshFields DEF AloneInv
<1>6. row \in Rows /\ row[1] \in Providers
  BY <1>2, <1>4, ReviveEffect DEF Rows
<1>7. row[2] \notin Live'[row[1]].dead
  <2>1. \A p \in Providers :
          m.gen = registry.gen /\ p \in m.routable => Live'[p].dead = Live[p].dead \ {m.revive[2]}
    BY <1>4, ReviveEffect
  <2> QED
    BY <1>2, <1>5, <1>6, <2>1
<1>8. \A c \in Admins : admin'[c].pc # "swap"
  BY <1>3 DEF Idle
<1> QED
  BY <1>6, <1>7, <1>8 DEF Lifted, Undisturbed

\* Every step keeps the record of the keys an admin enabled again.
LEMMA LiftStep ==
  ASSUME WellFormed, WellFormed', FailuresCounted, AloneInv, LiftInv, Running, Notes
  PROVE  LiftInv'
<1> SUFFICES ASSUME NEW row \in lifted' PROVE Lifted(row)'
  BY DEF LiftInv
<1>1. /\ Undisturbed(row) /\ row[2] \notin RejectedKeys
      /\ \/ row \in lifted
         \/ \E b \in Admins :
              /\ Ends(b) /\ solo[b] /\ ~Fails /\ asked[b] # NoRow
              /\ asked[b][1] \in registry.routable /\ row = asked[b]
  BY DEF Notes
<1>2. CASE row \in lifted
  BY <1>1, <1>2, LiftCarried DEF LiftInv
<1> QED
  BY <1>1, <1>2, LiftBegins

-----------------------------------------------------------------------------
\* While the tables and the registry stay, so does the agreement of the pools.
LEMMA PoolsStayInStep ==
  ASSUME PoolsInStep, WellFormed, UNCHANGED <<status, keyRow, registry>>,
         \A p \in Providers : Live'[p].keys = Live[p].keys
  PROVE  PoolsInStep'
<1>1. registry.routable \subseteq Providers
  BY DEF WellFormed, PoolsInv
<1> QED
  BY <1>1 DEF PoolsInStep, EnabledKeys, Routable

\* No statement of a refresh before or after the swap, and no request or
\* fetch, changes which keys the live pools have.
LEMMA KeysStay ==
  ASSUME WellFormed, Running, \A a \in Admins : ~Swap(a)
  PROVE  registry' = registry /\ \A p \in Providers : Live'[p].keys = Live[p].keys
<1>1. CASE Quiet
  BY <1>1 DEF Quiet
<1>2. ASSUME NEW a \in Admins, ListProviders(a) \/ ListKeys(a) \/ CopyStates(a)
      PROVE  registry' = registry /\ \A p \in Providers : Live'[p].keys = Live[p].keys
  BY <1>2 DEF ListProviders, ListKeys, CopyStates, Live
<1>3. ASSUME NEW a \in Admins, Revive(a)
      PROVE  registry' = registry /\ \A p \in Providers : Live'[p].keys = Live[p].keys
  BY <1>3, ReviveEffect DEF Revive
<1>4. ASSUME NEW r \in Requests, Rejected(r)
      PROVE  registry' = registry /\ \A p \in Providers : Live'[p].keys = Live[p].keys
  <2>1. registry' = registry /\ registry.gen \in Generations
    BY <1>4 DEF Rejected, WellFormed, PoolsInv
  <2> QED
    BY <1>4, <2>1, RejectedEffect DEF Live
<1> QED
  BY <1>1, <1>2, <1>3, <1>4, StepKinds

\* A refresh that has met no other mutation keeps following the database ...
LEMMA RefreshFollows ==
  ASSUME WellFormed, WellFormed', Running, NEW a \in Admins, Refresh(a), Follows(admin[a]),
         \A b \in Admins \ {a} : ~Refresh(b)
  PROVE  Follows(admin[a])'
<1> DEFINE m == admin[a]
           n == admin'[a]
<1>0. UNCHANGED <<status, keyRow, clientRow, accessRow>>
  BY RefreshEffect DEF store
<1>1. ~Swap(a) => \A b \in Admins : ~Swap(b)
  BY DEF Refresh
<1>2. ~Swap(a) /\ PoolsInStep => PoolsInStep'
  BY <1>0, <1>1, KeysStay, PoolsStayInStep
<1>3. CASE ListProviders(a)
  BY <1>0, <1>3, RefreshFields DEF Follows
<1>4. CASE ListKeys(a)
  BY <1>0, <1>4, RefreshFields DEF Follows
<1>5. CASE CopyStates(a)
  BY <1>0, <1>5, RefreshFields DEF Follows
<1>6. CASE Swap(a)
  <2>1. m.pc = "swap" /\ n.pc = "clients" /\ m.status = status /\ m.keyRow = keyRow
    BY <1>6, RefreshFields DEF Follows
  <2>2. registry'.routable = Routable(status) /\ Live' = Built(Read(m), m.prev)
    BY <1>6, <2>1, SwapEffect DEF Live
  <2>3. ASSUME NEW p \in Routable(status)
        PROVE  Live'[p].keys = EnabledKeys(keyRow, p)
    <3>1. p \in Providers /\ status[p] = "on"
      BY DEF Routable
    <3>2. \A k \in Keys : Read(m)[<<p, k>>] = keyRow[<<p, k>>]
      BY <2>1, <3>1 DEF Read, Rows
    <3>3. EnabledKeys(Read(m), p) = EnabledKeys(keyRow, p)
      BY <3>2 DEF EnabledKeys
    <3> QED
      BY <2>2, <3>1, <3>3, BuiltPools
  <2>4. PoolsInStep'
    BY <1>0, <2>2, <2>3 DEF PoolsInStep, EnabledKeys, Routable
  <2> QED
    BY <2>1, <2>4 DEF Follows
<1>7. CASE ReadClients(a)
  <2>1. ~Swap(a) /\ m.pc = "clients" /\ n.pc = "ck" /\ n.seen = clientRow
    BY <1>7, RefreshFields DEF ReadClients, Swap
  <2> QED
    BY <1>0, <1>2, <2>1 DEF Follows
<1>8. CASE InstallClients(a)
  <2>1. ~Swap(a) /\ m.pc = "ck" /\ n.pc = "access" /\ clients' = m.seen
    BY <1>8, RefreshFields DEF InstallClients, Swap
  <2> QED
    BY <1>0, <1>2, <2>1 DEF Follows
<1>9. CASE ReadAccess(a)
  <2>1. /\ ~Swap(a) /\ m.pc = "access" /\ n.pc = "ua" /\ n.seen = accessRow
        /\ clients' = clients
    BY <1>9, RefreshFields DEF ReadAccess, Swap, caches
  <2> QED
    BY <1>0, <1>2, <2>1 DEF Follows
<1>10. CASE InstallAccess(a)
  <2>1. /\ ~Swap(a) /\ m.pc = "ua" /\ n.pc = "catalog" /\ denied' = m.seen
        /\ clients' = clients
    BY <1>10, RefreshFields DEF InstallAccess, Swap
  <2> QED
    BY <1>0, <1>2, <2>1 DEF Follows
<1>11. CASE DropCatalog(a)
  <2>1. /\ ~Swap(a) /\ m.pc = "catalog" /\ n.pc \in {"idle", "find"}
        /\ UNCHANGED <<clients, denied, fetching>>
        /\ catalog' = Dropped /\ ~fetching.valid
    <3>1. m.pc = "catalog" /\ n.pc \in {"idle", "find"}
      BY <1>11, RefreshFields DEF IdleAdmin
    <3> QED
      BY <1>11, <3>1 DEF DropCatalog, Swap, caches
  <2>2. fetching = Dropped /\ Dropped.providers = {} /\ ~Dropped.valid
    BY <2>1 DEF WellFormed, PoolsInv, Catalogs, Offered, Dropped
  <2>3. CatalogInStep'
    BY <2>1, <2>2 DEF CatalogInStep
  <2> QED
    BY <1>0, <1>2, <2>1, <2>3 DEF Follows
<1>12. CASE FindRevived(a)
  <2>1. /\ ~Swap(a) /\ m.pc = "find" /\ n.pc \in {"idle", "revive"}
        /\ UNCHANGED <<clients, denied, catalog, fetching>>
    <3>1. m.pc = "find" /\ n.pc \in {"idle", "revive"}
      BY <1>12, RefreshFields DEF IdleAdmin
    <3> QED
      BY <1>12, <3>1 DEF FindRevived, Swap, caches, catalogVars
  <2> QED
    BY <1>0, <1>2, <2>1 DEF Follows, CatalogInStep, Routable
<1>13. CASE Revive(a) \/ RebuildFails(a)
  <2>1. n.pc = "idle"
    BY <1>13, RefreshFields DEF IdleAdmin
  <2> QED
    BY <2>1 DEF Follows
<1> QED
  BY <1>3, <1>4, <1>5, <1>6, <1>7, <1>8, <1>9, <1>10, <1>11, <1>12, <1>13 DEF Refresh

\* ... and shows all of it when it is answered.
LEMMA AnswerFollows ==
  ASSUME WellFormed, WellFormed', FailuresCounted, Running, NEW a \in Admins, Refresh(a),
         Follows(admin[a]), \A b \in Admins \ {a} : ~Refresh(b), Idle(a)', ~Fails
  PROVE  AllInStep'
<1> DEFINE m == admin[a]
<1>0. UNCHANGED <<status, keyRow, clientRow, accessRow>>
  BY RefreshEffect DEF store
<1>1. admin'[a].pc = "idle"
  BY DEF Idle
<1>2. ~RebuildFails(a)
  BY RefreshFields DEF Fails, FailuresCounted
<1>3. DropCatalog(a) \/ FindRevived(a) \/ Revive(a)
  BY <1>1, <1>2, RefreshFields DEF Refresh
<1>4. m.pc \in {"catalog", "find", "revive"} /\ ~Swap(a)
  BY <1>3, RefreshFields DEF Swap
<1>5. PoolsInStep'
  <2>1. \A b \in Admins : ~Swap(b)
    BY <1>4 DEF Refresh
  <2>2. PoolsInStep
    BY <1>4 DEF Follows
  <2> QED
    BY <1>0, <2>1, <2>2, KeysStay, PoolsStayInStep
<1>6. UNCHANGED <<clients, denied>> /\ clients = clientRow /\ denied = accessRow
  BY <1>3, <1>4 DEF Follows, DropCatalog, FindRevived, Revive, caches
<1>7. CatalogInStep'
  <2>1. CASE DropCatalog(a)
    <3>1. UNCHANGED fetching /\ catalog' = Dropped /\ ~fetching.valid
      BY <2>1 DEF DropCatalog
    <3>2. fetching = Dropped /\ Dropped.providers = {} /\ ~Dropped.valid
      BY <3>1 DEF WellFormed, PoolsInv, Catalogs, Offered, Dropped
    <3> QED
      BY <3>1, <3>2 DEF CatalogInStep
  <2>2. CASE FindRevived(a) \/ Revive(a)
    <3>1. CatalogInStep /\ UNCHANGED <<catalog, fetching>>
      BY <2>2, RefreshFields DEF Follows, FindRevived, Revive, catalogVars
    <3> QED
      BY <1>0, <3>1 DEF CatalogInStep, Routable
  <2> QED
    BY <1>3, <2>1, <2>2
<1> QED
  BY <1>0, <1>5, <1>6, <1>7 DEF AllInStep

\* Requests and fetches leave every agreement as it is.
LEMMA OthersFollow ==
  ASSUME WellFormed, WellFormed', Running,
         admin' = admin, \A a \in Admins : ~Mutate(a) /\ ~Refresh(a)
  PROVE  /\ UNCHANGED <<status, keyRow, clientRow, accessRow, clients, denied>>
         /\ PoolsInStep => PoolsInStep'
         /\ PoolsInStep /\ CatalogInStep => CatalogInStep'
<1>1. UNCHANGED <<status, keyRow, clientRow, accessRow, clients, denied, registry>>
  BY OthersEffect DEF Running, store, caches
<1>2. PoolsInStep => PoolsInStep'
  <2>1. \A a \in Admins : ~Swap(a)
    BY DEF Refresh
  <2> QED
    BY <1>1, <2>1, KeysStay, PoolsStayInStep
<1>3. ASSUME PoolsInStep, CatalogInStep PROVE CatalogInStep'
  <2>0. /\ Dropped.providers = {} /\ ~Dropped.valid
        /\ \A ps : Offered(ps).providers = ps
        /\ registry.routable = Routable(status) /\ Routable(status') = Routable(status)
    BY <1>1, <1>3 DEF Dropped, Offered, PoolsInStep, Routable
  <2>1. CASE FetchCatalog
    BY <1>1, <1>3, <2>0, <2>1 DEF FetchCatalog, CatalogInStep
  <2>2. ASSUME NEW reached \in SUBSET Providers, CacheCatalog(reached)
        PROVE  CatalogInStep'
    <3>1. /\ catalog' \in {Offered(reached), catalog, Dropped} /\ fetching' = Dropped
          /\ reached \subseteq fetching.providers
      BY <2>2 DEF CacheCatalog
    <3> QED
      BY <1>1, <1>3, <2>0, <3>1 DEF CatalogInStep
  <2>3. ASSUME NEW r \in Requests, Serve(r) PROVE CatalogInStep'
    <3>1. UNCHANGED <<catalog, fetching>>
      BY <2>3 DEF Serve, Arrive, PickKey, Rejected, End, catalogVars
    <3> QED
      BY <1>1, <1>3, <3>1 DEF CatalogInStep, Routable
  <2> QED
    BY <2>1, <2>2, <2>3 DEF Running
<1> QED
  BY <1>1, <1>2, <1>3

\* Every step keeps what a finished rebuild must have installed.
LEMMA FollowStep ==
  ASSUME WellFormed, WellFormed', FailuresCounted, AloneInv, FollowInv, Running, Notes
  PROVE  FollowInv'
<1>1. ASSUME NEW a \in Admins, solo'[a] PROVE Follows(admin[a])'
  <2>1. CASE Idle(a)'
    BY <2>1 DEF Follows, Idle
  <2>2. CASE ~Idle(a)' /\ Idle(a)
    <3>1. Mutate(a)
      BY <2>2, BeginsByWriting DEF Begins
    <3>2. admin'[a].pc = "providers"
      BY <3>1, MutateEffect
    <3> QED
      BY <3>2 DEF Follows
  <2>3. CASE ~Idle(a)' /\ ~Idle(a)
    <3>1. /\ solo[a] /\ (Refresh(a) \/ admin' = admin)
          /\ \A b \in Admins \ {a} : Idle(b) /\ Idle(b)'
      BY <1>1, <2>3, SoloNoted
    <3>2. Follows(admin[a])
      BY <3>1 DEF FollowInv
    <3>3. \A b \in Admins \ {a} : ~Refresh(b)
      BY <3>1, RefreshEffect
    <3>4. CASE Refresh(a)
      BY <3>2, <3>3, <3>4, RefreshFollows
    <3>5. CASE ~Refresh(a)
      <4>1. admin' = admin /\ \A b \in Admins : ~Refresh(b)
        BY <3>1, <3>3, <3>5
      <4>2. \A b \in Admins : ~Mutate(b)
        BY <4>1, MutateEffect DEF Idle
      <4>3. /\ UNCHANGED <<status, keyRow, clientRow, accessRow, clients, denied>>
            /\ PoolsInStep => PoolsInStep'
            /\ PoolsInStep /\ CatalogInStep => CatalogInStep'
        BY <4>1, <4>2, OthersFollow
      <4> QED
        BY <3>2, <4>1, <4>3 DEF Follows
    <3> QED
      BY <3>4, <3>5
  <2> QED
    BY <2>1, <2>2, <2>3
<1>2. ASSUME settled', AllIdle' PROVE AllInStep'
  <2>1. settled' = IF \E a \in Admins : Ends(a)
                   THEN ~Fails /\ \E a \in Admins : Ends(a) /\ solo[a]
                   ELSE settled
    BY DEF Notes
  <2>2. CASE \E a \in Admins : Ends(a)
    <3>1. PICK a \in Admins : Ends(a) /\ solo[a] /\ ~Fails
      BY <1>2, <2>1, <2>2
    <3>2. Refresh(a) /\ ~Idle(a) /\ Idle(a)'
      BY <3>1, EndsByRefreshing DEF Ends
    <3>3. \A b \in Admins \ {a} : ~Refresh(b)
      BY <3>1, <3>2, RefreshEffect DEF AloneInv
    <3>4. Follows(admin[a])
      BY <3>1 DEF FollowInv
    <3> QED
      BY <3>1, <3>2, <3>3, <3>4, AnswerFollows
  <2>3. CASE ~\E a \in Admins : Ends(a)
    <3>1. settled /\ AllIdle
      BY <1>2, <2>1, <2>3 DEF AllIdle, Ends
    <3>2. \A a \in Admins : ~Refresh(a)
      BY <3>1, RefreshEffect DEF AllIdle
    <3>3. \A a \in Admins : ~Mutate(a)
      <4>1. \A a \in Admins : admin'[a].pc = "idle"
        BY <1>2 DEF AllIdle, Idle
      <4> QED
        BY <4>1, MutateEffect
    <3>4. admin' = admin
      BY <3>2, <3>3, OneMoves
    <3>5. /\ UNCHANGED <<status, keyRow, clientRow, accessRow, clients, denied>>
          /\ PoolsInStep => PoolsInStep'
          /\ PoolsInStep /\ CatalogInStep => CatalogInStep'
      BY <3>2, <3>3, <3>4, OthersFollow
    <3> QED
      BY <3>1, <3>5 DEF FollowInv, AllInStep
  <2> QED
    BY <2>2, <2>3
<1> QED
  BY <1>1, <1>2 DEF FollowInv

-----------------------------------------------------------------------------
\* After a start everything shows the database.
LEMMA StartInStep ==
  ASSUME NEW ps, ps = [g \in Generations |-> IF g = 1 THEN Built(keyRow, {}) ELSE NoPools]
  PROVE  \A p \in Providers : ps[1][p].keys = EnabledKeys(keyRow, p)
  BY StartedPools, BuiltPools

\* The invariant holds initially.
LEMMA RebuildInit == AuditInit => RebuildInv
<1> SUFFICES ASSUME AuditInit PROVE RebuildInv
  OBVIOUS
<1>1. WellFormed /\ FailuresCounted
  BY InitWellFormed DEF AuditInit, Init, FailuresCounted
<1>2. /\ \A a \in Admins : admin[a] = IdleAdmin
      /\ \A r \in Requests : req[r] = IdleRequest
      /\ IdleAdmin.pc = "idle" /\ IdleRequest.pc = "idle" /\ IdleAdmin.revive = NoRow
  BY DEF AuditInit, Init, IdleAdmin, IdleRequest
<1>3. DisableInv /\ AloneInv /\ LiftInv
  BY <1>2 DEF AuditInit, DisableInv, Routed, AloneInv, LiftInv, Idle
<1>4. FollowInv
  <2>1. PoolsInStep
    <3>1. /\ registry = [gen |-> 1, routable |-> Providers]
          /\ status = [p \in Providers |-> "on"]
          /\ pools = [g \in Generations |-> IF g = 1 THEN Built(keyRow, {}) ELSE NoPools]
      BY DEF AuditInit, Init
    <3> QED
      BY <3>1, StartInStep DEF PoolsInStep, Routable, Live
  <2>2. CatalogInStep
    BY DEF AuditInit, Init, CatalogInStep, Dropped
  <2>3. clients = clientRow /\ denied = accessRow
    BY DEF AuditInit, Init
  <2>4. \A a \in Admins : Follows(admin[a])
    BY <1>2 DEF Follows
  <2> QED
    BY <2>1, <2>2, <2>3, <2>4 DEF FollowInv, AllInStep
<1> QED
  BY <1>1, <1>3, <1>4 DEF RebuildInv

\* A restart keeps the invariant.
LEMMA RebuildRestarts ==
  ASSUME RebuildInv, AuditRestart
  PROVE  RebuildInv'
<1>1. WellFormed' /\ FailuresCounted'
  BY RestartKeeps DEF RebuildInv, AuditRestart, Restart, bounds, FailuresCounted
<1>2. /\ \A a \in Admins : admin'[a] = IdleAdmin
      /\ \A r \in Requests : req'[r] = IdleRequest
      /\ IdleAdmin.pc = "idle" /\ IdleRequest.pc = "idle" /\ IdleAdmin.revive = NoRow
  BY DEF AuditRestart, Restart, IdleAdmin, IdleRequest
<1>3. DisableInv' /\ AloneInv' /\ LiftInv'
  BY <1>2 DEF AuditRestart, DisableInv, Routed, AloneInv, LiftInv, Idle
<1>4. FollowInv'
  <2>0. /\ registry' = [gen |-> 1, routable |-> Routable(status)]
        /\ pools' = [g \in Generations |-> IF g = 1 THEN Built(keyRow, {}) ELSE NoPools]
        /\ UNCHANGED <<status, keyRow, clientRow, accessRow>>
    BY DEF AuditRestart, Restart, store
  <2>1. PoolsInStep'
    <3>1. Routable(status) \subseteq Providers /\ Routable(status)' = Routable(status)
      BY <2>0 DEF Routable
    <3>2. Live' = pools'[1] /\ registry'.routable = Routable(status)
      BY <2>0 DEF Live
    <3>3. \A p \in Providers : Live'[p].keys = EnabledKeys(keyRow, p)
      BY <2>0, <3>2, StartInStep
    <3> QED
      BY <2>0, <3>1, <3>2, <3>3 DEF PoolsInStep, EnabledKeys
  <2>2. CatalogInStep'
    BY DEF AuditRestart, Restart, CatalogInStep, Dropped
  <2>3. clients' = clientRow' /\ denied' = accessRow'
    BY <2>0 DEF AuditRestart, Restart
  <2>4. \A a \in Admins : Follows(admin[a])'
    BY <1>2 DEF Follows
  <2> QED
    BY <2>1, <2>2, <2>3, <2>4 DEF FollowInv, AllInStep
<1> QED
  BY <1>1, <1>3, <1>4 DEF RebuildInv

\* Every step keeps the invariant.
LEMMA RebuildStep == RebuildInv /\ [AuditNext]_auditVars => RebuildInv'
<1> SUFFICES ASSUME RebuildInv, [AuditNext]_auditVars PROVE RebuildInv'
  OBVIOUS
<1>1. WellFormed /\ FailuresCounted /\ DisableInv /\ AloneInv /\ LiftInv /\ FollowInv
  BY DEF RebuildInv
<1>2. WellFormed' /\ FailuresCounted'
  BY <1>1, AuditSteps, StepWellFormed, FailuresStep
<1>3. CASE Running /\ Notes
  BY <1>1, <1>2, <1>3, DisableStep, AloneStep, LiftStep, FollowStep DEF RebuildInv
<1>4. CASE AuditRestart
  BY <1>4, RebuildRestarts
<1>5. CASE UNCHANGED auditVars
  BY <1>1, <1>2, <1>5 DEF RebuildInv, DisableInv, Disabled, Routed, AloneInv, LiftInv, Lifted,
     FollowInv, Follows, PoolsInStep, CatalogInStep, AllInStep, AllIdle, Idle, Exclusive, Live,
     auditVars, vars, store, caches, catalogVars, EnabledKeys, Routable
<1> QED
  BY <1>3, <1>4, <1>5 DEF AuditNext

\* The invariant holds in every reachable state.
LEMMA RebuildInvariant == AuditSpec => []RebuildInv
  BY RebuildInit, RebuildStep, PTL DEF AuditSpec

\* "The runtime disable survives pool rebuilds" (KeyState.DisabledReason): a
\* key rejected on the live pool while no rebuild was copying it stays out of
\* rotation, whatever rebuilds of whichever handlers follow.
THEOREM DisablesSurvive == AuditSpec => []DisableSurvivesRebuilds
<1>1. RebuildInv => DisableSurvivesRebuilds
  BY DEF RebuildInv, DisableInv, Disabled, DisableSurvivesRebuilds
<1> QED
  BY <1>1, RebuildInvariant, PTL

\* A key switched on again by a mutation that met no other stays in rotation:
\* no later rebuild brings the old disable back.
THEOREM RevivalsStick == AuditSpec => []ReenableSticks
<1>1. RebuildInv => ReenableSticks
  BY DEF RebuildInv, LiftInv, Lifted, ReenableSticks
<1> QED
  BY <1>1, RebuildInvariant, PTL

\* "GUI changes hit the hot path within the same request" (rebuildPools): once
\* a mutation that met no other is answered, registry, pools, client keys,
\* access and catalog show the database, whatever happened before.
THEOREM AnswersAreLive == AuditSpec => []ChangesAreLive
<1>1. RebuildInv => ChangesAreLive
  BY DEF RebuildInv, FollowInv, AllInStep, PoolsInStep, CatalogInStep, ChangesAreLive, InStep
<1> QED
  BY <1>1, RebuildInvariant, PTL

=============================================================================
