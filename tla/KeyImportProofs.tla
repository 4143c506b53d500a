--------------------------- MODULE KeyImportProofs ---------------------------
(***************************************************************************)
(* Theorems about adding keys, for any files, requests and degree of       *)
(* parallelism.                                                            *)
(***************************************************************************)
EXTENDS KeyImportAudit, WellFoundedInduction, TLAPS

-----------------------------------------------------------------------------
(***************************************************************************)
(* Least members, and the keys gathered from a file.                       *)
(***************************************************************************)
\* A set of naturals that is not empty has a least member.
LEMMA NatHasLeast ==
  ASSUME NEW T, T \subseteq Nat, T # {}
  PROVE  \E n \in T : \A k \in T : n =< k
<1>1. PICK n \in T : \A k \in T : ~(<<k, n>> \in OpToRel(<, Nat))
  BY WFMin, NatLessThanWellFounded
<1>2. ASSUME NEW k \in T PROVE n =< k
  <2>1. ~(k < n)
    BY <1>1 DEF OpToRel
  <2> QED
    BY <2>1
<1> QED
  BY <1>2

\* Min is what its name says.
LEMMA MinIs ==
  ASSUME NEW T, T \subseteq Nat, T # {}
  PROVE  Min(T) \in T
<1>1. \E n \in T : \A k \in T : n =< k
  BY NatHasLeast
<1> QED
  BY <1>1 DEF Min

\* So is Max, of a set below some bound.
LEMMA MaxIs ==
  ASSUME NEW T, T \subseteq Nat, T # {}, NEW b \in Nat, \A k \in T : k =< b
  PROVE  Max(T) \in T /\ \A k \in T : k =< Max(T)
<1> DEFINE B == {n \in Nat : \A k \in T : k =< n}
<1>1. PICK n \in B : \A k \in B : n =< k
  BY NatHasLeast
<1>2. n \in T
  <2>1. SUFFICES ASSUME n \notin T PROVE FALSE
    OBVIOUS
  <2>2. \A k \in T : k < n
    BY <1>1, <2>1
  <2>3. PICK k \in T : TRUE
    OBVIOUS
  <2>4. n - 1 \in Nat /\ \A j \in T : j =< n - 1
    BY <2>2, <2>3
  <2> QED
    BY <1>1, <2>4
<1>3. \E x \in T : \A y \in T : x >= y
  BY <1>1, <1>2
<1> QED
  BY <1>3 DEF Max

Key == GoodKeys \cup BadKeys \cup {Blank}
Status == {"pending", "rejected", "duplicate", "added", "wrong", "refused", "unverifiable"}

\* g holds what ToAdd has gathered after 0, 1, ... n entries.
Gathered(q, g, n) ==
  g = [k \in 0 .. n |->
         IF k = 0 THEN <<>>
         ELSE IF q.res[k] = "added" THEN Append(g[k - 1], q.file[k]) ELSE g[k - 1]]

\* The fold ToAdd is defined by has a value for every prefix of the file.
LEMMA GatheredExists ==
  ASSUME NEW q, NEW n \in Nat
  PROVE  \E g : Gathered(q, g, n)
<1> DEFINE T == {k \in Nat : ~ \E g : Gathered(q, g, k)}
<1>1. SUFFICES ASSUME T # {} PROVE FALSE
  OBVIOUS
<1>2. PICK k \in T : \A j \in T : k =< j
  BY <1>1, NatHasLeast
<1>3. CASE k = 0
  <2>1. Gathered(q, [i \in 0 .. 0 |-> <<>>], 0)
    BY DEF Gathered
  <2> QED
    BY <1>3, <2>1
<1>4. CASE k > 0
  <2>1. k - 1 \in Nat /\ k - 1 \notin T
    BY <1>2, <1>4
  <2>2. PICK f : Gathered(q, f, k - 1)
    BY <2>1
  <2> DEFINE last == IF q.res[k] = "added" THEN Append(f[k - 1], q.file[k]) ELSE f[k - 1]
             g == [i \in 0 .. k |-> IF i = k THEN last ELSE f[i]]
  <2>3. \A i \in 0 .. k - 1 : f[i] = IF i = 0 THEN <<>>
                                     ELSE IF q.res[i] = "added" THEN Append(f[i - 1], q.file[i])
                                     ELSE f[i - 1]
    BY <2>2 DEF Gathered
  <2>4. \A i \in 0 .. k - 1 : g[i] = f[i]
    OBVIOUS
  <2>5. g[k] = IF q.res[k] = "added" THEN Append(g[k - 1], q.file[k]) ELSE g[k - 1]
    BY <1>4, <2>1, <2>4
  <2>6. \A i \in 0 .. k : g[i] = IF i = 0 THEN <<>>
                                 ELSE IF q.res[i] = "added" THEN Append(g[i - 1], q.file[i])
                                 ELSE g[i - 1]
    <3> HIDE DEF g
    <3>1. ASSUME NEW i \in 0 .. k - 1, i # 0 PROVE g[i - 1] = f[i - 1]
      BY <2>4, <3>1
    <3> QED
      BY <1>4, <2>3, <2>4, <2>5, <3>1
  <2>7. Gathered(q, g, k)
    <3>1. g = [i \in 0 .. k |-> g[i]]
      OBVIOUS
    <3> HIDE DEF g
    <3> QED
      BY <2>6, <3>1 DEF Gathered
  <2> QED
    BY <2>7
<1> QED
  BY <1>3, <1>4

\* The entries of q's file that keys comes from, in their order.
Selects(q, keys, entry, n) ==
  /\ keys \in Seq(Key)
  /\ entry \in [DOMAIN keys -> 1 .. n]
  /\ \A i, j \in DOMAIN keys : i < j => entry[i] < entry[j]
  /\ \A i \in DOMAIN keys : keys[i] = q.file[entry[i]] /\ q.res[entry[i]] = "added"

\* What is gathered are entries that were added, in file order.
LEMMA GatheredSelects ==
  ASSUME NEW q, q.file \in Seq(Key), NEW g, Gathered(q, g, Len(q.file)),
         NEW n \in 0 .. Len(q.file)
  PROVE  \E entry : Selects(q, g[n], entry, n)
<1> DEFINE T == {k \in 0 .. Len(q.file) : ~ \E entry : Selects(q, g[k], entry, k)}
<1>1. SUFFICES ASSUME T # {} PROVE FALSE
  OBVIOUS
<1>2. T \subseteq Nat
  OBVIOUS
<1>3. PICK k \in T : \A j \in T : k =< j
  <2> HIDE DEF T
  <2> QED
    BY <1>1, <1>2, NatHasLeast
<1>4. CASE k = 0
  <2>1. g[0] = <<>>
    BY DEF Gathered
  <2>2. Selects(q, <<>>, [i \in {} |-> 0], 0)
    BY DEF Selects
  <2> QED
    BY <1>3, <1>4, <2>1, <2>2
<1>5. CASE k > 0
  <2>1. k - 1 \in 0 .. Len(q.file) /\ k - 1 \notin T /\ k \in Nat
    BY <1>3, <1>5
  <2>2. PICK e : Selects(q, g[k - 1], e, k - 1)
    BY <2>1
  <2>3. g[k] = IF q.res[k] = "added" THEN Append(g[k - 1], q.file[k]) ELSE g[k - 1]
    <3>1. k \in 0 .. Len(q.file) /\ k # 0
      BY <1>3, <1>5
    <3> QED
      BY <3>1 DEF Gathered
  <2>4. CASE q.res[k] # "added"
    <3>1. Selects(q, g[k], e, k)
      BY <1>5, <2>1, <2>2, <2>3, <2>4 DEF Selects
    <3> QED
      BY <1>3, <3>1
  <2>5. CASE q.res[k] = "added"
    <3> DEFINE old == g[k - 1]
               keys == Append(old, q.file[k])
               entry == [i \in DOMAIN keys |-> IF i \in DOMAIN old THEN e[i] ELSE k]
    <3>1. old \in Seq(Key) /\ q.file[k] \in Key
      BY <1>3, <1>5, <2>2 DEF Selects
    <3> HIDE DEF old
    <3>2. /\ keys \in Seq(Key) /\ Len(old) \in Nat
          /\ DOMAIN keys = 1 .. Len(old) + 1 /\ DOMAIN old = 1 .. Len(old)
          /\ keys[Len(old) + 1] = q.file[k] /\ \A i \in DOMAIN old : keys[i] = old[i]
      BY <3>1
    <3>3. /\ \A i \in DOMAIN old : e[i] \in 1 .. k - 1
          /\ \A i, j \in DOMAIN old : i < j => e[i] < e[j]
          /\ \A i \in DOMAIN old : old[i] = q.file[e[i]] /\ q.res[e[i]] = "added"
      BY <2>2 DEF Selects, old
    <3> HIDE DEF keys
    <3>4. /\ \A i \in DOMAIN old : entry[i] = e[i]
          /\ entry[Len(old) + 1] = k
      BY <3>2
    <3>5. entry \in [DOMAIN keys -> 1 .. k]
      BY <2>1, <1>5, <3>2, <3>3
    <3> HIDE DEF entry
    <3>6. \A i, j \in DOMAIN keys : i < j => entry[i] < entry[j]
      <4> SUFFICES ASSUME NEW i \in DOMAIN keys, NEW j \in DOMAIN keys, i < j
                   PROVE  entry[i] < entry[j]
        OBVIOUS
      <4>1. i \in DOMAIN old /\ entry[i] = e[i] /\ e[i] \in 1 .. k - 1
        BY <3>2, <3>3, <3>4
      <4>2. CASE j \in DOMAIN old
        BY <3>3, <3>4, <4>1, <4>2
      <4>3. CASE j = Len(old) + 1
        BY <2>1, <3>4, <4>1, <4>3
      <4> QED
        BY <3>2, <4>2, <4>3
    <3>7. \A i \in DOMAIN keys : keys[i] = q.file[entry[i]] /\ q.res[entry[i]] = "added"
      BY <2>5, <3>2, <3>3, <3>4
    <3>8. Selects(q, keys, entry, k)
      BY <3>2, <3>5, <3>6, <3>7 DEF Selects
    <3> QED
      BY <1>3, <2>3, <2>5, <3>8 DEF keys, old
  <2> QED
    BY <2>4, <2>5
<1> QED
  BY <1>3, <1>4, <1>5

\* ToAdd picks entries that were added, in file order.
LEMMA ToAddSelects ==
  ASSUME NEW q, q.file \in Seq(Key)
  PROVE  \E entry : Selects(q, ToAdd(q), entry, Len(q.file))
<1> DEFINE n == Len(q.file)
           g == CHOOSE f : f = [k \in 0 .. n |->
                  IF k = 0 THEN <<>>
                  ELSE IF q.res[k] = "added" THEN Append(f[k - 1], q.file[k]) ELSE f[k - 1]]
<1>1. n \in Nat
  OBVIOUS
<1>2. Gathered(q, g, n)
  <2>1. \E f : Gathered(q, f, n)
    BY <1>1, GatheredExists
  <2> HIDE DEF n
  <2> QED
    BY <2>1 DEF Gathered
<1>3. ToAdd(q) = g[n]
  BY DEF ToAdd
<1> HIDE DEF g
<1> QED
  BY <1>1, <1>2, <1>3, GatheredSelects

-----------------------------------------------------------------------------
(***************************************************************************)
(* Verdicts and cheap checks.                                              *)
(***************************************************************************)
\* Only the upstream's own keys pass, if there is a surface to ask, whatever
\* fails to be answered.
LEMMA OnlyGoodKeysPass ==
  ASSUME NEW key, NEW surfaces \in SUBSET Surfaces, surfaces # {},
         NEW a \in Answers(key, surfaces), Verdict(a) = "added"
  PROVE  key \in GoodKeys
<1> SUFFICES ASSUME key \notin GoodKeys PROVE FALSE
  OBVIOUS
<1> DEFINE probes == Probes(surfaces)
           rejecting == {i \in DOMAIN a : a[i] \in {"wrong", "refused"}}
<1>1. /\ probes \in Seq({"list", "call"}) /\ {1, 2} \subseteq DOMAIN probes /\ probes[1] = "list"
      /\ DOMAIN probes \subseteq Nat
  <2>1. CASE "openai" \in surfaces
    <3> DEFINE rest == IF "anthropic" \in surfaces THEN <<"list", "call">> ELSE <<>>
    <3>1. probes = <<"list", "call">> \o rest
      BY <2>1 DEF Probes
    <3>2. <<>> \in Seq({"list", "call"}) /\ <<"list", "call">> \in Seq({"list", "call"})
      OBVIOUS
    <3>3. rest \in Seq({"list", "call"})
      BY <3>2
    <3> HIDE DEF rest
    <3> QED
      BY <3>1, <3>2, <3>3
  <2>2. CASE "openai" \notin surfaces
    <3>1. "anthropic" \in surfaces
      BY <2>2 DEF Surfaces
    <3>2. probes = <<>> \o <<"list", "call">>
      BY <2>2, <3>1 DEF Probes
    <3> QED
      BY <3>2
  <2> QED
    BY <2>1, <2>2
<1> HIDE DEF probes
<1>2. /\ DOMAIN a = DOMAIN probes
      /\ \A i \in DOMAIN probes : a[i] \in {"ok", "fault", "wrong", "refused"}
      /\ a[1] # "ok" \/ a[2] # "ok"
  <2>1. /\ a \in [DOMAIN probes -> MayAnswer(key)]
        /\ \A i \in DOMAIN probes : probes[i] = "list" => a[i] # "ok" \/ a[i + 1] # "ok"
    BY DEF Answers, probes
  <2>2. MayAnswer(key) = {"ok", "fault", "wrong", "refused"}
    BY DEF MayAnswer
  <2>3. a[1] # "ok" \/ a[1 + 1] # "ok"
    BY <1>1, <2>1
  <2> QED
    BY <2>1, <2>2, <2>3
<1>3. CASE rejecting # {}
  <2>1. Min(rejecting) \in rejecting
    <3>1. rejecting \subseteq Nat
      BY <1>1, <1>2
    <3> HIDE DEF rejecting
    <3> QED
      BY <1>3, <3>1, MinIs
  <2>2. Verdict(a) = a[Min(rejecting)]
    BY <1>3 DEF Verdict
  <2> QED
    BY <2>1, <2>2
<1>4. CASE rejecting = {}
  <2>1. a[1] = "fault" \/ a[2] = "fault"
    BY <1>1, <1>2, <1>4
  <2>2. "fault" \in ToSet(a)
    BY <1>1, <1>2, <2>1 DEF ToSet
  <2> QED
    BY <1>4, <2>2 DEF Verdict
<1> QED
  BY <1>3, <1>4

\* A verdict is one of these.
Verdicts == {"added", "wrong", "refused", "unverifiable"}

\* Every answer of the upstream has a verdict.
LEMMA VerdictIs ==
  ASSUME NEW key, NEW surfaces, NEW a \in Answers(key, surfaces)
  PROVE  Verdict(a) \in Verdicts
<1> DEFINE rejecting == {i \in DOMAIN a : a[i] \in {"wrong", "refused"}}
<1>1. CASE rejecting # {}
  <2>1. DOMAIN a \subseteq Nat
    BY DEF Answers, Probes
  <2>2. Min(rejecting) \in rejecting
    <3>1. rejecting \subseteq Nat
      BY <2>1
    <3> HIDE DEF rejecting
    <3> QED
      BY <1>1, <3>1, MinIs
  <2>3. Verdict(a) = a[Min(rejecting)]
    BY <1>1 DEF Verdict
  <2> QED
    BY <2>2, <2>3 DEF Verdicts
<1>2. CASE rejecting = {}
  BY <1>2 DEF Verdict, Verdicts
<1> QED
  BY <1>1, <1>2

\* What the cheap checks let through is not held, and once in the file.
LEMMA CheapIs ==
  ASSUME NEW file \in Seq(Key), NEW held
  PROVE  /\ Cheap(file, held) \in Seq({"pending", "rejected", "duplicate"})
         /\ Len(Cheap(file, held)) = Len(file)
         /\ \A i \in 1 .. Len(file) : Cheap(file, held)[i] = "pending" =>
              /\ file[i] # Blank /\ file[i] \notin held
              /\ \A j \in 1 .. i - 1 : file[j] # file[i]
<1> DEFINE c == Cheap(file, held)
           n == Len(file)
<1>1. n \in Nat /\ DOMAIN file = 1 .. n
  OBVIOUS
<1>2. c \in [1 .. n -> {"pending", "rejected", "duplicate"}]
  BY <1>1 DEF Cheap
<1>3. c \in Seq({"pending", "rejected", "duplicate"}) /\ Len(c) = n
  <2> HIDE DEF c, n
  <2> QED
    BY <1>1, <1>2
<1>4. ASSUME NEW i \in 1 .. n, c[i] = "pending"
      PROVE  file[i] # Blank /\ file[i] \notin held /\ \A j \in 1 .. i - 1 : file[j] # file[i]
  BY <1>1, <1>4 DEF Cheap
<1> QED
  BY <1>3, <1>4

-----------------------------------------------------------------------------
(***************************************************************************)
(* The invariant.                                                          *)
(***************************************************************************)
Provider == [id : Nat, surfaces : SUBSET Surfaces]
Progress ==
  [pc : {"idle", "verify", "order", "write"}, op : {"", "import", "add", "create", "patch"},
   prov : Provider, file : Seq(Key), res : Seq(Status), running : SUBSET Nat,
   cancelled : BOOLEAN, order : Nat, clear : Surfaces \cup {""}]

\* A request is well formed; an order it has read is below the next row's
\* id; an add or a create gets past its probes only if they all passed.
GoodRequest(q, last) ==
  /\ q \in Progress /\ Len(q.res) = Len(q.file)
  /\ q.running \subseteq {i \in DOMAIN q.res : q.res[i] = "pending"}
  /\ q.pc = "idle" => q = Idle
  /\ q.pc # "idle" => q.op # ""
  /\ q.op = "add" => Len(q.file) = 1
  /\ q.op \in {"import", "add", "patch"} => q.prov.id # 0
  /\ q.pc = "verify" => q.op # "patch"
  /\ q.pc = "order" => q.op = "add"
  /\ q.order =< last
  /\ q.op \in {"add", "create"} =>
       \A i \in DOMAIN q.res : q.res[i] = "added" \/ (q.res[i] = "pending" /\ q.pc = "verify")

\* A request that probes has a surface to ask, and passes good keys only.
Honest(q) ==
  /\ q.op \in {"import", "add", "create"} => q.prov.surfaces # {}
  /\ \A i \in DOMAIN q.res : q.res[i] = "added" => q.file[i] \in GoodKeys

\* What a request has checked holds of a provider with these keys.
Passed(q) == {i \in DOMAIN q.res : q.res[i] \notin {"rejected", "duplicate"}}
Fresh(q, prov, held) ==
  /\ \A i, j \in Passed(q) : i # j => q.file[i] # q.file[j]
  /\ q.op \in {"import", "add"} /\ prov.id = q.prov.id =>
       \A i \in Passed(q) : q.file[i] \notin held
  /\ q.op = "patch" => /\ prov.id = q.prov.id => prov.surfaces = q.prov.surfaces
                       /\ q.prov.surfaces \ {q.clear} # {}
  /\ q.op = "create" => q.prov.surfaces # {}

WellFormed ==
  /\ provider \in Provider
  /\ rows \subseteq [id : Nat, key : Key, order : Nat]
  /\ lastIds \in [1 .. 2 -> Nat]
  /\ \A r \in Requests : GoodRequest(req[r], lastIds[2])
  /\ req = [r \in Requests |-> req[r]]

\* A row's order is below its id, and an import's rows come after all that
\* are older.
OrderInv ==
  /\ \A k \in rows : k.order < k.id /\ k.id =< lastIds[2]
  /\ imported \subseteq {k.id : k \in rows}
  /\ \A y \in rows : y.id \in imported => \A x \in rows : x.id < y.id => Before(x, y)

HonestInv ==
  bare \/ /\ \A k \in rows : k.key \in GoodKeys
          /\ provider.id # 0 => provider.surfaces # {}
          /\ \A r \in Requests : Honest(req[r])

Unique(set) == \A x, y \in set : x.key = y.key => x = y
Served(prov) == prov.id # 0 => prov.surfaces # {}

FreshInv ==
  /\ \A r \in stale : req[r].pc # "idle"
  /\ \/ raced
     \/ /\ Unique(rows) /\ Served(provider)
        /\ \A r \in Requests : r \in stale \/ Fresh(req[r], provider, Held)

KeyInv ==
  /\ bare \in BOOLEAN /\ raced \in BOOLEAN
  /\ WellFormed /\ OrderInv /\ HonestInv /\ FreshInv

\* The next row's order is above every row's, and not above the last id.
LEMMA NextOrderIs ==
  ASSUME KeyInv
  PROVE  /\ NextOrder \in Nat /\ NextOrder =< lastIds[2]
         /\ \A k \in rows : k.order < NextOrder
<1>1. /\ lastIds[2] \in Nat
      /\ \A k \in rows : k.order \in Nat /\ k.id \in Nat /\ k.order < k.id /\ k.id =< lastIds[2]
  BY DEF KeyInv, WellFormed, OrderInv
<1> DEFINE orders == {k.order : k \in rows}
<1>2. CASE rows = {}
  BY <1>1, <1>2 DEF NextOrder
<1>3. CASE rows # {}
  <2>1. orders \subseteq Nat /\ orders # {} /\ \A o \in orders : o =< lastIds[2]
    BY <1>1, <1>3
  <2>2. Max(orders) \in orders /\ \A o \in orders : o =< Max(orders)
    <3> HIDE DEF orders
    <3> QED
      BY <1>1, <2>1, MaxIs
  <2>3. NextOrder = Max(orders) + 1
    BY <1>3 DEF NextOrder
  <2>4. PICK k \in rows : Max(orders) = k.order
    BY <2>2
  <2>5. \A j \in rows : j.order =< Max(orders)
    BY <2>2
  <2> HIDE DEF orders
  <2> QED
    BY <1>1, <2>3, <2>4, <2>5
<1> QED
  BY <1>2, <1>3

-----------------------------------------------------------------------------
(***************************************************************************)
(* What every step does to the notes.                                      *)
(***************************************************************************)
\* Idle is a request, and has nothing to go stale.
LEMMA IdleIs ==
  /\ Idle \in Progress /\ Idle.pc = "idle" /\ Idle.op = ""
  /\ \A last \in Nat : GoodRequest(Idle, last)
  /\ Honest(Idle) /\ \A prov, held : Fresh(Idle, prov, held)
<1>1. Idle \in Progress /\ Idle.pc = "idle" /\ Idle.op = "" /\ DOMAIN Idle.res = {}
  BY DEF Idle, NoProvider, Progress, Provider
<1>2. Idle.running = {} /\ Len(Idle.res) = Len(Idle.file) /\ Idle.order = 0
  BY DEF Idle
<1>3. \A last \in Nat : GoodRequest(Idle, last)
  <2>1. \A last \in Nat : Idle.order =< last
    BY <1>2
  <2>2. Idle.running \subseteq {i \in DOMAIN Idle.res : Idle.res[i] = "pending"}
    BY <1>2
  <2> HIDE DEF Idle
  <2> QED
    BY <1>1, <1>2, <2>1, <2>2 DEF GoodRequest
<1>4. Honest(Idle)
  BY <1>1 DEF Honest
<1>5. \A prov, held : Fresh(Idle, prov, held)
  BY <1>1 DEF Fresh, Passed
<1> QED
  BY <1>1, <1>3, <1>4, <1>5

\* A request stays well formed while rows are added.
LEMMA GoodLater ==
  ASSUME NEW q, NEW a \in Nat, NEW b \in Nat, a =< b, GoodRequest(q, a)
  PROVE  GoodRequest(q, b)
<1>1. q.order \in Nat
  BY DEF GoodRequest, Progress
<1>2. q.order =< a
  BY Zenon DEF GoodRequest
<1>3. q.order =< b
  BY <1>1, <1>2
<1> QED
  BY <1>3, Zenon DEF GoodRequest

\* A request takes a step that writes nothing.
LEMMA Moves ==
  ASSUME KeyInv, Notes, NEW r \in Requests, NEW q, Becomes(r, q),
         UNCHANGED <<provider, rows, lastIds>>, GoodRequest(q, lastIds[2]),
         bare \/ Honest(q), raced \/ r \in stale \/ Fresh(q, provider, Held)
  PROVE  KeyInv'
<1>1. /\ req' = [s \in Requests |-> IF s = r THEN q ELSE req[s]]
      /\ \A s \in Requests : req'[s] = IF s = r THEN q ELSE req[s]
  BY DEF Becomes, KeyInv, WellFormed
<1>2. /\ provider' = provider /\ rows' = rows /\ lastIds' = lastIds /\ Held' = Held
  BY DEF Held
<1>3. \A s \in Requests : ~Saves(s)
  BY DEF Saves
<1>4. /\ imported' = imported /\ raced' = raced
      /\ stale' = {s \in Requests : req'[s] # Idle /\ s \in stale}
      /\ bare' = (bare \/ (provider.id # 0 /\ provider.surfaces = {}))
  BY <1>2, <1>3 DEF Notes, KeyInv, OrderInv
<1>5. WellFormed'
  BY <1>1, <1>2 DEF KeyInv, WellFormed
<1>6. OrderInv'
  <2>1. (\A k \in rows : k.order < k.id /\ k.id =< lastIds[2])'
    BY <1>2 DEF KeyInv, OrderInv
  <2>2. imported' \subseteq {k.id : k \in rows'}
    BY <1>2, <1>4 DEF KeyInv, OrderInv
  <2>3. (\A y \in rows : y.id \in imported => \A x \in rows : x.id < y.id => Before(x, y))'
    BY <1>2, <1>4 DEF KeyInv, OrderInv, Before
  <2> QED
    BY <2>1, <2>2, <2>3 DEF OrderInv
<1>7. HonestInv'
  BY <1>1, <1>2, <1>4 DEF KeyInv, HonestInv
<1>8. FreshInv'
  <2>1. \A s \in stale' : req'[s].pc # "idle"
    BY <1>4, <1>5 DEF WellFormed, GoodRequest
  <2>2. ASSUME ~raced, NEW s \in Requests PROVE s \in stale' \/ Fresh(req'[s], provider, Held)
    <3>1. CASE req'[s] = Idle
      BY <3>1, IdleIs
    <3>2. CASE req'[s] # Idle
      BY <1>1, <1>4, <2>2, <3>2 DEF KeyInv, FreshInv
    <3> QED
      BY <3>1, <3>2
  <2> QED
    BY <1>2, <1>4, <2>1, <2>2 DEF KeyInv, FreshInv
<1>9. bare' \in BOOLEAN /\ raced' \in BOOLEAN
  BY <1>4 DEF KeyInv
<1> QED
  BY <1>5, <1>6, <1>7, <1>8, <1>9 DEF KeyInv

\* A request ends with its write.
LEMMA Writes ==
  ASSUME KeyInv, Notes, NEW r \in Requests, req[r].pc = "write", Becomes(r, Idle),
         provider' \in Provider, rows' \subseteq [id : Nat, key : Key, order : Nat],
         lastIds' \in [1 .. 2 -> Nat], lastIds[2] =< lastIds'[2],
         \A k \in rows' : k.order < k.id /\ k.id =< lastIds'[2],
         \A k \in rows' \ rows : k.id > lastIds[2],
         req[r].op = "import" =>
           \A y \in rows' \ rows : \A x \in rows' : x.id < y.id => Before(x, y),
         bare \/ \A k \in rows' : k.key \in GoodKeys,
         raced \/ r \in stale \/ (Unique(rows') /\ Served(provider'))
  PROVE  KeyInv'
<1>1. /\ req' = [s \in Requests |-> IF s = r THEN Idle ELSE req[s]]
      /\ \A s \in Requests : req'[s] = IF s = r THEN Idle ELSE req[s]
  BY DEF Becomes, KeyInv, WellFormed
<1>2. lastIds[2] \in Nat /\ lastIds'[2] \in Nat
  BY DEF KeyInv, WellFormed
<1>3. \A s \in Requests \ {r} : ~Saves(s)
  BY <1>1, IdleIs DEF Saves
<1> DEFINE new == {k.id : k \in rows' \ rows}
           savers == {s \in Requests : Saves(s)}
<1>4. savers \subseteq {r}
  BY <1>3
<1>5. /\ imported' = (IF \E s \in savers : req[s].op = "import" THEN imported \cup new ELSE imported)
                     \cap {k.id : k \in rows'}
      /\ stale' = {s \in Requests : req'[s] # Idle /\ (s \in stale \/ (savers # {} /\ req[s] # Idle))}
      /\ raced' = (raced \/ savers \cap stale # {})
      /\ bare' = (bare \/ (provider'.id # 0 /\ provider'.surfaces = {}))
  BY DEF Notes
<1>6. WellFormed'
  <2>1. \A s \in Requests : GoodRequest(req'[s], lastIds'[2])
    BY <1>1, <1>2, IdleIs, GoodLater DEF KeyInv, WellFormed
  <2> QED
    BY <1>1, <2>1 DEF WellFormed
<1>7. OrderInv'
  <2>1. ASSUME NEW y \in rows', y.id \in imported', NEW x \in rows', x.id < y.id
        PROVE  Before(x, y)
    <3>1. \A k \in rows : k.id \in Nat /\ k.id =< lastIds[2]
      BY DEF KeyInv, OrderInv, WellFormed
    <3>2. \A k \in rows' : k.id \in Nat
      OBVIOUS
    <3>3. \A i \in new : i > lastIds[2]
      OBVIOUS
    <3>4. \A i \in imported : i =< lastIds[2]
      BY <3>1 DEF KeyInv, OrderInv
    <3>5. CASE y \in rows
      <4>1. y.id =< lastIds[2] /\ x.id =< lastIds[2]
        BY <1>2, <2>1, <3>1, <3>2, <3>5
      <4>2. x \in rows
        BY <1>2, <3>2, <4>1
      <4>3. y.id \notin new
        BY <1>2, <3>2, <3>3, <4>1
      <4>4. y.id \in imported
        BY <1>5, <2>1, <4>3
      <4> QED
        BY <2>1, <3>5, <4>2, <4>4 DEF KeyInv, OrderInv
    <3>6. CASE y \notin rows
      <4>1. y.id \notin imported
        BY <1>2, <3>2, <3>4, <3>6
      <4>2. req[r].op = "import"
        BY <1>4, <1>5, <2>1, <4>1
      <4> QED
        BY <2>1, <3>6, <4>2
    <3> QED
      BY <3>5, <3>6
  <2>2. imported' \subseteq {k.id : k \in rows'}
    BY <1>5
  <2>3. (\A y \in rows : y.id \in imported => \A x \in rows : x.id < y.id => Before(x, y))'
    BY <2>1 DEF Before
  <2> QED
    BY <2>2, <2>3 DEF OrderInv
<1>8. HonestInv'
  <2>1. ~bare' => ~bare /\ (provider'.id # 0 => provider'.surfaces # {})
    BY <1>5
  <2>2. ~bare => \A s \in Requests : Honest(req'[s])
    BY <1>1, IdleIs DEF KeyInv, HonestInv
  <2> QED
    BY <2>1, <2>2 DEF HonestInv
<1>9. FreshInv'
  <2>1. \A s \in stale' : req'[s].pc # "idle"
    BY <1>5, <1>6 DEF WellFormed, GoodRequest
  <2>2. CASE <<provider, rows>>' = <<provider, rows>>
    <3>1. savers = {} /\ Held' = Held /\ provider' = provider /\ rows' = rows
      BY <2>2 DEF Saves, Held
    <3>2. raced' = raced /\ stale' = {s \in Requests : req'[s] # Idle /\ s \in stale}
      BY <1>5, <3>1 DEF KeyInv
    <3>3. ASSUME ~raced, NEW s \in Requests
          PROVE  s \in stale' \/ Fresh(req'[s], provider, Held)
      BY <1>1, <3>2, <3>3, IdleIs DEF KeyInv, FreshInv
    <3> QED
      BY <2>1, <3>1, <3>2, <3>3 DEF KeyInv, FreshInv
  <2>3. CASE <<provider, rows>>' # <<provider, rows>>
    <3>1. savers = {r}
      BY <1>1, <1>4, <2>3 DEF Saves
    <3>2. raced' = (raced \/ r \in stale)
      BY <1>5, <3>1
    <3>3. \A s \in Requests : req'[s] = Idle \/ s \in stale'
      BY <1>1, <1>5, <3>1
    <3>4. \A s \in Requests : s \in stale' \/ Fresh(req'[s], provider', Held')
      BY <3>3, IdleIs
    <3> QED
      BY <2>1, <3>2, <3>4 DEF FreshInv
  <2> QED
    BY <2>2, <2>3
<1>10. bare' \in BOOLEAN /\ raced' \in BOOLEAN
  BY <1>5 DEF KeyInv
<1> QED
  BY <1>6, <1>7, <1>8, <1>9, <1>10 DEF KeyInv

\* Keys, or the provider with all of them, are deleted.
LEMMA Deletes ==
  ASSUME KeyInv, Notes, req' = req, lastIds' = lastIds, rows' \subseteq rows,
         provider' = provider \/ (provider' = NoProvider /\ rows' = {})
  PROVE  KeyInv'
<1>1. \A s \in Requests : ~Saves(s)
  BY IdleIs DEF Saves
<1>2. /\ imported' = imported \cap {k.id : k \in rows'} /\ raced' = raced
      /\ stale' = {s \in Requests : req[s] # Idle /\ s \in stale}
      /\ bare' = (bare \/ (provider'.id # 0 /\ provider'.surfaces = {}))
  BY <1>1 DEF Notes, KeyInv
<1>3. NoProvider \in Provider /\ NoProvider.id = 0
  BY DEF NoProvider, Provider
<1>4. WellFormed'
  BY <1>3 DEF KeyInv, WellFormed
<1>5. OrderInv'
  BY <1>2 DEF KeyInv, OrderInv, Before
<1>6. HonestInv'
  BY <1>2 DEF KeyInv, HonestInv
<1>7. FreshInv'
  <2>1. \A s \in stale' : req[s].pc # "idle"
    BY <1>2 DEF KeyInv, WellFormed, GoodRequest
  <2>2. ASSUME ~raced, NEW s \in Requests PROVE s \in stale' \/ Fresh(req[s], provider', Held')
    <3>1. CASE req[s] = Idle
      BY <3>1, IdleIs
    <3>2. CASE s \in stale /\ req[s] # Idle
      BY <1>2, <3>2
    <3>3. CASE Fresh(req[s], provider, Held)
      <4>1. Held' \subseteq Held
        BY DEF Held
      <4>2. CASE provider' = provider
        BY <3>3, <4>1, <4>2 DEF Fresh
      <4>3. CASE provider' = NoProvider /\ rows' = {}
        <5>1. Held' = {}
          BY <4>3 DEF Held
        <5>2. req[s].op = "patch" => req[s].prov.id # 0
          BY DEF KeyInv, WellFormed, GoodRequest
        <5> QED
          BY <1>3, <3>3, <4>3, <5>1, <5>2 DEF Fresh
      <4> QED
        BY <4>2, <4>3
    <3> QED
      BY <2>2, <3>1, <3>2, <3>3 DEF KeyInv, FreshInv
  <2>3. Unique(rows) => Unique(rows')
    BY DEF Unique
  <2>4. Served(provider) => Served(provider')
    BY <1>3 DEF Served
  <2> QED
    BY <1>2, <2>1, <2>2, <2>3, <2>4 DEF KeyInv, FreshInv
<1>8. bare' \in BOOLEAN /\ raced' \in BOOLEAN
  BY <1>2 DEF KeyInv
<1> QED
  BY <1>4, <1>5, <1>6, <1>7, <1>8 DEF KeyInv

-----------------------------------------------------------------------------
(***************************************************************************)
(* The invariant is kept: requests that start, and probe.                  *)
(***************************************************************************)
\* An entry of a sequence is replaced.
LEMMA Replaced ==
  ASSUME NEW S, NEW s \in Seq(S), NEW i \in DOMAIN s, NEW v \in S
  PROVE  /\ [s EXCEPT ![i] = v] \in Seq(S) /\ Len([s EXCEPT ![i] = v]) = Len(s)
         /\ DOMAIN [s EXCEPT ![i] = v] = DOMAIN s
  OBVIOUS

\* What the four handlers have in common at their start: the keys settled
\* without a probe are settled, the others wait for one.
LEMMA StartKeeps ==
  ASSUME KeyInv, Notes, NEW r \in Requests, NEW op \in {"import", "add", "create"},
         NEW prov \in Provider, NEW file \in Seq(Key), NEW held,
         op # "create" => prov = provider /\ provider.id # 0 /\ held = Held,
         op = "create" => prov.surfaces # {}, op = "add" => Len(file) = 1,
         op # "import" => \A i \in 1 .. Len(file) : Cheap(file, held)[i] = "pending",
         Starts(r, op),
         Becomes(r, [Idle EXCEPT !.pc = "verify", !.op = op, !.prov = prov,
                                 !.file = file, !.res = Cheap(file, held)])
  PROVE  KeyInv'
<1> DEFINE res == Cheap(file, held)
           q == [Idle EXCEPT !.pc = "verify", !.op = op, !.prov = prov, !.file = file, !.res = res]
<1>1. /\ res \in Seq({"pending", "rejected", "duplicate"}) /\ Len(res) = Len(file)
      /\ DOMAIN res = 1 .. Len(file)
      /\ \A i \in DOMAIN res : res[i] = "pending" =>
           /\ file[i] # Blank /\ file[i] \notin held
           /\ \A j \in 1 .. i - 1 : file[j] # file[i]
  BY CheapIs
<1>2. \A i \in DOMAIN res : res[i] \in {"pending", "rejected", "duplicate"}
  BY <1>1
<1>3. op # "import" => \A i \in DOMAIN res : res[i] = "pending"
  BY <1>1
<1>4. res \in Seq(Status)
  BY <1>1 DEF Status
<1> HIDE DEF res
<1>5. /\ q.pc = "verify" /\ q.op = op /\ q.prov = prov /\ q.file = file /\ q.res = res
      /\ q.running = {} /\ q.order = 0
      /\ q \in Progress
  BY <1>4, IdleIs DEF Progress, Idle
<1>6. lastIds[2] \in Nat
  BY DEF KeyInv, WellFormed
<1>7. UNCHANGED <<provider, rows, lastIds>>
  BY DEF Starts
<1>8. Becomes(r, q)
  BY DEF res
<1> HIDE DEF q
<1>9. GoodRequest(q, lastIds[2])
  <2>1. q.order =< lastIds[2] /\ (op \in {"import", "add"} => prov.id # 0)
    BY <1>5, <1>6
  <2> QED
    BY <1>1, <1>3, <1>5, <2>1 DEF GoodRequest
<1>10. bare \/ Honest(q)
  BY <1>2, <1>5 DEF Honest, KeyInv, HonestInv
<1>11. Fresh(q, provider, Held)
  <2>1. \A i \in Passed(q) : i \in 1 .. Len(file) /\ res[i] = "pending"
    BY <1>1, <1>2, <1>5 DEF Passed
  <2>2. ASSUME NEW i \in Passed(q), NEW j \in Passed(q), i # j PROVE file[i] # file[j]
    <3>1. i \in 1 .. Len(file) /\ j \in 1 .. Len(file) /\ Len(file) \in Nat
      BY <2>1
    <3>2. i \in 1 .. j - 1 \/ j \in 1 .. i - 1
      BY <2>2, <3>1
    <3> QED
      BY <1>1, <2>1, <3>1, <3>2
  <2> QED
    BY <1>1, <1>5, <2>1, <2>2 DEF Fresh
<1> QED
  BY <1>7, <1>8, <1>9, <1>10, <1>11, Moves

\* A bulk import that starts keeps the invariant.
LEMMA StartImportKeeps ==
  ASSUME KeyInv, Notes, NEW r \in Requests, NEW file \in Files, StartImport(r, file)
  PROVE  KeyInv'
<1>1. file \in Seq(Key) /\ provider \in Provider
  BY KeyImportAssumption DEF Key, KeyInv, WellFormed
<1>2. /\ Starts(r, "import") /\ provider.id # 0
      /\ Becomes(r, [Idle EXCEPT !.pc = "verify", !.op = "import", !.prov = provider,
                                 !.file = file, !.res = Cheap(file, Held)])
  BY DEF StartImport
<1> QED
  BY <1>1, <1>2, StartKeeps

\* A single key that is added keeps the invariant.
LEMMA StartAddKeeps ==
  ASSUME KeyInv, Notes, NEW r \in Requests, NEW key \in GoodKeys \cup BadKeys, StartAdd(r, key)
  PROVE  KeyInv'
<1>1. <<key>> \in Seq(Key) /\ Len(<<key>>) = 1 /\ provider \in Provider
  BY DEF Key, KeyInv, WellFormed
<1>2. /\ Starts(r, "add") /\ provider.id # 0
      /\ Cheap(<<key>>, Held) = <<"pending">>
      /\ Becomes(r, [Idle EXCEPT !.pc = "verify", !.op = "add", !.prov = provider,
                                 !.file = <<key>>, !.res = Cheap(<<key>>, Held)])
  BY DEF StartAdd
<1>3. \A i \in 1 .. Len(<<key>>) : Cheap(<<key>>, Held)[i] = "pending"
  BY <1>1, <1>2
<1> DEFINE file == <<key>>
           op == "add"
<1> HIDE DEF file, op
<1>4. /\ op \in {"import", "add", "create"} /\ op # "create"
      /\ file \in Seq(Key) /\ Len(file) = 1
      /\ provider \in Provider /\ provider.id # 0 /\ Starts(r, op)
      /\ Becomes(r, [Idle EXCEPT !.pc = "verify", !.op = op, !.prov = provider,
                                 !.file = file, !.res = Cheap(file, Held)])
      /\ \A i \in 1 .. Len(file) : Cheap(file, Held)[i] = "pending"
  BY <1>1, <1>2, <1>3 DEF file, op
<1> QED
  BY <1>4, StartKeeps

\* A provider that is created with keys keeps the invariant.
LEMMA StartCreateKeeps ==
  ASSUME KeyInv, Notes, NEW r \in Requests, NEW keys \in Files, NEW surfaces \in SUBSET Surfaces,
         StartCreate(r, keys, surfaces)
  PROVE  KeyInv'
<1> DEFINE prov == [id |-> 0, surfaces |-> surfaces]
           op == "create"
<1>1. keys \in Seq(Key) /\ prov \in Provider /\ prov.surfaces = surfaces
  BY KeyImportAssumption DEF Key, Provider
<1>2. /\ Starts(r, "create") /\ surfaces # {}
      /\ \A s \in ToSet(Cheap(keys, {})) : s = "pending"
      /\ Becomes(r, [Idle EXCEPT !.pc = "verify", !.op = "create", !.prov = prov,
                                 !.file = keys, !.res = Cheap(keys, {})])
  BY DEF StartCreate
<1>3. \A i \in 1 .. Len(keys) : Cheap(keys, {})[i] = "pending"
  <2>1. DOMAIN Cheap(keys, {}) = 1 .. Len(keys)
    BY <1>1 DEF Cheap
  <2> QED
    BY <1>2, <2>1 DEF ToSet
<1> HIDE DEF prov, op
<1>4. /\ op \in {"import", "add", "create"} /\ op # "add" /\ op = "create"
      /\ keys \in Seq(Key) /\ prov \in Provider /\ prov.surfaces # {} /\ Starts(r, op)
      /\ Becomes(r, [Idle EXCEPT !.pc = "verify", !.op = op, !.prov = prov,
                                 !.file = keys, !.res = Cheap(keys, {})])
      /\ \A i \in 1 .. Len(keys) : Cheap(keys, {})[i] = "pending"
  BY <1>1, <1>2, <1>3 DEF op
<1> QED
  BY <1>4, StartKeeps

\* A request that clears one of a provider's surfaces keeps the invariant.
LEMMA StartPatchKeeps ==
  ASSUME KeyInv, Notes, NEW r \in Requests, NEW s \in Surfaces, StartPatch(r, s)
  PROVE  KeyInv'
<1> DEFINE q == [Idle EXCEPT !.pc = "write", !.op = "patch", !.prov = provider, !.clear = s]
<1>1. /\ provider \in Provider /\ lastIds[2] \in Nat
  BY DEF KeyInv, WellFormed
<1>2. /\ q.pc = "write" /\ q.op = "patch" /\ q.prov = provider /\ q.clear = s
      /\ q.file = <<>> /\ q.res = <<>> /\ q.running = {} /\ q.order = 0
      /\ q \in Progress
  BY <1>1, IdleIs DEF Progress, Idle
<1>3. /\ provider.id # 0 /\ provider.surfaces \ {s} # {}
      /\ UNCHANGED <<provider, rows, lastIds>> /\ Becomes(r, q)
  BY DEF StartPatch, Starts
<1> HIDE DEF q
<1>4. DOMAIN q.res = {}
  BY <1>2
<1>5. GoodRequest(q, lastIds[2])
  BY <1>1, <1>2, <1>3, <1>4 DEF GoodRequest
<1>6. Honest(q) /\ Fresh(q, provider, Held)
  BY <1>2, <1>3, <1>4 DEF Honest, Fresh, Passed
<1> QED
  BY <1>3, <1>5, <1>6, Moves

\* A request that only moves on: what it has read and checked is the same.
LEMMA MovingOn ==
  ASSUME KeyInv, Notes, NEW r \in Requests, NEW q, Becomes(r, q),
         UNCHANGED <<provider, rows, lastIds>>, GoodRequest(q, lastIds[2]),
         q.op = req[r].op, q.prov = req[r].prov, q.file = req[r].file,
         q.res = req[r].res, q.clear = req[r].clear
  PROVE  KeyInv'
<1>1. bare \/ Honest(q)
  BY DEF KeyInv, HonestInv, Honest
<1>2. raced \/ r \in stale \/ Fresh(q, provider, Held)
  BY DEF KeyInv, FreshInv, Fresh, Passed
<1> QED
  BY <1>1, <1>2, Moves

\* A client that hangs up keeps the invariant.
LEMMA CancelKeeps ==
  ASSUME KeyInv, Notes, NEW r \in Requests, Cancel(r)
  PROVE  KeyInv'
<1> DEFINE q == [req[r] EXCEPT !.cancelled = TRUE]
<1>1. /\ Becomes(r, q) /\ UNCHANGED <<provider, rows, lastIds>> /\ req[r].pc = "verify"
  BY DEF Cancel
<1>2. GoodRequest(req[r], lastIds[2])
  BY DEF KeyInv, WellFormed
<1>3. /\ q \in Progress /\ q.pc = req[r].pc /\ q.op = req[r].op /\ q.prov = req[r].prov
      /\ q.file = req[r].file /\ q.res = req[r].res /\ q.clear = req[r].clear
      /\ q.running = req[r].running /\ q.order = req[r].order
  BY <1>2 DEF GoodRequest, Progress
<1> HIDE DEF q
<1>4. GoodRequest(q, lastIds[2])
  BY <1>1, <1>2, <1>3 DEF GoodRequest
<1> QED
  BY <1>1, <1>3, <1>4, MovingOn

\* AddProviderKey's read of the highest order keeps the invariant.
LEMMA ReadOrderKeeps ==
  ASSUME KeyInv, Notes, NEW r \in Requests, ReadOrder(r)
  PROVE  KeyInv'
<1> DEFINE o == IF provider.id = req[r].prov.id THEN NextOrder ELSE 0
           q == [req[r] EXCEPT !.pc = "write", !.order = o]
<1>1. /\ Becomes(r, q) /\ UNCHANGED <<provider, rows, lastIds>> /\ req[r].pc = "order"
  BY DEF ReadOrder
<1>2. GoodRequest(req[r], lastIds[2]) /\ lastIds[2] \in Nat
  BY DEF KeyInv, WellFormed
<1>3. o \in Nat /\ o =< lastIds[2]
  BY <1>2, NextOrderIs
<1> HIDE DEF o
<1>4. /\ q \in Progress /\ q.pc = "write" /\ q.op = req[r].op /\ q.prov = req[r].prov
      /\ q.file = req[r].file /\ q.res = req[r].res /\ q.clear = req[r].clear
      /\ q.running = req[r].running /\ q.order = o
  BY <1>2, <1>3 DEF GoodRequest, Progress
<1> HIDE DEF q
<1>5. GoodRequest(q, lastIds[2])
  BY <1>1, <1>2, <1>3, <1>4 DEF GoodRequest
<1> QED
  BY <1>1, <1>4, <1>5, MovingOn

\* What the invariant says of one request.
LEMMA RequestIs ==
  ASSUME KeyInv, NEW r \in Requests
  PROVE  /\ GoodRequest(req[r], lastIds[2]) /\ req[r] \in Progress /\ lastIds[2] \in Nat
         /\ bare \/ Honest(req[r])
         /\ raced \/ r \in stale \/ Fresh(req[r], provider, Held)
<1>1. GoodRequest(req[r], lastIds[2]) /\ lastIds \in [1 .. 2 -> Nat]
  BY DEF KeyInv, WellFormed
<1>2. req[r] \in Progress
  BY <1>1 DEF GoodRequest
<1>3. lastIds[2] \in Nat
  BY <1>1
<1>4. bare \/ Honest(req[r])
  BY DEF KeyInv, HonestInv
<1>5. raced \/ r \in stale \/ Fresh(req[r], provider, Held)
  BY DEF KeyInv, FreshInv
<1> QED
  BY <1>1, <1>2, <1>3, <1>4, <1>5

\* A probe is started, an import's is skipped, or a prober is done.
LEMMA ResultKeeps ==
  ASSUME KeyInv, Notes, NEW r \in Requests, req[r].pc = "verify",
         UNCHANGED <<provider, rows, lastIds>>,
         NEW i \in DOMAIN req[r].res, req[r].res[i] = "pending",
         NEW v \in Verdicts, req[r].op = "import" \/ v = "added",
         v = "added" => bare \/ req[r].file[i] \in GoodKeys,
         NEW running, running \subseteq req[r].running, i \notin running,
         Becomes(r, [req[r] EXCEPT !.running = running, !.res = [req[r].res EXCEPT ![i] = v]])
  PROVE  KeyInv'
<1> DEFINE q == req[r]
           res == [q.res EXCEPT ![i] = v]
           p == [q EXCEPT !.running = running, !.res = res]
<1>1. /\ GoodRequest(q, lastIds[2]) /\ q \in Progress /\ (bare \/ Honest(q))
      /\ raced \/ r \in stale \/ Fresh(q, provider, Held)
  BY RequestIs
<1>2. q \in Progress /\ q.res \in Seq(Status) /\ q.running \in SUBSET Nat
  <2> HIDE DEF q
  <2> QED
    BY <1>1 DEF Progress
<1>3. /\ res \in Seq(Status) /\ Len(res) = Len(q.res) /\ DOMAIN res = DOMAIN q.res
      /\ res[i] = v /\ \A j \in DOMAIN q.res : j # i => res[j] = q.res[j]
  <2>1. v \in Status
    BY DEF Verdicts, Status
  <2> QED
    BY <1>2, <2>1, Replaced
<1> HIDE DEF res, q
<1>4. /\ p \in Progress /\ p.pc = q.pc /\ p.op = q.op /\ p.prov = q.prov /\ p.file = q.file
      /\ p.res = res /\ p.clear = q.clear /\ p.running = running /\ p.order = q.order
  BY <1>2, <1>3 DEF Progress, q
<1>5. Becomes(r, p)
  BY DEF q, res
<1> HIDE DEF p
<1>6. q.pc = "verify" /\ q.res[i] = "pending" /\ i \in DOMAIN q.res /\ running \subseteq q.running
  BY DEF q
<1>7. GoodRequest(p, lastIds[2])
  <2>1. q.op \in {"add", "create"} => v = "added"
    BY DEF q
  <2>2. p.running \subseteq {j \in DOMAIN p.res : p.res[j] = "pending"}
    <3>1. q.running \subseteq {j \in DOMAIN q.res : q.res[j] = "pending"}
      BY <1>1 DEF GoodRequest
    <3> QED
      BY <1>3, <1>4, <1>6, <3>1
  <2>3. p.op \in {"add", "create"} =>
          \A j \in DOMAIN p.res : p.res[j] = "added" \/ (p.res[j] = "pending" /\ p.pc = "verify")
    <3>1. q.op \in {"add", "create"} =>
            \A j \in DOMAIN q.res : q.res[j] = "added" \/ (q.res[j] = "pending" /\ q.pc = "verify")
      BY <1>1 DEF GoodRequest
    <3> QED
      BY <1>3, <1>4, <2>1, <3>1
  <2>4. Len(p.res) = Len(p.file)
    BY <1>1, <1>3, <1>4 DEF GoodRequest
  <2> QED
    BY <1>1, <1>4, <1>6, <2>2, <2>3, <2>4 DEF GoodRequest
<1>8. bare \/ Honest(p)
  <2>1. v = "added" => bare \/ q.file[i] \in GoodKeys
    BY DEF q
  <2> QED
    BY <1>1, <1>3, <1>4, <2>1 DEF Honest
<1>9. Passed(p) = Passed(q)
  BY <1>3, <1>4, <1>6 DEF Passed, Verdicts
<1>10. raced \/ r \in stale \/ Fresh(p, provider, Held)
  BY <1>1, <1>4, <1>9 DEF Fresh
<1> QED
  BY <1>5, <1>7, <1>8, <1>10, Moves

\* A probe that starts keeps the invariant.
LEMMA ProbeKeeps ==
  ASSUME KeyInv, Notes, NEW r \in Requests, Probe(r)
  PROVE  KeyInv'
<1> DEFINE q == req[r]
           i == Min(Pending(q))
<1>1. GoodRequest(q, lastIds[2]) /\ q \in Progress
  BY DEF KeyInv, WellFormed, GoodRequest
<1>2. q.pc = "verify" /\ Pending(q) # {} /\ UNCHANGED <<provider, rows, lastIds>>
  BY DEF Probe
<1>3. i \in Pending(q)
  <2>1. Pending(q) \subseteq Nat
    <3>1. q.res \in Seq(Status)
      BY <1>1 DEF Progress
    <3> QED
      BY <3>1 DEF Pending
  <2> QED
    BY <1>2, <2>1, MinIs
<1>4. /\ i \in DOMAIN q.res /\ q.res[i] = "pending" /\ i \notin q.running /\ i \in Nat
  <2>1. q.res \in Seq(Status)
    BY <1>1 DEF Progress
  <2> QED
    BY <1>3, <2>1 DEF Pending
<1>5. \/ Becomes(r, [q EXCEPT !.running = @ \cup {i}])
      \/ q.op = "import" /\ Becomes(r, [q EXCEPT !.res[i] = "unverifiable"])
  BY DEF Probe
<1> HIDE DEF i
<1>6. CASE Becomes(r, [q EXCEPT !.running = @ \cup {i}])
  <2> DEFINE p == [q EXCEPT !.running = @ \cup {i}]
  <2>1. /\ p \in Progress /\ p.pc = q.pc /\ p.op = q.op /\ p.prov = q.prov /\ p.file = q.file
        /\ p.res = q.res /\ p.clear = q.clear /\ p.running = q.running \cup {i}
        /\ p.order = q.order
    BY <1>1, <1>4 DEF Progress
  <2>2. Becomes(r, p)
    BY <1>6
  <2> HIDE DEF p
  <2>3. GoodRequest(p, lastIds[2])
    BY <1>1, <1>2, <1>4, <2>1 DEF GoodRequest
  <2> QED
    BY <1>2, <2>1, <2>2, <2>3, MovingOn
<1>7. CASE q.op = "import" /\ Becomes(r, [q EXCEPT !.res[i] = "unverifiable"])
  <2> DEFINE v == "unverifiable"
  <2>1. [q EXCEPT !.res[i] = v] = [q EXCEPT !.running = q.running, !.res = [q.res EXCEPT ![i] = v]]
    BY <1>1 DEF Progress
  <2>2. v \in Verdicts /\ v # "added"
    BY DEF Verdicts
  <2>3. Becomes(r, [q EXCEPT !.running = q.running, !.res = [q.res EXCEPT ![i] = v]])
    BY <1>7, <2>1
  <2> HIDE DEF v
  <2> QED
    BY <1>2, <1>4, <1>7, <2>2, <2>3, ResultKeeps
<1> QED
  BY <1>5, <1>6, <1>7

\* A probe's verdict is filed at its key's place in the file, whatever order
\* the probes end in.
LEMMA ProbedKeeps ==
  ASSUME KeyInv, Notes, NEW r \in Requests, NEW i \in req[r].running,
         NEW a \in Answers(req[r].file[i], req[r].prov.surfaces), Probed(r, i, Verdict(a))
  PROVE  KeyInv'
<1> DEFINE q == req[r]
           v == Verdict(a)
<1>1. GoodRequest(q, lastIds[2]) /\ q \in Progress /\ (bare \/ Honest(q))
  BY DEF KeyInv, WellFormed, GoodRequest, HonestInv
<1>2. q.pc = "verify" /\ UNCHANGED <<provider, rows, lastIds>>
  BY DEF Probed
<1>3. i \in DOMAIN q.res /\ q.res[i] = "pending" /\ q.op \in {"import", "add", "create"}
  BY <1>1, <1>2 DEF GoodRequest, Progress
<1>4. v \in Verdicts
  BY VerdictIs
<1>5. v = "added" => bare \/ q.file[i] \in GoodKeys
  <2> SUFFICES ASSUME v = "added", ~bare PROVE q.file[i] \in GoodKeys
    OBVIOUS
  <2>1. q.prov.surfaces \in SUBSET Surfaces /\ q.prov.surfaces # {}
    BY <1>1, <1>3 DEF Honest, Progress, Provider
  <2> QED
    BY <2>1, OnlyGoodKeysPass
<1>6. CASE q.op # "import" /\ v # "added"
  <2>1. Becomes(r, Idle)
    BY <1>6 DEF Probed, Ends
  <2>2. lastIds[2] \in Nat
    BY DEF KeyInv, WellFormed
  <2> QED
    BY <1>2, <2>1, <2>2, IdleIs, Moves
<1>7. CASE q.op = "import" \/ v = "added"
  <2>1. Becomes(r, [q EXCEPT !.running = @ \ {i}, !.res[i] = v])
    BY <1>7 DEF Probed
  <2> DEFINE running == q.running \ {i}
  <2>2. [q EXCEPT !.running = @ \ {i}, !.res[i] = v] =
        [q EXCEPT !.running = running, !.res = [q.res EXCEPT ![i] = v]]
    BY <1>1 DEF Progress
  <2>3. Becomes(r, [q EXCEPT !.running = running, !.res = [q.res EXCEPT ![i] = v]])
    BY <2>1, <2>2
  <2>4. running \subseteq q.running /\ i \notin running
    OBVIOUS
  <2> HIDE DEF v, running
  <2> QED
    BY <1>2, <1>3, <1>4, <1>5, <1>7, <2>3, <2>4, ResultKeeps
<1> QED
  BY <1>6, <1>7

\* The keys collected for the write are those a probe did not reject.
LEMMA CollectKeeps ==
  ASSUME KeyInv, Notes, NEW r \in Requests, Collect(r)
  PROVE  KeyInv'
<1> DEFINE q == req[r]
           pc == IF q.op = "add" THEN "order" ELSE "write"
           p == [q EXCEPT !.pc = pc]
<1>1. GoodRequest(q, lastIds[2]) /\ q \in Progress /\ lastIds[2] \in Nat
  BY RequestIs
<1>2. /\ q.pc = "verify" /\ q.running = {} /\ Pending(q) = {}
      /\ UNCHANGED <<provider, rows, lastIds>> /\ (Becomes(r, Idle) \/ Becomes(r, p))
  BY DEF Collect, Ends
<1>3. \A i \in DOMAIN q.res : q.res[i] # "pending"
  BY <1>2 DEF Pending
<1>4. CASE Becomes(r, Idle)
  BY <1>1, <1>2, <1>4, IdleIs, Moves
<1>5. CASE Becomes(r, p)
  <2>1. pc \in {"order", "write"} /\ (pc = "order" => q.op = "add")
    OBVIOUS
  <2> HIDE DEF pc
  <2>2. /\ p \in Progress /\ p.pc = pc /\ p.op = q.op /\ p.prov = q.prov /\ p.file = q.file
        /\ p.res = q.res /\ p.clear = q.clear /\ p.running = q.running /\ p.order = q.order
    BY <1>1, <2>1 DEF Progress
  <2>3. Becomes(r, p)
    BY <1>5
  <2> HIDE DEF p
  <2>4. GoodRequest(p, lastIds[2])
    BY <1>1, <1>2, <1>3, <2>1, <2>2 DEF GoodRequest
  <2> QED
    BY <1>2, <2>2, <2>3, <2>4, MovingOn
<1> QED
  BY <1>2, <1>4, <1>5

\* A write that fails stores nothing.
LEMMA WriteFailsKeeps ==
  ASSUME KeyInv, Notes, NEW r \in Requests, WriteFails(r)
  PROVE  KeyInv'
<1>1. Becomes(r, Idle) /\ UNCHANGED <<provider, rows, lastIds>> /\ lastIds[2] \in Nat
  BY DEF WriteFails, Ends, KeyInv, WellFormed
<1> QED
  BY <1>1, IdleIs, Moves

-----------------------------------------------------------------------------
(***************************************************************************)
(* The invariant is kept: requests that write.                             *)
(***************************************************************************)
\* The rows of keys get the next ids, and orders that rise with them.
LEMMA NewRowsAre ==
  ASSUME NEW keys \in Seq(Key), NEW first \in Nat, lastIds \in [1 .. 2 -> Nat]
  PROVE  /\ NewRows(keys, first) \subseteq [id : Nat, key : Key, order : Nat]
         /\ \A k \in NewRows(keys, first) :
              \E i \in DOMAIN keys : /\ k.id = lastIds[2] + i /\ k.key = keys[i]
                                     /\ k.order = first + i - 1
                                     /\ i \in Nat /\ 1 =< i /\ i =< Len(keys)
<1>1. DOMAIN keys = 1 .. Len(keys) /\ Len(keys) \in Nat /\ \A i \in DOMAIN keys : keys[i] \in Key
  OBVIOUS
<1>2. ASSUME NEW k \in NewRows(keys, first)
      PROVE  /\ k \in [id : Nat, key : Key, order : Nat]
             /\ \E i \in DOMAIN keys : /\ k.id = lastIds[2] + i /\ k.key = keys[i]
                                     /\ k.order = first + i - 1
                                     /\ i \in Nat /\ 1 =< i /\ i =< Len(keys)
  <2>1. PICK i \in DOMAIN keys :
          k = [id |-> lastIds[2] + i, key |-> keys[i], order |-> first + i - 1]
    BY DEF NewRows
  <2>2. i \in Nat /\ 1 =< i /\ i =< Len(keys) /\ lastIds[2] \in Nat
    BY <1>1
  <2>3. lastIds[2] + i \in Nat /\ first + i - 1 \in Nat /\ keys[i] \in Key
    BY <1>1, <2>2
  <2> QED
    BY <2>1, <2>2, <2>3
<1> QED
  BY <1>2

\* The rows written when keys are added to those that are there, at an order
\* that some last id allowed.
LEMMA AddingRows ==
  ASSUME KeyInv, NEW keys \in Seq(Key), NEW first \in Nat, first =< lastIds[2],
         rows' = rows \cup NewRows(keys, first), lastIds'[2] = lastIds[2] + Len(keys)
  PROVE  /\ rows' \subseteq [id : Nat, key : Key, order : Nat]
         /\ \A k \in rows' : k.order < k.id /\ k.id =< lastIds'[2]
         /\ \A k \in rows' \ rows : k.id > lastIds[2]
         /\ (\A k \in rows : k.order < first) =>
              \A y \in rows' \ rows : \A x \in rows' : x.id < y.id => Before(x, y)
         /\ (\A i \in DOMAIN keys : keys[i] \in GoodKeys) /\ (\A k \in rows : k.key \in GoodKeys) =>
              \A k \in rows' : k.key \in GoodKeys
         /\ /\ \A i, j \in DOMAIN keys : i # j => keys[i] # keys[j]
            /\ \A i \in DOMAIN keys : keys[i] \notin Held
            /\ Unique(rows)
            => Unique(rows')
<1> DEFINE new == NewRows(keys, first)
<1>1. /\ lastIds \in [1 .. 2 -> Nat] /\ lastIds[2] \in Nat /\ Len(keys) \in Nat
      /\ rows \subseteq [id : Nat, key : Key, order : Nat]
      /\ \A k \in rows : k.order < k.id /\ k.id =< lastIds[2]
  BY DEF KeyInv, WellFormed, OrderInv
<1>2. /\ new \subseteq [id : Nat, key : Key, order : Nat]
      /\ \A k \in new : \E i \in DOMAIN keys :
           /\ k.id = lastIds[2] + i /\ k.key = keys[i] /\ k.order = first + i - 1
           /\ i \in Nat /\ 1 =< i /\ i =< Len(keys)
  BY <1>1, NewRowsAre
<1>3. rows' = rows \cup new
  OBVIOUS
<1> HIDE DEF new
<1>4. rows' \subseteq [id : Nat, key : Key, order : Nat]
  BY <1>1, <1>2, <1>3
<1>5. ASSUME NEW k \in rows' PROVE k.order < k.id /\ k.id =< lastIds'[2]
  <2>1. CASE k \in rows
    <3>1. k.id \in Nat /\ k.order < k.id /\ k.id =< lastIds[2]
      BY <1>1, <2>1
    <3> QED
      BY <1>1, <3>1
  <2>2. CASE k \in new
    <3>1. PICK i \in DOMAIN keys :
            /\ k.id = lastIds[2] + i /\ k.order = first + i - 1
            /\ i \in Nat /\ 1 =< i /\ i =< Len(keys)
      BY <1>2, <2>2
    <3> QED
      BY <1>1, <3>1
  <2> QED
    BY <1>3, <2>1, <2>2
<1>6. ASSUME NEW k \in rows' \ rows PROVE k.id > lastIds[2] /\ k \in new
  BY <1>1, <1>2, <1>3
<1>7. ASSUME \A k \in rows : k.order < first,
             NEW y \in rows' \ rows, NEW x \in rows', x.id < y.id
      PROVE  Before(x, y)
  <2>1. PICK i \in DOMAIN keys :
          y.id = lastIds[2] + i /\ y.order = first + i - 1 /\ i \in Nat /\ 1 =< i
    BY <1>2, <1>6
  <2>2. CASE x \in rows
    <3>1. x.order \in Nat /\ x.order < first
      BY <1>1, <1>7, <2>2
    <3>2. x.order < y.order
      BY <2>1, <3>1
    <3> QED
      BY <3>2 DEF Before
  <2>3. CASE x \in new
    <3>1. PICK j \in DOMAIN keys :
            x.id = lastIds[2] + j /\ x.order = first + j - 1 /\ j \in Nat /\ 1 =< j
      BY <1>2, <2>3
    <3>2. x.order < y.order
      BY <1>1, <1>7, <2>1, <3>1
    <3> QED
      BY <3>2 DEF Before
  <2> QED
    BY <1>3, <2>2, <2>3
<1>8. (\A i \in DOMAIN keys : keys[i] \in GoodKeys) /\ (\A k \in rows : k.key \in GoodKeys) =>
        \A k \in rows' : k.key \in GoodKeys
  BY <1>2, <1>3
<1>9. ASSUME \A i, j \in DOMAIN keys : i # j => keys[i] # keys[j],
             \A i \in DOMAIN keys : keys[i] \notin Held,
             Unique(rows), NEW x \in rows', NEW y \in rows', x.key = y.key
      PROVE  x = y
  <2>1. \A k \in rows, i \in DOMAIN keys : k.key # keys[i]
    BY <1>9 DEF Held
  <2>2. CASE x \in rows /\ y \in rows
    BY <1>9, <2>2 DEF Unique
  <2>3. CASE x \in new /\ y \in new
    <3>1. PICK i \in DOMAIN keys :
            x = [id |-> lastIds[2] + i, key |-> keys[i], order |-> first + i - 1]
      BY <2>3 DEF new, NewRows
    <3>2. PICK j \in DOMAIN keys :
            y = [id |-> lastIds[2] + j, key |-> keys[j], order |-> first + j - 1]
      BY <2>3 DEF new, NewRows
    <3>3. keys[i] = keys[j]
      BY <1>9, <3>1, <3>2
    <3>4. i = j
      BY <1>9, <3>3
    <3> QED
      BY <3>1, <3>2, <3>4
  <2> QED
    BY <1>2, <1>3, <1>9, <2>1, <2>2, <2>3
<1> QED
  BY <1>4, <1>5, <1>6, <1>7, <1>8, <1>9 DEF Unique

\* What a request may save: the keys that passed, each entry once, in order.
LEMMA ToAddIs ==
  ASSUME KeyInv, NEW r \in Requests
  PROVE  /\ ToAdd(req[r]) \in Seq(Key) /\ InFileOrder(ToAdd(req[r]), req[r].file)
         /\ Honest(req[r]) => \A i \in DOMAIN ToAdd(req[r]) : ToAdd(req[r])[i] \in GoodKeys
         /\ Fresh(req[r], provider, Held) =>
              \A i, j \in DOMAIN ToAdd(req[r]) : i # j => ToAdd(req[r])[i] # ToAdd(req[r])[j]
         /\ /\ Fresh(req[r], provider, Held)
            /\ req[r].op \in {"import", "add"} /\ provider.id = req[r].prov.id
            => \A i \in DOMAIN ToAdd(req[r]) : ToAdd(req[r])[i] \notin Held
<1> DEFINE q == req[r]
           keys == ToAdd(q)
<1>1. q.file \in Seq(Key) /\ q.res \in Seq(Status) /\ Len(q.res) = Len(q.file)
  <2>1. GoodRequest(q, lastIds[2]) /\ q \in Progress
    BY RequestIs
  <2> HIDE DEF q
  <2> QED
    BY <2>1 DEF GoodRequest, Progress
<1>2. PICK entry : Selects(q, keys, entry, Len(q.file))
  BY <1>1, ToAddSelects
<1>3. /\ keys \in Seq(Key)
      /\ entry \in [DOMAIN keys -> 1 .. Len(q.file)]
      /\ \A i, j \in DOMAIN keys : i < j => entry[i] < entry[j]
      /\ \A i \in DOMAIN keys : keys[i] = q.file[entry[i]] /\ q.res[entry[i]] = "added"
  BY <1>2 DEF Selects
<1> HIDE DEF q, keys
<1>4. DOMAIN q.file = 1 .. Len(q.file) /\ DOMAIN q.res = 1 .. Len(q.file)
  BY <1>1
<1>5. /\ DOMAIN keys = 1 .. Len(keys) /\ Len(keys) \in Nat /\ Len(q.file) \in Nat
      /\ \A i \in DOMAIN keys : entry[i] \in 1 .. Len(q.file)
  BY <1>1, <1>3
<1>6. InFileOrder(keys, q.file)
  BY <1>3, <1>4 DEF InFileOrder
<1>7. Honest(q) => \A i \in DOMAIN keys : keys[i] \in GoodKeys
  BY <1>3, <1>4, <1>5 DEF Honest
<1>8. \A i \in DOMAIN keys : entry[i] \in Passed(q)
  BY <1>3, <1>4, <1>5 DEF Passed
<1>9. \A i, j \in DOMAIN keys : i # j => entry[i] # entry[j]
  <2>1. SUFFICES ASSUME NEW i \in DOMAIN keys, NEW j \in DOMAIN keys, i # j
                 PROVE  entry[i] # entry[j]
    OBVIOUS
  <2>2. i \in Nat /\ j \in Nat /\ entry[i] \in Nat /\ entry[j] \in Nat
    BY <1>5
  <2>3. i < j \/ j < i
    BY <2>1, <2>2
  <2> QED
    BY <1>3, <2>2, <2>3
<1>10. Fresh(q, provider, Held) => \A i, j \in DOMAIN keys : i # j => keys[i] # keys[j]
  BY <1>3, <1>8, <1>9 DEF Fresh
<1>11. Fresh(q, provider, Held) /\ q.op \in {"import", "add"} /\ provider.id = q.prov.id =>
         \A i \in DOMAIN keys : keys[i] \notin Held
  BY <1>3, <1>8 DEF Fresh
<1> QED
  BY <1>3, <1>6, <1>7, <1>10, <1>11 DEF q, keys

\* The write of an import whose provider is still there.
LEMMA WriteImportKeeps ==
  ASSUME KeyInv, Notes, NEW r \in Requests, WriteImport(r)
  PROVE  KeyInv'
<1> DEFINE q == req[r]
           keys == ToAdd(q)
<1>1. /\ GoodRequest(q, lastIds[2]) /\ lastIds[2] \in Nat /\ (bare \/ Honest(q))
      /\ raced \/ r \in stale \/ Fresh(q, provider, Held)
  BY RequestIs
<1>2. /\ q.pc = "write" /\ q.op = "import" /\ Becomes(r, Idle) /\ provider' = provider
      /\ \/ /\ provider.id = q.prov.id
            /\ rows' = rows \cup NewRows(keys, NextOrder)
            /\ lastIds' = [lastIds EXCEPT ![2] = @ + Len(keys)]
         \/ UNCHANGED <<rows, lastIds>>
  BY DEF WriteImport, Ends
<1>3. CASE UNCHANGED <<rows, lastIds>>
  BY <1>1, <1>2, <1>3, IdleIs, Moves
<1>4. CASE /\ provider.id = q.prov.id
           /\ rows' = rows \cup NewRows(keys, NextOrder)
           /\ lastIds' = [lastIds EXCEPT ![2] = @ + Len(keys)]
  <2>1. /\ keys \in Seq(Key)
        /\ Honest(q) => \A i \in DOMAIN keys : keys[i] \in GoodKeys
        /\ Fresh(q, provider, Held) =>
             /\ \A i, j \in DOMAIN keys : i # j => keys[i] # keys[j]
             /\ \A i \in DOMAIN keys : keys[i] \notin Held
    BY <1>2, <1>4, ToAddIs
  <2> HIDE DEF keys, q
  <2>2. Len(keys) \in Nat
    BY <2>1
  <2>3. /\ NextOrder \in Nat /\ NextOrder =< lastIds[2]
        /\ \A k \in rows : k.order < NextOrder
    BY NextOrderIs
  <2>4. /\ lastIds' \in [1 .. 2 -> Nat] /\ lastIds'[2] = lastIds[2] + Len(keys)
        /\ lastIds[2] =< lastIds'[2]
    BY <1>1, <1>4, <2>2 DEF KeyInv, WellFormed
  <2>5. /\ rows' \subseteq [id : Nat, key : Key, order : Nat]
        /\ \A k \in rows' : k.order < k.id /\ k.id =< lastIds'[2]
        /\ \A k \in rows' \ rows : k.id > lastIds[2]
        /\ \A y \in rows' \ rows : \A x \in rows' : x.id < y.id => Before(x, y)
        /\ (\A i \in DOMAIN keys : keys[i] \in GoodKeys) /\ (\A k \in rows : k.key \in GoodKeys) =>
             \A k \in rows' : k.key \in GoodKeys
        /\ /\ \A i, j \in DOMAIN keys : i # j => keys[i] # keys[j]
           /\ \A i \in DOMAIN keys : keys[i] \notin Held
           /\ Unique(rows)
           => Unique(rows')
    BY <1>4, <2>1, <2>3, <2>4, AddingRows
  <2>6. bare \/ \A k \in rows' : k.key \in GoodKeys
    BY <1>1, <2>1, <2>5 DEF KeyInv, HonestInv
  <2>7. raced \/ r \in stale \/ (Unique(rows') /\ Served(provider'))
    BY <1>1, <1>2, <2>1, <2>5 DEF KeyInv, FreshInv
  <2>8. provider' \in Provider
    BY <1>2 DEF KeyInv, WellFormed
  <2> QED
    BY <1>2, <2>4, <2>5, <2>6, <2>7, <2>8, Writes DEF q
<1> QED
  BY <1>2, <1>3, <1>4

\* The write of an add: its one key passed, at the order read before.
LEMMA WriteAddKeeps ==
  ASSUME KeyInv, Notes, NEW r \in Requests, WriteAdd(r)
  PROVE  KeyInv'
<1> DEFINE q == req[r]
           keys == q.file
<1>1. /\ GoodRequest(q, lastIds[2]) /\ q \in Progress /\ lastIds[2] \in Nat /\ (bare \/ Honest(q))
      /\ raced \/ r \in stale \/ Fresh(q, provider, Held)
  BY RequestIs
<1>2. /\ q.pc = "write" /\ q.op = "add" /\ Becomes(r, Idle) /\ provider' = provider
      /\ \/ /\ provider.id = q.prov.id
            /\ rows' = rows \cup NewRows(keys, q.order)
            /\ lastIds' = [lastIds EXCEPT ![2] = @ + 1]
         \/ UNCHANGED <<rows, lastIds>>
  BY DEF WriteAdd, Ends
<1>3. CASE UNCHANGED <<rows, lastIds>>
  BY <1>1, <1>2, <1>3, IdleIs, Moves
<1>4. CASE /\ provider.id = q.prov.id
           /\ rows' = rows \cup NewRows(keys, q.order)
           /\ lastIds' = [lastIds EXCEPT ![2] = @ + 1]
  <2> HIDE DEF q
  <2>1. /\ keys \in Seq(Key) /\ q.res \in Seq(Status) /\ Len(q.res) = Len(keys)
        /\ q.order \in Nat /\ q.order =< lastIds[2] /\ Len(keys) = 1
        /\ \A i \in DOMAIN q.res : q.res[i] = "added"
    <3>1. q.file \in Seq(Key) /\ q.res \in Seq(Status) /\ q.order \in Nat
      BY <1>1 DEF Progress
    <3>2. /\ Len(q.res) = Len(q.file) /\ q.order =< lastIds[2]
          /\ \A i \in DOMAIN q.res : q.res[i] = "added"
          /\ Len(q.file) = 1
      BY <1>1, <1>2, Zenon DEF GoodRequest
    <3> QED
      BY <3>1, <3>2
  <2>2. DOMAIN keys = DOMAIN q.res /\ DOMAIN keys = Passed(q)
    BY <2>1 DEF Passed
  <2>3. /\ Honest(q) => \A i \in DOMAIN keys : keys[i] \in GoodKeys
        /\ Fresh(q, provider, Held) =>
             /\ \A i, j \in DOMAIN keys : i # j => keys[i] # keys[j]
             /\ \A i \in DOMAIN keys : keys[i] \notin Held
    BY <1>2, <1>4, <2>1, <2>2 DEF Honest, Fresh
  <2>4. /\ lastIds' \in [1 .. 2 -> Nat] /\ lastIds'[2] = lastIds[2] + Len(keys)
        /\ lastIds[2] =< lastIds'[2]
    BY <1>1, <1>4, <2>1 DEF KeyInv, WellFormed
  <2>5. /\ rows' \subseteq [id : Nat, key : Key, order : Nat]
        /\ \A k \in rows' : k.order < k.id /\ k.id =< lastIds'[2]
        /\ \A k \in rows' \ rows : k.id > lastIds[2]
        /\ (\A i \in DOMAIN keys : keys[i] \in GoodKeys) /\ (\A k \in rows : k.key \in GoodKeys) =>
             \A k \in rows' : k.key \in GoodKeys
        /\ /\ \A i, j \in DOMAIN keys : i # j => keys[i] # keys[j]
           /\ \A i \in DOMAIN keys : keys[i] \notin Held
           /\ Unique(rows)
           => Unique(rows')
    <3> DEFINE o == q.order
    <3>1. o \in Nat /\ o =< lastIds[2] /\ rows' = rows \cup NewRows(keys, o) /\ keys \in Seq(Key)
      BY <1>4, <2>1
    <3> HIDE DEF o, keys
    <3> QED
      BY <2>4, <3>1, AddingRows
  <2>6. bare \/ \A k \in rows' : k.key \in GoodKeys
    BY <1>1, <2>3, <2>5 DEF KeyInv, HonestInv
  <2>7. raced \/ r \in stale \/ (Unique(rows') /\ Served(provider'))
    BY <1>1, <1>2, <2>3, <2>5 DEF KeyInv, FreshInv
  <2>8. provider' \in Provider
    BY <1>2 DEF KeyInv, WellFormed
  <2> QED
    BY <1>2, <2>4, <2>5, <2>6, <2>7, <2>8, Writes DEF q
<1> QED
  BY <1>2, <1>3, <1>4

\* A create writes a provider and all its keys, if the name is free.
LEMMA WriteCreateKeeps ==
  ASSUME KeyInv, Notes, NEW r \in Requests, WriteCreate(r)
  PROVE  KeyInv'
<1> DEFINE q == req[r]
           keys == q.file
<1>1. /\ GoodRequest(q, lastIds[2]) /\ q \in Progress /\ lastIds[2] \in Nat /\ (bare \/ Honest(q))
      /\ raced \/ r \in stale \/ Fresh(q, provider, Held)
  BY RequestIs
<1>2. /\ q.pc = "write" /\ q.op = "create" /\ Becomes(r, Idle)
      /\ \/ /\ provider' = [id |-> lastIds[1] + 1, surfaces |-> q.prov.surfaces]
            /\ rows' = NewRows(keys, 0)
            /\ lastIds' = <<lastIds[1] + 1, lastIds[2] + Len(keys)>>
         \/ UNCHANGED <<provider, rows, lastIds>>
  BY DEF WriteCreate, Ends
<1>3. CASE UNCHANGED <<provider, rows, lastIds>>
  BY <1>1, <1>2, <1>3, IdleIs, Moves
<1>4. CASE /\ provider' = [id |-> lastIds[1] + 1, surfaces |-> q.prov.surfaces]
           /\ rows' = NewRows(keys, 0)
           /\ lastIds' = <<lastIds[1] + 1, lastIds[2] + Len(keys)>>
  <2> HIDE DEF q
  <2>1. /\ keys \in Seq(Key) /\ q.res \in Seq(Status) /\ Len(q.res) = Len(keys)
        /\ \A i \in DOMAIN q.res : q.res[i] = "added"
    <3>1. q.file \in Seq(Key) /\ q.res \in Seq(Status)
      BY <1>1 DEF Progress
    <3>2. /\ Len(q.res) = Len(q.file)
          /\ \A i \in DOMAIN q.res : q.res[i] = "added"
      BY <1>1, <1>2, Zenon DEF GoodRequest
    <3> QED
      BY <3>1, <3>2
  <2>2. DOMAIN keys = DOMAIN q.res /\ DOMAIN keys = Passed(q)
    BY <2>1 DEF Passed
  <2>3. /\ Honest(q) => \A i \in DOMAIN keys : keys[i] \in GoodKeys
        /\ Fresh(q, provider, Held) =>
             /\ \A i, j \in DOMAIN keys : i # j => keys[i] # keys[j]
             /\ q.prov.surfaces # {}
    BY <1>2, <2>1, <2>2 DEF Honest, Fresh
  <2>4. q.prov.surfaces \in SUBSET Surfaces /\ lastIds[1] \in Nat /\ lastIds \in [1 .. 2 -> Nat]
    <3>1. q.prov \in Provider
      BY <1>1 DEF Progress
    <3>2. lastIds \in [1 .. 2 -> Nat]
      BY DEF KeyInv, WellFormed
    <3> QED
      BY <3>1, <3>2 DEF Provider
  <2>5. /\ provider' \in Provider /\ provider'.surfaces = q.prov.surfaces
        /\ lastIds' \in [1 .. 2 -> Nat] /\ lastIds'[2] = lastIds[2] + Len(keys)
        /\ Len(keys) \in Nat /\ lastIds[2] =< lastIds'[2]
    <3>1. Len(keys) \in Nat
      BY <2>1
    <3>2. provider' \in Provider /\ provider'.surfaces = q.prov.surfaces
      BY <1>4, <2>4 DEF Provider
    <3>3. lastIds'[1] = lastIds[1] + 1 /\ lastIds'[2] = lastIds[2] + Len(keys)
      BY <1>4
    <3>4. lastIds' = [i \in 1 .. 2 |-> IF i = 1 THEN lastIds[1] + 1 ELSE lastIds[2] + Len(keys)]
      BY <1>4
    <3> HIDE DEF keys
    <3> QED
      BY <1>1, <2>4, <3>1, <3>2, <3>3, <3>4
  <2>6. /\ rows' \subseteq [id : Nat, key : Key, order : Nat]
        /\ \A k \in rows' : \E i \in DOMAIN keys :
             /\ k.id = lastIds[2] + i /\ k.key = keys[i] /\ k.order = 0 + i - 1
             /\ i \in Nat /\ 1 =< i /\ i =< Len(keys)
    <3> HIDE DEF keys
    <3> QED
      BY <1>4, <2>1, <2>4, NewRowsAre
  <2>7. ASSUME NEW k \in rows' PROVE k.order < k.id /\ k.id =< lastIds'[2] /\ k.id > lastIds[2]
    <3>1. PICK i \in DOMAIN keys :
            /\ k.id = lastIds[2] + i /\ k.order = 0 + i - 1 /\ i \in Nat /\ 1 =< i /\ i =< Len(keys)
      BY <2>6
    <3> QED
      BY <1>1, <2>5, <3>1
  <2>8. bare \/ \A k \in rows' : k.key \in GoodKeys
    BY <1>1, <2>3, <2>6
  <2>9. Fresh(q, provider, Held) => Unique(rows') /\ Served(provider')
    <3> SUFFICES ASSUME Fresh(q, provider, Held), NEW x \in rows', NEW y \in rows', x.key = y.key
                 PROVE  x = y
      BY <2>3, <2>5 DEF Unique, Served
    <3>1. PICK i \in DOMAIN keys : x = [id |-> lastIds[2] + i, key |-> keys[i], order |-> 0 + i - 1]
      BY <1>4 DEF NewRows
    <3>2. PICK j \in DOMAIN keys : y = [id |-> lastIds[2] + j, key |-> keys[j], order |-> 0 + j - 1]
      BY <1>4 DEF NewRows
    <3>3. keys[i] = keys[j]
      BY <3>1, <3>2
    <3> QED
      BY <2>3, <3>1, <3>2, <3>3
  <2>10. raced \/ r \in stale \/ (Unique(rows') /\ Served(provider'))
    BY <1>1, <2>9
  <2>11. q.op # "import"
    BY <1>2
  <2> QED
    BY <1>2, <2>5, <2>6, <2>7, <2>8, <2>10, <2>11, Writes DEF q
<1> QED
  BY <1>2, <1>3, <1>4

\* A patch clears a surface of the provider.
LEMMA WritePatchKeeps ==
  ASSUME KeyInv, Notes, NEW r \in Requests, WritePatch(r)
  PROVE  KeyInv'
<1> DEFINE q == req[r]
<1>1. /\ lastIds[2] \in Nat
      /\ raced \/ r \in stale \/ Fresh(q, provider, Held)
  BY RequestIs
<1>2. /\ q.pc = "write" /\ q.op = "patch" /\ Becomes(r, Idle) /\ UNCHANGED <<rows, lastIds>>
      /\ provider' = IF provider.id = q.prov.id
                     THEN [provider EXCEPT !.surfaces = @ \ {q.clear}] ELSE provider
  BY DEF WritePatch, Ends
<1> HIDE DEF q
<1>3. provider \in Provider /\ provider.surfaces \in SUBSET Surfaces
  BY DEF KeyInv, WellFormed, Provider
<1>4. /\ provider' \in Provider
      /\ \/ provider' = provider
         \/ provider.id = q.prov.id /\ provider'.surfaces = provider.surfaces \ {q.clear}
  BY <1>2, <1>3 DEF Provider
<1>5. /\ rows \subseteq [id : Nat, key : Key, order : Nat] /\ lastIds \in [1 .. 2 -> Nat]
      /\ \A k \in rows : k.order < k.id /\ k.id =< lastIds[2]
  BY DEF KeyInv, WellFormed, OrderInv
<1>6. bare \/ \A k \in rows : k.key \in GoodKeys
  BY DEF KeyInv, HonestInv
<1>7. raced \/ r \in stale \/ (Unique(rows) /\ Served(provider'))
  BY <1>1, <1>2, <1>4 DEF KeyInv, FreshInv, Fresh, Served
<1>8. q.op # "import" /\ rows' = rows /\ lastIds' = lastIds /\ rows' \ rows = {}
  BY <1>2
<1>9. /\ rows' \subseteq [id : Nat, key : Key, order : Nat] /\ lastIds' \in [1 .. 2 -> Nat]
      /\ \A k \in rows' : k.order < k.id /\ k.id =< lastIds'[2]
      /\ bare \/ \A k \in rows' : k.key \in GoodKeys
      /\ raced \/ r \in stale \/ (Unique(rows') /\ Served(provider'))
      /\ lastIds[2] =< lastIds'[2]
  BY <1>1, <1>5, <1>6, <1>7, <1>8
<1> QED
  BY <1>2, <1>4, <1>8, <1>9, Writes DEF q

-----------------------------------------------------------------------------
(***************************************************************************)
(* The theorems.                                                           *)
(***************************************************************************)
\* A provider with all surfaces and no keys is a good start.
LEMMA InitGood == AuditInit => KeyInv
<1> SUFFICES ASSUME AuditInit PROVE KeyInv
  OBVIOUS
<1>1. /\ provider = [id |-> 1, surfaces |-> Surfaces] /\ rows = {} /\ lastIds = <<1, 0>>
      /\ req = [r \in Requests |-> Idle]
      /\ imported = {} /\ stale = {} /\ raced = FALSE /\ bare = FALSE
  BY DEF AuditInit, Init
<1>2. provider \in Provider /\ provider.surfaces # {}
  BY <1>1 DEF Provider, Surfaces
<1>3. lastIds \in [1 .. 2 -> Nat] /\ lastIds[2] = 0
  BY <1>1
<1>4. WellFormed
  BY <1>1, <1>2, <1>3, IdleIs DEF WellFormed
<1>5. OrderInv /\ HonestInv
  BY <1>1, <1>2, IdleIs DEF OrderInv, HonestInv
<1>6. FreshInv
  BY <1>1, <1>2, IdleIs DEF FreshInv, Unique, Served
<1> QED
  BY <1>1, <1>4, <1>5, <1>6 DEF KeyInv

\* Every step keeps the invariant.
LEMMA StepGood == KeyInv /\ [AuditNext]_auditVars => KeyInv'
<1> SUFFICES ASSUME KeyInv, [AuditNext]_auditVars PROVE KeyInv'
  OBVIOUS
<1>1. CASE UNCHANGED auditVars
  BY <1>1 DEF auditVars, vars, KeyInv, WellFormed, OrderInv, HonestInv, FreshInv, Held, Before
<1>2. ASSUME DeleteProvider, Notes PROVE KeyInv'
  BY <1>2, Deletes DEF DeleteProvider
<1>3. ASSUME NEW k \in rows, DeleteProviderKey(k), Notes PROVE KeyInv'
  BY <1>3, Deletes DEF DeleteProviderKey
<1>4. ASSUME NEW r \in Requests, Run(r), Notes PROVE KeyInv'
  <2>1. ASSUME NEW i \in req[r].running,
               NEW a \in Answers(req[r].file[i], req[r].prov.surfaces), Probed(r, i, Verdict(a))
        PROVE  KeyInv'
    BY <1>4, <2>1, ProbedKeeps
  <2> QED
    BY <1>4, <2>1, ProbeKeeps, CollectKeeps, ReadOrderKeeps, WriteImportKeeps, WriteAddKeeps,
       WriteCreateKeeps, WritePatchKeeps, WriteFailsKeeps DEF Run
<1>5. CASE Next /\ Notes
  BY <1>2, <1>3, <1>4, <1>5, StartImportKeeps, StartAddKeeps, StartCreateKeeps, StartPatchKeeps,
     CancelKeeps DEF Next
<1> QED
  BY <1>1, <1>5 DEF AuditNext

\* The invariant always holds.
LEMMA AlwaysGood == AuditSpec => []KeyInv
  BY InitGood, StepGood, PTL DEF AuditSpec

\* keycheck.go: "A key is saved only when no probe rejected it and every probe
\* answered".  While the provider has had an endpoint to ask, every key it
\* holds is one its upstream takes, whatever the files, the degree of
\* parallelism, the answers that fail and the requests that overlap.
THEOREM OnlyGoodKeysAreSaved == AuditSpec => []BadKeysStayOut
<1>1. KeyInv => BadKeysStayOut
  BY DEF KeyInv, HonestInv, BadKeysStayOut
<1> QED
  BY <1>1, AlwaysGood, PTL

\* api_keyimport.go: "File order becomes rotation order".  An import's keys
\* are rotated after all older rows, in the order of its file, whatever
\* requests overlap and whatever was deleted.
THEOREM ImportsKeepFileOrder == AuditSpec => []FileOrderKept
<1>1. KeyInv => FileOrderKept
  BY ToAddIs DEF KeyInv, OrderInv, FileOrderKept
<1> QED
  BY <1>1, AlwaysGood, PTL

\* api_providers.go's checks, that no key is held twice and that a provider
\* keeps an endpoint, are passed by only when a request writes on what another
\* has written since it looked.
THEOREM ChecksFailOnlyByRace == AuditSpec => []ChecksHold
<1>1. KeyInv => ChecksHold
  BY DEF KeyInv, FreshInv, ChecksHold, Unique, Served
<1> QED
  BY <1>1, AlwaysGood, PTL
=============================================================================
