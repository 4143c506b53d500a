----------------------------- MODULE UsageProofs -----------------------------
(***************************************************************************)
(* Theorems about usage accounting and the reports over it, for any        *)
(* owners, sizes of the buffer and the ring, retention, number of mishaps, *)
(* buckets, zones, pages and tables.                                       *)
(***************************************************************************)
EXTENDS UsageAudit, FiniteSetTheorems, TLAPS

-----------------------------------------------------------------------------
(***************************************************************************)
(* Sequences of events with distinct numbers.                              *)
(***************************************************************************)
IdsOf(s) == {s[i].id : i \in DOMAIN s}
Distinct(s) == \A i, j \in DOMAIN s : i # j => s[i].id # s[j].id

\* The numbers in a sequence, by its entries.
LEMMA IdsAre == \A s : Ids(ToSet(s)) = IdsOf(s)
  BY DEF Ids, ToSet, IdsOf

\* An event with a new number is appended.
LEMMA Appended ==
  ASSUME NEW s \in Seq(Event), NEW e \in Event, Distinct(s), e.id \notin IdsOf(s)
  PROVE  /\ Append(s, e) \in Seq(Event) /\ Len(Append(s, e)) = Len(s) + 1
         /\ IdsOf(Append(s, e)) = IdsOf(s) \cup {e.id} /\ Distinct(Append(s, e))
<1> DEFINE t == Append(s, e)
           n == Len(s)
<1>1. /\ t \in Seq(Event) /\ Len(t) = n + 1 /\ n \in Nat
      /\ DOMAIN s = 1 .. n /\ DOMAIN t = 1 .. n + 1
      /\ t[n + 1] = e /\ \A i \in 1 .. n : t[i] = s[i]
  OBVIOUS
<1> HIDE DEF t, n
<1>2. IdsOf(t) = IdsOf(s) \cup {e.id}
  <2>1. \A i \in 1 .. n + 1 : i = n + 1 \/ i \in 1 .. n
    BY <1>1
  <2>2. n + 1 \in 1 .. n + 1 /\ 1 .. n \subseteq 1 .. n + 1
    BY <1>1
  <2> QED
    BY <1>1, <2>1, <2>2 DEF IdsOf
<1>3. Distinct(t)
  <2> SUFFICES ASSUME NEW i \in 1 .. n + 1, NEW j \in 1 .. n + 1, i # j PROVE t[i].id # t[j].id
    BY <1>1 DEF Distinct
  <2>1. i = n + 1 \/ i \in 1 .. n
    BY <1>1
  <2>2. j = n + 1 \/ j \in 1 .. n
    BY <1>1
  <2>3. \A k \in 1 .. n : t[k].id \in IdsOf(s)
    BY <1>1 DEF IdsOf
  <2> QED
    BY <1>1, <2>1, <2>2, <2>3 DEF Distinct
<1> QED
  BY <1>1, <1>2, <1>3 DEF t, n

\* The first event is dropped.
LEMMA Dropped ==
  ASSUME NEW s \in Seq(Event), s # <<>>, Distinct(s)
  PROVE  /\ Tail(s) \in Seq(Event) /\ Len(Tail(s)) = Len(s) - 1 /\ Distinct(Tail(s))
         /\ Head(s) = s[1] /\ s[1] \in ToSet(s) /\ IdsOf(Tail(s)) = IdsOf(s) \ {s[1].id}
         /\ ToSet(Tail(s)) \subseteq ToSet(s)
<1> DEFINE t == Tail(s)
           n == Len(s)
<1>1. /\ t \in Seq(Event) /\ Len(t) = n - 1 /\ n \in Nat \ {0}
      /\ DOMAIN s = 1 .. n /\ DOMAIN t = 1 .. n - 1
      /\ \A i \in 1 .. n - 1 : t[i] = s[i + 1]
  OBVIOUS
<1>2. Head(s) = s[1]
  OBVIOUS
<1> HIDE DEF t, n
<1>3. Distinct(t)
  <2> SUFFICES ASSUME NEW i \in 1 .. n - 1, NEW j \in 1 .. n - 1, i # j PROVE t[i].id # t[j].id
    BY <1>1 DEF Distinct
  <2>1. i + 1 \in 1 .. n /\ j + 1 \in 1 .. n /\ i + 1 # j + 1 /\ t[i] = s[i + 1] /\ t[j] = s[j + 1]
    BY <1>1
  <2>2. s[i + 1].id # s[j + 1].id
    BY Zenon, <1>1, <2>1 DEF Distinct
  <2> QED
    BY <2>1, <2>2
<1>4. IdsOf(t) = IdsOf(s) \ {s[1].id}
  <2>1. ASSUME NEW i \in 1 .. n - 1 PROVE t[i].id \in IdsOf(s) \ {s[1].id}
    <3>1. i + 1 \in 1 .. n /\ i + 1 # 1 /\ 1 \in 1 .. n /\ t[i] = s[i + 1]
      BY <1>1
    <3> QED
      BY <1>1, <3>1 DEF Distinct, IdsOf
  <2>2. ASSUME NEW j \in 1 .. n, s[j].id # s[1].id PROVE s[j].id \in IdsOf(t)
    <3>1. j - 1 \in 1 .. n - 1 /\ (j - 1) + 1 = j
      BY <1>1, <2>2
    <3>2. t[j - 1] = s[j]
      BY <1>1, <3>1
    <3> QED
      BY <1>1, <3>1, <3>2 DEF IdsOf
  <2>3. IdsOf(t) = {t[i].id : i \in 1 .. n - 1} /\ IdsOf(s) = {s[j].id : j \in 1 .. n}
    BY Zenon, <1>1 DEF IdsOf
  <2>4. IdsOf(t) \subseteq IdsOf(s) \ {s[1].id}
    BY <2>1, <2>3
  <2>5. IdsOf(s) \ {s[1].id} \subseteq IdsOf(t)
    BY <2>2, <2>3
  <2> QED
    BY <2>4, <2>5
<1>5. s[1] \in ToSet(s) /\ ToSet(t) \subseteq ToSet(s)
  <2>1. \A i \in 1 .. n - 1 : i + 1 \in 1 .. n /\ t[i] = s[i + 1]
    BY <1>1
  <2>2. \A i \in 1 .. n - 1 : t[i] \in {s[j] : j \in 1 .. n}
    BY <2>1
  <2>3. 1 \in 1 .. n
    BY <1>1
  <2>4. ToSet(s) = {s[j] : j \in 1 .. n} /\ ToSet(t) = {t[j] : j \in 1 .. n - 1}
    BY <1>1 DEF ToSet
  <2> QED
    BY <2>2, <2>3, <2>4
<1> QED
  BY <1>1, <1>2, <1>3, <1>4, <1>5 DEF t, n

\* As many numbers as events.
LEMMA CountIds ==
  ASSUME NEW s \in Seq(Event), Distinct(s)
  PROVE  IsFiniteSet(IdsOf(s)) /\ Cardinality(IdsOf(s)) = Len(s)
<1> DEFINE n == Len(s)
           f == [i \in 1 .. n |-> s[i].id]
<1>1. n \in Nat /\ DOMAIN s = 1 .. n
  OBVIOUS
<1>2. /\ f \in [1 .. n -> IdsOf(s)]
      /\ \A i, j \in 1 .. n : f[i] = f[j] => i = j
      /\ \A x \in IdsOf(s) : \E i \in 1 .. n : f[i] = x
  BY <1>1 DEF IdsOf, Distinct
<1> HIDE DEF f, n
<1>3. f \in Bijection(1 .. n, IdsOf(s))
  BY <1>2 DEF Bijection, Injection, Surjection, IsInjective
<1>4. IsFiniteSet(1 .. n) /\ Cardinality(1 .. n) = n
  BY <1>1, FS_Interval
<1> QED
  BY <1>3, <1>4, FS_Bijection DEF ExistsBijection, n

\* The buffer takes a new event and drops at most its oldest one.
LEMMA BufferedKeeps ==
  ASSUME buf \in Seq(Event), Distinct(buf), Len(buf) =< BufferMax,
         NEW e \in Event, e.id \notin IdsOf(buf)
  PROVE  /\ Buffered(e) \in Seq(Event) /\ Len(Buffered(e)) =< BufferMax /\ Distinct(Buffered(e))
         /\ IdsOf(Buffered(e)) \subseteq IdsOf(buf) \cup {e.id} /\ e.id \in IdsOf(Buffered(e))
         /\ IdsOf(buf) \subseteq IdsOf(Buffered(e)) \cup
              {i \in {buf[1].id} : Len(buf) = BufferMax /\ Head(buf) = buf[1] /\ buf[1] \in ToSet(buf)}
         /\ ToSet(Buffered(e)) \subseteq ToSet(buf) \cup {e}
<1> DEFINE b == IF Len(buf) = BufferMax THEN Tail(buf) ELSE buf
<1>1. BufferMax \in Nat \ {0} /\ Len(buf) \in Nat
  BY UsageAssumption
<1>2. /\ b \in Seq(Event) /\ Len(b) < BufferMax /\ Distinct(b) /\ IdsOf(b) \subseteq IdsOf(buf)
      /\ IdsOf(buf) \subseteq IdsOf(b) \cup
           {i \in {buf[1].id} : Len(buf) = BufferMax /\ Head(buf) = buf[1] /\ buf[1] \in ToSet(buf)}
      /\ ToSet(b) \subseteq ToSet(buf)
  <2>1. CASE Len(buf) = BufferMax
    <3>1. buf # <<>> /\ b = Tail(buf)
      BY <1>1, <2>1
    <3>2. /\ Tail(buf) \in Seq(Event) /\ Len(Tail(buf)) = Len(buf) - 1 /\ Distinct(Tail(buf))
          /\ Head(buf) = buf[1] /\ buf[1] \in ToSet(buf) /\ IdsOf(Tail(buf)) = IdsOf(buf) \ {buf[1].id}
          /\ ToSet(Tail(buf)) \subseteq ToSet(buf)
      BY <3>1, Dropped
    <3>3. Len(Tail(buf)) < BufferMax
      BY <1>1, <2>1, <3>2
    <3> QED
      BY <2>1, <3>1, <3>2, <3>3
  <2>2. CASE Len(buf) # BufferMax
    BY <1>1, <2>2
  <2> QED
    BY <2>1, <2>2
<1>3. Buffered(e) = Append(b, e)
  BY DEF Buffered
<1> HIDE DEF b
<1>4. /\ Append(b, e) \in Seq(Event) /\ Len(Append(b, e)) = Len(b) + 1
      /\ IdsOf(Append(b, e)) = IdsOf(b) \cup {e.id} /\ Distinct(Append(b, e))
  BY <1>2, Appended
<1>5. ToSet(Append(b, e)) \subseteq ToSet(b) \cup {e}
  <2>1. /\ DOMAIN b = 1 .. Len(b) /\ DOMAIN Append(b, e) = 1 .. Len(b) + 1 /\ Len(b) \in Nat
        /\ \A i \in 1 .. Len(b) + 1 : IF i \in 1 .. Len(b) THEN Append(b, e)[i] = b[i] ELSE Append(b, e)[i] = e
    BY <1>2
  <2> QED
    BY <2>1 DEF ToSet
<1>6. Len(Append(b, e)) =< BufferMax
  <2>1. Len(b) \in Nat
    BY <1>2
  <2> QED
    BY <1>1, <1>2, <1>4, <2>1
<1> QED
  BY <1>2, <1>3, <1>4, <1>5, <1>6

-----------------------------------------------------------------------------
(***************************************************************************)
(* Where events are: an arithmetic of sets.                                *)
(***************************************************************************)
\* s, p, t and l share the numbers from 1 to m.
Shared(s, p, t, l, m) ==
  /\ s \cup p \cup t \cup l = 1 .. m
  /\ s \cap p = {} /\ s \cap t = {} /\ s \cap l = {}
  /\ p \cap t = {} /\ p \cap l = {} /\ t \cap l = {}

\* Numbers move between the first three and are lost only from go.
LEMMA Moved ==
  ASSUME NEW s, NEW p, NEW t, NEW l, NEW m \in Nat, Shared(s, p, t, l, m),
         NEW s2, NEW p2, NEW t2, NEW l2, NEW m2 \in Nat, m =< m2, NEW go,
         s2 \cup p2 \cup t2 \subseteq s \cup p \cup t \cup (m + 1 .. m2),
         s2 \cap p2 = {}, s2 \cap t2 = {}, p2 \cap t2 = {},
         s \cup p \cup t \cup (m + 1 .. m2) \subseteq s2 \cup p2 \cup t2 \cup go,
         go \subseteq s \cup p \cup t,
         l2 = l \cup (go \ (s2 \cup p2 \cup t2))
  PROVE  Shared(s2, p2, t2, l2, m2)
<1>1. 1 .. m2 = (1 .. m) \cup (m + 1 .. m2) /\ (1 .. m) \cap (m + 1 .. m2) = {}
  OBVIOUS
<1>2. l \cap (s \cup p \cup t) = {} /\ l \subseteq 1 .. m /\ s \cup p \cup t \cup l = 1 .. m
  BY DEF Shared
<1>3. l \cap (s2 \cup p2 \cup t2) = {}
  BY <1>1, <1>2
<1>4. s2 \cup p2 \cup t2 \cup l2 = 1 .. m2
  BY <1>1, <1>2
<1> QED
  BY <1>3, <1>4 DEF Shared

\* The sizes of four parts add up.
LEMMA Sizes ==
  ASSUME NEW s, NEW p, NEW t, NEW l, NEW m \in Nat, Shared(s, p, t, l, m)
  PROVE  Cardinality(s) + Cardinality(p) + Cardinality(t) + Cardinality(l) = m
<1>1. IsFiniteSet(1 .. m) /\ Cardinality(1 .. m) = m
  BY FS_Interval
<1>2. /\ IsFiniteSet(s) /\ IsFiniteSet(p) /\ IsFiniteSet(t) /\ IsFiniteSet(l)
      /\ IsFiniteSet(s \cup p) /\ IsFiniteSet(s \cup p \cup t)
  BY <1>1, FS_Subset DEF Shared
<1>3. /\ Cardinality(s) \in Nat /\ Cardinality(p) \in Nat
      /\ Cardinality(t) \in Nat /\ Cardinality(l) \in Nat
  BY <1>2, FS_CardinalityType
<1>4. Cardinality(s \cup p) = Cardinality(s) + Cardinality(p)
  <2>1. s \cap p = {} /\ Cardinality({}) = 0
    BY FS_EmptySet DEF Shared
  <2>2. Cardinality(s \cup p) = Cardinality(s) + Cardinality(p) - 0
    BY <1>2, <2>1, FS_Union
  <2> QED
    BY <1>3, <2>2
<1>5. Cardinality(s \cup p \cup t) = Cardinality(s) + Cardinality(p) + Cardinality(t)
  <2>1. (s \cup p) \cap t = {} /\ Cardinality({}) = 0
    BY FS_EmptySet DEF Shared
  <2>2. Cardinality((s \cup p) \cup t) = Cardinality(s \cup p) + Cardinality(t) - 0
    BY <1>2, <2>1, FS_Union
  <2> QED
    BY <1>3, <1>4, <2>2
<1>6. Cardinality(s \cup p \cup t \cup l) =
        Cardinality(s) + Cardinality(p) + Cardinality(t) + Cardinality(l)
  <2>1. (s \cup p \cup t) \cap l = {} /\ Cardinality({}) = 0
    BY FS_EmptySet DEF Shared
  <2>2. Cardinality((s \cup p \cup t) \cup l) = Cardinality(s \cup p \cup t) + Cardinality(l) - 0
    BY <1>2, <2>1, FS_Union
  <2> QED
    BY <1>3, <1>5, <2>2
<1> QED
  BY <1>1, <1>6 DEF Shared

-----------------------------------------------------------------------------
(***************************************************************************)
(* The invariant.                                                          *)
(***************************************************************************)
Progress ==
  [pc : {"idle", "open", "filing"}, owner : Owners \cup {Nobody}, event : Event \cup {NoEvent}]
Round == [pc : {"wait", "bump", "insert", "prune"}, deltas : [Owners -> Nat], batch : Seq(Event)]

\* A request's notes fit its progress.
Sound(p) ==
  /\ p.pc # "idle" => p.owner \in Owners
  /\ p.pc = "filing" => p.event \in Event

\* No event is from tomorrow.
Past(es, d) == \A e \in es : e.ts =< d

TypeInv ==
  /\ day \in Nat /\ made \in Nat /\ failures \in Nat /\ crashes \in Nat /\ budget \in Budget
  /\ buf \in Seq(Event) /\ Len(buf) =< BufferMax /\ Past(ToSet(buf), day)
  /\ ring \in [0 .. RingSize - 1 -> Event \cup {NoEvent}] /\ ringIdx \in 0 .. RingSize - 1
  /\ {deltas, counts, letIn, missed} \subseteq [Owners -> Nat]
  /\ loop \in Round /\ Past(ToSet(loop.batch), day)
  /\ loop.pc # "insert" => loop.batch = <<>>
  /\ loop.pc # "bump" => loop.deltas = NoDeltas
  /\ req \in [Requests -> Progress] /\ \A r \in Requests : Sound(req[r])
  /\ rows \subseteq Event /\ Past(rows, day)

\* Every event made is in one place, or accounted for as lost; what was in
\* the buffer at a drain is not there any more.
EventInv ==
  /\ Shared(Stored, Pending, Taken, lost, made)
  /\ Distinct(buf) /\ Distinct(loop.batch)
  /\ passed \cap Pending = {} /\ passed \subseteq Pending \cup Taken

CountInv ==
  \A o \in Owners : letIn[o] = counts[o] + loop.deltas[o] + deltas[o] + missed[o]

UsageInv == TypeInv /\ EventInv /\ CountInv

-----------------------------------------------------------------------------
(***************************************************************************)
(* What the notes say of a step.                                           *)
(***************************************************************************)
\* What may go was somewhere.
LEMMA GoingWasThere == MayGo \subseteq Stored \cup Pending \cup Taken
  BY DEF MayGo, Stored, Pending, Taken, Ids

\* Nobody is let in, and no counter is lost.
LEMMA NobodyLetIn ==
  ASSUME UsageInv, Notes, \A r \in Requests : ~(req[r].pc = "idle" /\ req'[r].pc = "open")
  PROVE  letIn' = letIn
<1>1. /\ letIn' = [o \in Owners |-> letIn[o] +
           Cardinality({r \in Requests : req[r].pc = "idle" /\ req'[r].pc = "open" /\ req'[r].owner = o})]
      /\ letIn \in [Owners -> Nat]
  BY DEF Notes, UsageInv, TypeInv
<1>2. \A o \in Owners :
        {r \in Requests : req[r].pc = "idle" /\ req'[r].pc = "open" /\ req'[r].owner = o} = {}
  OBVIOUS
<1>3. letIn' = [o \in Owners |-> letIn[o] + 0]
  BY <1>1, <1>2, FS_EmptySet
<1> QED
  BY <1>1, <1>3

\* As long as no statement fails and the process lives, no event is missed.
LEMMA NothingMissed ==
  ASSUME UsageInv, Notes, failures' = failures, crashes' = crashes
  PROVE  missed' = missed
<1>1. missed' = [o \in Owners |-> missed[o] + 0] /\ missed \in [Owners -> Nat]
  BY DEF Notes, Fails, Crashes, UsageInv, TypeInv
<1> QED
  BY <1>1

\* Events move as they should.
LEMMA EventsKeep ==
  ASSUME UsageInv, Notes, made' \in Nat, made =< made',
         Distinct(buf'), Distinct(loop'.batch),
         (Stored \cup Pending \cup Taken)' \subseteq Stored \cup Pending \cup Taken \cup (made + 1 .. made'),
         Stored' \cap Pending' = {}, Stored' \cap Taken' = {}, Pending' \cap Taken' = {},
         Stored \cup Pending \cup Taken \cup (made + 1 .. made')
           \subseteq (Stored \cup Pending \cup Taken)' \cup MayGo,
         Drains => Pending' = {},
         ~Drains => Pending' \subseteq Pending \cup (made + 1 .. made')
  PROVE  EventInv'
<1>1. /\ lost' = lost \cup (MayGo \ (Stored \cup Pending \cup Taken)')
      /\ passed' = (IF Drains THEN passed \cup Pending ELSE passed) \cap (Pending \cup Taken)'
  BY DEF Notes
<1>2. /\ Shared(Stored, Pending, Taken, lost, made) /\ made \in Nat
      /\ passed \cap Pending = {} /\ passed \subseteq Pending \cup Taken
  BY DEF UsageInv, EventInv, TypeInv
<1>3. Shared(Stored, Pending, Taken, lost, made)'
  <2> DEFINE s == Stored' p == Pending' t == Taken' l == lost' m == made' go == MayGo
  <2>1. /\ m \in Nat /\ made =< m
        /\ s \cup p \cup t \subseteq Stored \cup Pending \cup Taken \cup (made + 1 .. m)
        /\ s \cap p = {} /\ s \cap t = {} /\ p \cap t = {}
        /\ Stored \cup Pending \cup Taken \cup (made + 1 .. m) \subseteq s \cup p \cup t \cup go
        /\ go \subseteq Stored \cup Pending \cup Taken
        /\ l = lost \cup (go \ (s \cup p \cup t))
    BY <1>1, GoingWasThere
  <2> HIDE DEF s, p, t, l, m, go
  <2>2. Shared(s, p, t, l, m)
    BY <1>2, <2>1, Moved
  <2> QED
    BY <2>2 DEF s, p, t, l, m, Shared
<1>4. passed' \cap Pending' = {} /\ passed' \subseteq (Pending \cup Taken)'
  <2>1. CASE Drains
    BY <1>1, <2>1
  <2>2. CASE ~Drains
    <3>1. passed \cap (made + 1 .. made') = {}
      BY <1>2 DEF Shared
    <3> QED
      BY <1>1, <1>2, <2>2, <3>1
  <2> QED
    BY <2>1, <2>2
<1> QED
  BY <1>3, <1>4 DEF EventInv

\* A step that moves no events keeps them.
LEMMA EventsStay ==
  ASSUME UsageInv, Notes, UNCHANGED <<buf, rows, made>>, loop'.batch = loop.batch, ~Drains
  PROVE  EventInv'
<1>1. Stored' = Stored /\ Pending' = Pending /\ Taken' = Taken /\ made' = made
  BY DEF Stored, Pending, Taken
<1>2. /\ Shared(Stored, Pending, Taken, lost, made) /\ made \in Nat
      /\ Distinct(buf) /\ Distinct(loop.batch)
  BY DEF UsageInv, EventInv, TypeInv
<1>3. made + 1 .. made' = {}
  BY <1>1, <1>2
<1>4. Distinct(buf') /\ Distinct(loop'.batch)
  BY <1>2
<1>5. (Stored \cup Pending \cup Taken)' = Stored \cup Pending \cup Taken
  BY <1>1
<1>6. Stored' \cap Pending' = {} /\ Stored' \cap Taken' = {} /\ Pending' \cap Taken' = {}
  BY <1>1, <1>2 DEF Shared
<1>7. made' \in Nat /\ made =< made'
  BY <1>1, <1>2
<1> QED
  BY <1>1, <1>3, <1>4, <1>5, <1>6, <1>7, EventsKeep

\* A step that lets nobody in and moves no counter keeps the count.
LEMMA CountsStay ==
  ASSUME UsageInv, Notes, UNCHANGED <<deltas, counts, failures, crashes>>,
         loop'.deltas = loop.deltas,
         \A r \in Requests : ~(req[r].pc = "idle" /\ req'[r].pc = "open")
  PROVE  CountInv' /\ letIn' = letIn /\ missed' = missed
<1>1. letIn' = letIn /\ missed' = missed
  BY NobodyLetIn, NothingMissed
<1> QED
  BY <1>1 DEF UsageInv, CountInv

\* One request moves on.
LEMMA RequestMoves ==
  ASSUME TypeInv, NEW r \in Requests, NEW p \in Progress, Sound(p), req' = [req EXCEPT ![r] = p]
  PROVE  req' \in [Requests -> Progress] /\ \A q \in Requests : Sound(req'[q])
<1>1. req \in [Requests -> Progress] /\ \A q \in Requests : Sound(req[q])
  BY Zenon DEF TypeInv
<1>2. req' \in [Requests -> Progress]
  BY <1>1
<1>3. ASSUME NEW q \in Requests PROVE Sound(req'[q])
  <2>1. req'[q] = IF q = r THEN p ELSE req[q]
    BY <1>1
  <2> QED
    BY <1>1, <2>1
<1> QED
  BY <1>2, <1>3

-----------------------------------------------------------------------------
(***************************************************************************)
(* The invariant holds at the start and is kept by every step.             *)
(***************************************************************************)
\* A table whose numbers are 1 to its size, nothing in memory.
LEMMA InitGood == AuditInit => UsageInv
<1> SUFFICES ASSUME AuditInit PROVE UsageInv
  OBVIOUS
<1>1. PICK s \in Starts : rows = s.rows /\ budget = s.budget
  BY DEF AuditInit, Init
<1>2. /\ rows \subseteq Event /\ IsFiniteSet(rows) /\ Stored = 1 .. Cardinality(rows)
      /\ \A e \in rows : e.ts =< FirstDay
      /\ budget \in Budget
  BY <1>1, UsageAssumption DEF Stored, Ids
<1>3. made = Cardinality(rows) /\ made \in Nat
  BY <1>2, FS_CardinalityType DEF AuditInit, Init, LogInit
<1>4. buf = <<>> /\ loop = Waiting /\ loop.batch = <<>> /\ loop.deltas = NoDeltas
  BY DEF AuditInit, Init, LogInit, Fresh, Waiting
<1>5. ToSet(<<>>) = {} /\ Pending = {} /\ Taken = {}
  BY <1>4 DEF ToSet, Pending, Taken, Ids
<1>6. NoDeltas \in [Owners -> Nat] /\ \A o \in Owners : NoDeltas[o] = 0
  BY DEF NoDeltas
<1>7. TypeInv
  <2>1. day \in Nat /\ failures \in Nat /\ crashes \in Nat /\ day = FirstDay
    BY UsageAssumption DEF AuditInit, Init, LogInit
  <2>2. buf \in Seq(Event) /\ Len(buf) =< BufferMax /\ Past(ToSet(buf), day)
    BY <1>4, <1>5, UsageAssumption DEF Past
  <2>3. ring \in [0 .. RingSize - 1 -> Event \cup {NoEvent}] /\ ringIdx \in 0 .. RingSize - 1
    BY UsageAssumption DEF AuditInit, Init, LogInit, Fresh
  <2>4. {deltas, counts, letIn, missed} \subseteq [Owners -> Nat]
    BY <1>6 DEF AuditInit, Init, LogInit, Fresh
  <2>5. loop \in Round /\ Past(ToSet(loop.batch), day)
    BY <1>4, <1>5, <1>6 DEF Past, Round, Waiting
  <2>6. (loop.pc # "insert" => loop.batch = <<>>) /\ (loop.pc # "bump" => loop.deltas = NoDeltas)
    BY <1>4
  <2>7. req \in [Requests -> Progress] /\ \A r \in Requests : Sound(req[r])
    BY DEF AuditInit, Init, LogInit, Fresh, IdleRequest, Progress, Sound
  <2>8. Past(rows, day)
    BY <1>2, <2>1 DEF Past
  <2> QED
    BY <1>2, <1>3, <2>1, <2>2, <2>3, <2>4, <2>5, <2>6, <2>7, <2>8 DEF TypeInv
<1>8. EventInv
  <2>1. lost = {} /\ passed = {}
    BY DEF AuditInit
  <2>2. Shared(Stored, Pending, Taken, lost, made)
    BY <1>2, <1>3, <1>5, <2>1 DEF Shared
  <2> QED
    BY <1>4, <1>5, <2>1, <2>2 DEF EventInv, Distinct
<1>9. CountInv
  BY <1>4, <1>6 DEF CountInv, AuditInit, Init, LogInit, Fresh
<1> QED
  BY <1>7, <1>8, <1>9 DEF UsageInv

\* Another day: what happened before is past.
LEMMA NextDayGood ==
  ASSUME UsageInv, NextDay, Notes PROVE UsageInv'
<1>1. /\ budget.days > 0 /\ budget' = [budget EXCEPT !.days = @ - 1] /\ day' = day + 1
      /\ UNCHANGED <<memory, tables, made, bounds>>
  BY DEF NextDay
<1>2. UNCHANGED <<buf, ring, ringIdx, deltas, loop, req, rows, counts, made, failures, crashes>>
  BY <1>1 DEF memory, tables, bounds
<1>3. CountInv' /\ letIn' = letIn /\ missed' = missed
  BY <1>2, CountsStay
<1>4. ~Drains
  BY <1>2 DEF Drains
<1>5. EventInv'
  BY <1>2, <1>4, EventsStay
<1>6. budget' \in Budget
  <2>1. budget \in Budget
    BY Zenon DEF UsageInv, TypeInv
  <2> QED
    BY <1>1, <2>1 DEF Budget
<1>7. day' \in Nat /\ \A es \in {ToSet(buf), ToSet(loop.batch), rows} : Past(es, day) => Past(es, day')
  <2> SUFFICES ASSUME NEW e \in UNION {ToSet(buf), ToSet(loop.batch), rows}, e.ts =< day
               PROVE  e.ts =< day'
    BY <1>1 DEF Past, UsageInv, TypeInv
  <2>1. e \in Event
    BY DEF UsageInv, TypeInv, ToSet, Round
  <2> QED
    BY <1>1, <2>1 DEF UsageInv, TypeInv, Event
<1>8. TypeInv'
  <2>1. TypeInv
    BY DEF UsageInv
  <2> QED
    BY <1>2, <1>3, <1>6, <1>7, <2>1 DEF TypeInv
<1> QED
  BY <1>3, <1>5, <1>8 DEF UsageInv

\* One request more, and its owner's counter.
LEMMA LetInGood ==
  ASSUME UsageInv, NEW r \in Requests, NEW o \in Owners, LetIn(r, o), Notes PROVE UsageInv'
<1>1. /\ req[r].pc = "idle"
      /\ deltas' = [deltas EXCEPT ![o] = @ + 1]
      /\ req' = [req EXCEPT ![r] = [IdleRequest EXCEPT !.pc = "open", !.owner = o]]
      /\ UNCHANGED <<day, buf, ring, ringIdx, loop, rows, counts, made, budget, failures, crashes>>
  BY DEF LetIn, tables, numbers, bounds
<1>2. TypeInv /\ CountInv
  BY DEF UsageInv
<1>3. req'[r] = [pc |-> "open", owner |-> o, event |-> NoEvent] /\ \A q \in Requests \ {r} : req'[q] = req[q]
  BY <1>1, <1>2 DEF TypeInv, IdleRequest
<1>4. letIn' = [x \in Owners |-> letIn[x] + (IF x = o THEN 1 ELSE 0)]
  <2>1. \A x \in Owners :
          {q \in Requests : req[q].pc = "idle" /\ req'[q].pc = "open" /\ req'[q].owner = x} =
             IF x = o THEN {r} ELSE {}
    BY <1>1, <1>3
  <2>2. Cardinality({r}) = 1 /\ Cardinality({}) = 0
    BY FS_Singleton, FS_EmptySet
  <2>3. \A x \in Owners :
          Cardinality({q \in Requests : req[q].pc = "idle" /\ req'[q].pc = "open" /\ req'[q].owner = x}) =
             IF x = o THEN 1 ELSE 0
    BY <2>1, <2>2
  <2> QED
    BY <2>3 DEF Notes
<1>5. missed' = missed
  BY <1>1, NothingMissed
<1>6. {deltas', counts', letIn', missed'} \subseteq [Owners -> Nat] /\ CountInv'
  <2>1. {deltas, counts, letIn, missed} \subseteq [Owners -> Nat] /\ loop.deltas \in [Owners -> Nat]
    BY <1>2 DEF TypeInv, Round
  <2>2. {deltas', counts', letIn', missed'} \subseteq [Owners -> Nat]
    BY <1>1, <1>4, <1>5, <2>1
  <2>3. ASSUME NEW x \in Owners
        PROVE  letIn'[x] = counts'[x] + loop'.deltas[x] + deltas'[x] + missed'[x]
    BY <1>1, <1>2, <1>4, <1>5, <2>1 DEF CountInv
  <2> QED
    BY <2>2, <2>3 DEF CountInv
<1>7. ~Drains
  BY <1>1, <1>2 DEF Drains, TypeInv
<1>8. EventInv'
  BY <1>1, <1>7, EventsStay
<1>9. TypeInv'
  <2> DEFINE p == [IdleRequest EXCEPT !.pc = "open", !.owner = o]
  <2>1. p \in Progress /\ Sound(p) /\ req' = [req EXCEPT ![r] = p]
    <3>1. p \in Progress /\ Sound(p)
      BY DEF Progress, Sound, IdleRequest
    <3> QED
      BY <1>1, <3>1
  <2>2. req' \in [Requests -> Progress] /\ \A q \in Requests : Sound(req'[q])
    BY <1>2, <2>1, RequestMoves
  <2> QED
    BY <1>1, <1>2, <1>6, <2>2 DEF TypeInv
<1> QED
  BY <1>6, <1>8, <1>9 DEF UsageInv

\* The event of a request that ended.
LEMMA RecordGood ==
  ASSUME UsageInv, NEW r \in Requests, NEW outcome, Record(r, outcome), Notes PROVE UsageInv'
<1> DEFINE e == [id |-> made + 1, ts |-> day, owner |-> req[r].owner,
                 model |-> outcome.model, ok |-> outcome.ok, dur |-> outcome.dur]
           p == [req[r] EXCEPT !.pc = "filing", !.event = e]
<1>1. /\ req[r].pc = "open" /\ budget.calls # <<>> /\ outcome \in Head(budget.calls)
      /\ buf' = Buffered(e) /\ req' = [req EXCEPT ![r].pc = "filing", ![r].event = e]
      /\ made' = made + 1 /\ budget' = [budget EXCEPT !.calls = Tail(@)]
      /\ UNCHANGED <<day, ring, ringIdx, deltas, loop, rows, counts, failures, crashes>>
  BY DEF Record, tables, bounds
<1>2. TypeInv /\ EventInv
  BY DEF UsageInv
<1>3. budget \in Budget /\ made \in Nat /\ day \in Nat /\ req[r] \in Progress /\ Sound(req[r])
  BY <1>2, Zenon DEF TypeInv
<1>4. outcome \in Outcome /\ budget' \in Budget
  <2>1. budget.calls \in Seq(SUBSET Outcome)
    BY <1>3 DEF Budget
  <2>2. Head(budget.calls) \in SUBSET Outcome /\ Tail(budget.calls) \in Seq(SUBSET Outcome)
    BY <1>1, <2>1
  <2> QED
    BY <1>1, <1>3, <2>2 DEF Budget
<1>5. e \in Event /\ e.id = made + 1 /\ e.ts = day
  BY <1>1, <1>3, <1>4 DEF Event, Outcome, Sound
<1>6. p \in Progress /\ Sound(p) /\ req' = [req EXCEPT ![r] = p] /\ p.pc = "filing"
  <2>1. req \in [Requests -> Progress]
    BY <1>2, Zenon DEF TypeInv
  <2> HIDE DEF e
  <2>2. p \in Progress /\ Sound(p) /\ p.pc = "filing"
    BY <1>1, <1>3, <1>5 DEF Progress, Sound
  <2>3. req' = [req EXCEPT ![r] = p]
    BY <1>1, <2>1
  <2> QED
    BY <2>2, <2>3
<1> HIDE DEF p
<1>7. CountInv' /\ letIn' = letIn /\ missed' = missed
  <2>1. \A q \in Requests : ~(req[q].pc = "idle" /\ req'[q].pc = "open")
    <3>1. req \in [Requests -> Progress]
      BY <1>2, Zenon DEF TypeInv
    <3> QED
      BY <1>1, <1>6, <3>1
  <2> QED
    BY <1>1, <2>1, CountsStay
<1>8. Stored' = Stored /\ Taken' = Taken /\ Pending = IdsOf(buf) /\ Pending' = IdsOf(buf')
  BY <1>1, IdsAre DEF Stored, Taken, Pending
<1> HIDE DEF e
<1>9. e.id \notin IdsOf(buf)
  BY <1>2, <1>3, <1>5, <1>8 DEF EventInv, Shared
<1>10. /\ buf' \in Seq(Event) /\ Len(buf') =< BufferMax /\ Distinct(buf')
       /\ Pending' \subseteq Pending \cup {made + 1} /\ made + 1 \in Pending'
       /\ Pending \subseteq Pending' \cup
            {i \in {buf[1].id} : Len(buf) = BufferMax /\ Head(buf) = buf[1] /\ buf[1] \in ToSet(buf)}
       /\ ToSet(buf') \subseteq ToSet(buf) \cup {e}
  <2>1. buf \in Seq(Event) /\ Len(buf) =< BufferMax /\ Distinct(buf)
    BY <1>2 DEF TypeInv, EventInv
  <2> QED
    BY <1>1, <1>5, <1>8, <1>9, <2>1, BufferedKeeps
<1>11. EventInv'
  <2>1. (made + 1) .. made' = {made + 1} /\ made' \in Nat /\ made =< made' /\ made' # made
    BY <1>1, <1>3
  <2>2. Distinct(buf') /\ Distinct(loop'.batch)
    BY <1>1, <1>2, <1>10 DEF EventInv
  <2>3. {i \in {buf[1].id} : Len(buf) = BufferMax /\ Head(buf) = buf[1] /\ buf[1] \in ToSet(buf)}
           \subseteq MayGo
    BY <2>1 DEF MayGo, Ids
  <2>4. ~Drains
    BY <1>1, <1>2 DEF Drains, TypeInv
  <2>5. /\ Stored \cap Pending = {} /\ Stored \cap Taken = {} /\ Pending \cap Taken = {}
        /\ made + 1 \notin Stored \cup Taken
    BY <1>2, <1>3 DEF EventInv, Shared
  <2>6. /\ (Stored \cup Pending \cup Taken)' \subseteq Stored \cup Pending \cup Taken \cup (made + 1 .. made')
        /\ Stored' \cap Pending' = {} /\ Stored' \cap Taken' = {} /\ Pending' \cap Taken' = {}
        /\ Stored \cup Pending \cup Taken \cup (made + 1 .. made')
             \subseteq (Stored \cup Pending \cup Taken)' \cup MayGo
        /\ Pending' \subseteq Pending \cup (made + 1 .. made')
    BY <1>8, <1>10, <2>1, <2>3, <2>5
  <2> QED
    BY <2>1, <2>2, <2>4, <2>6, EventsKeep
<1>12. TypeInv'
  <2>1. req' \in [Requests -> Progress] /\ \A q \in Requests : Sound(req'[q])
    BY <1>2, <1>6, RequestMoves
  <2>2. Past(ToSet(buf'), day')
    BY <1>1, <1>2, <1>3, <1>5, <1>10 DEF TypeInv, Past
  <2>3. made' \in Nat
    BY <1>1, <1>3
  <2> QED
    BY <1>1, <1>2, <1>4, <1>7, <1>10, <2>1, <2>2, <2>3 DEF TypeInv
<1> QED
  BY <1>7, <1>11, <1>12 DEF UsageInv

\* The ring takes an event the buffer already has.
LEMMA AddActivityGood ==
  ASSUME UsageInv, NEW r \in Requests, AddActivity(r), Notes PROVE UsageInv'
<1>1. /\ req[r].pc = "filing"
      /\ ring' = [ring EXCEPT ![ringIdx] = req[r].event]
      /\ ringIdx' = (ringIdx + 1) % RingSize
      /\ \/ req' = [req EXCEPT ![r] = IdleRequest]
         \/ req' = [req EXCEPT ![r].pc = "open", ![r].event = NoEvent]
      /\ UNCHANGED <<day, buf, deltas, loop, rows, counts, made, budget, failures, crashes>>
  BY DEF AddActivity, tables, numbers, bounds
<1>2. TypeInv
  BY DEF UsageInv
<1>3. /\ req \in [Requests -> Progress] /\ req[r] \in Progress /\ Sound(req[r])
      /\ ring \in [0 .. RingSize - 1 -> Event \cup {NoEvent}] /\ ringIdx \in 0 .. RingSize - 1
  BY <1>2, Zenon DEF TypeInv
<1>4. /\ req' \in [Requests -> Progress] /\ \A q \in Requests : Sound(req'[q])
      /\ \A q \in Requests : ~(req[q].pc = "idle" /\ req'[q].pc = "open")
  <2>1. CASE req' = [req EXCEPT ![r] = IdleRequest]
    <3>1. IdleRequest \in Progress /\ Sound(IdleRequest) /\ IdleRequest.pc = "idle"
      BY DEF IdleRequest, Progress, Sound
    <3>2. req' \in [Requests -> Progress] /\ \A q \in Requests : Sound(req'[q])
      BY <1>2, <2>1, <3>1, RequestMoves
    <3> QED
      BY <1>1, <1>3, <2>1, <3>1, <3>2
  <2>2. CASE req' = [req EXCEPT ![r].pc = "open", ![r].event = NoEvent]
    <3> DEFINE p == [req[r] EXCEPT !.pc = "open", !.event = NoEvent]
    <3>1. p \in Progress /\ Sound(p)
      BY <1>1, <1>3 DEF Progress, Sound
    <3>2. req' = [req EXCEPT ![r] = p]
      BY <1>3, <2>2
    <3> HIDE DEF p
    <3>3. req' \in [Requests -> Progress] /\ \A q \in Requests : Sound(req'[q])
      BY <1>2, <3>1, <3>2, RequestMoves
    <3> QED
      BY <1>1, <1>3, <3>2, <3>3
  <2> QED
    BY <1>1, <2>1, <2>2
<1>5. CountInv' /\ letIn' = letIn /\ missed' = missed
  BY <1>1, <1>4, CountsStay
<1>6. EventInv'
  <2>1. ~Drains
    BY <1>1, <1>2 DEF Drains, TypeInv
  <2> QED
    BY <1>1, <2>1, EventsStay
<1>7. ring' \in [0 .. RingSize - 1 -> Event \cup {NoEvent}] /\ ringIdx' \in 0 .. RingSize - 1
  <2>1. req[r].event \in Event
    BY <1>1, <1>3 DEF Sound
  <2>2. (ringIdx + 1) % RingSize \in 0 .. RingSize - 1
    BY <1>3, UsageAssumption
  <2> QED
    BY <1>1, <1>3, <2>1, <2>2
<1>8. TypeInv'
  BY <1>1, <1>2, <1>4, <1>5, <1>7 DEF TypeInv
<1> QED
  BY <1>5, <1>6, <1>8 DEF UsageInv

\* The counters go to the loop.
LEMMA TakeDeltasGood ==
  ASSUME UsageInv, TakeDeltas, Notes PROVE UsageInv'
<1>1. /\ loop.pc = "wait" /\ loop' = [loop EXCEPT !.pc = "bump", !.deltas = deltas]
      /\ deltas' = NoDeltas
      /\ UNCHANGED <<day, buf, ring, ringIdx, req, rows, counts, made, budget, failures, crashes>>
  BY DEF TakeDeltas, tables, numbers, bounds
<1>2. TypeInv /\ CountInv
  BY DEF UsageInv
<1>3. loop \in Round /\ {deltas, counts, letIn, missed} \subseteq [Owners -> Nat]
  BY <1>2, Zenon DEF TypeInv
<1>4. loop.batch = <<>> /\ loop.deltas = NoDeltas
  BY <1>1, <1>2 DEF TypeInv
<1>5. /\ loop' \in Round /\ loop'.pc = "bump" /\ loop'.deltas = deltas /\ loop'.batch = loop.batch
      /\ NoDeltas \in [Owners -> Nat] /\ \A o \in Owners : NoDeltas[o] = 0
  BY <1>1, <1>3 DEF Round, NoDeltas
<1>6. letIn' = letIn /\ missed' = missed
  <2>1. \A r \in Requests : ~(req[r].pc = "idle" /\ req'[r].pc = "open")
    BY <1>1
  <2> QED
    BY <1>1, <2>1, NobodyLetIn, NothingMissed
<1>7. CountInv'
  <2> SUFFICES ASSUME NEW o \in Owners
               PROVE  letIn[o] = counts[o] + deltas[o] + NoDeltas[o] + missed[o]
    BY <1>1, <1>5, <1>6 DEF CountInv
  <2>1. letIn[o] = counts[o] + loop.deltas[o] + deltas[o] + missed[o]
    BY <1>2 DEF CountInv
  <2> QED
    BY <1>3, <1>4, <1>5, <2>1
<1>8. EventInv'
  <2>1. ~Drains
    BY <1>1 DEF Drains
  <2> QED
    BY <1>1, <1>5, <2>1, EventsStay
<1>9. TypeInv'
  <2>1. Past(ToSet(loop'.batch), day')
    BY <1>1, <1>2, <1>5 DEF TypeInv
  <2> QED
    BY <1>1, <1>2, <1>3, <1>4, <1>5, <1>6, <2>1 DEF TypeInv
<1> QED
  BY <1>7, <1>8, <1>9 DEF UsageInv

\* A counter is written, or lost and noted.
LEMMA BumpGood ==
  ASSUME UsageInv, NEW o \in Owners, Bump(o), Notes PROVE UsageInv'
<1>1. /\ loop.pc = "bump" /\ loop.deltas[o] > 0 /\ loop' = [loop EXCEPT !.deltas[o] = 0]
      /\ \/ counts' = [counts EXCEPT ![o] = @ + loop.deltas[o]] /\ failures' = failures
         \/ failures' = failures + 1 /\ counts' = counts
      /\ UNCHANGED <<day, buf, ring, ringIdx, deltas, req, rows, made, budget, crashes>>
  BY DEF Bump, MayFail, numbers
<1>2. TypeInv /\ CountInv
  BY DEF UsageInv
<1>3. /\ loop \in Round /\ {deltas, counts, letIn, missed} \subseteq [Owners -> Nat]
      /\ failures \in Nat
  BY <1>2, Zenon DEF TypeInv
<1>4. /\ loop' \in Round /\ loop'.pc = "bump" /\ loop'.batch = loop.batch
      /\ loop'.deltas = [loop.deltas EXCEPT ![o] = 0] /\ loop.deltas \in [Owners -> Nat]
  BY <1>1, <1>3 DEF Round
<1>5. letIn' = letIn
  <2>1. \A r \in Requests : ~(req[r].pc = "idle" /\ req'[r].pc = "open")
    BY <1>1
  <2> QED
    BY <2>1, NobodyLetIn
<1>6. /\ {deltas', counts', letIn', missed'} \subseteq [Owners -> Nat] /\ failures' \in Nat
      /\ \A x \in Owners : letIn'[x] = counts'[x] + loop'.deltas[x] + deltas'[x] + missed'[x]
  <2>0. \A x \in Owners : letIn[x] = counts[x] + loop.deltas[x] + deltas[x] + missed[x]
    BY <1>2 DEF CountInv
  <2>1. CASE counts' = [counts EXCEPT ![o] = @ + loop.deltas[o]] /\ failures' = failures
    <3>1. missed' = missed
      BY <1>1, <2>1, NothingMissed
    <3>2. counts' \in [Owners -> Nat]
      BY <1>3, <1>4, <2>1
    <3>3. ASSUME NEW x \in Owners
          PROVE  letIn'[x] = counts'[x] + loop'.deltas[x] + deltas'[x] + missed'[x]
      <4>1. counts'[x] + loop'.deltas[x] = counts[x] + loop.deltas[x]
        BY <1>3, <1>4, <2>1
      <4> QED
        BY <1>1, <1>5, <2>0, <3>1, <4>1
    <3> QED
      BY <1>1, <1>3, <1>5, <2>1, <3>1, <3>2, <3>3
  <2>2. CASE failures' = failures + 1 /\ counts' = counts
    <3>1. Fails /\ ~Crashes
      BY <1>1, <1>3, <2>2 DEF Fails, Crashes
    <3>2. missed' = [x \in Owners |-> missed[x] + (IF x = o THEN loop.deltas[o] ELSE 0)]
      <4>1. missed' = [x \in Owners |-> missed[x] +
               (IF loop'.deltas[x] # loop.deltas[x] THEN loop.deltas[x] ELSE 0)]
        BY <1>1, <3>1 DEF Notes
      <4>2. \A x \in Owners : loop'.deltas[x] # loop.deltas[x] <=> x = o
        BY <1>1, <1>4
      <4>3. \A x \in Owners : (IF loop'.deltas[x] # loop.deltas[x] THEN loop.deltas[x] ELSE 0)
                                = IF x = o THEN loop.deltas[o] ELSE 0
        BY <4>2
      <4> QED
        BY <4>1, <4>3
    <3>3. missed' \in [Owners -> Nat]
      BY <1>3, <1>4, <3>2
    <3>4. ASSUME NEW x \in Owners
          PROVE  letIn'[x] = counts'[x] + loop'.deltas[x] + deltas'[x] + missed'[x]
      <4>1. missed'[x] = missed[x] + (IF x = o THEN loop.deltas[o] ELSE 0)
        BY <3>2
      <4>2. loop'.deltas[x] = IF x = o THEN 0 ELSE loop.deltas[x]
        BY <1>4
      <4>3. loop'.deltas[x] + missed'[x] = loop.deltas[x] + missed[x]
        BY <1>3, <1>4, <4>1, <4>2
      <4>4. /\ counts[x] \in Nat /\ deltas[x] \in Nat /\ missed[x] \in Nat /\ loop.deltas[x] \in Nat
            /\ loop'.deltas[x] \in Nat /\ missed'[x] \in Nat
        BY <1>3, <1>4, <3>3, <4>2
      <4> QED
        BY <1>1, <1>5, <2>0, <2>2, <4>3, <4>4
    <3> QED
      BY <1>1, <1>3, <1>5, <2>2, <3>3, <3>4
  <2> QED
    BY <1>1, <2>1, <2>2
<1>7. EventInv'
  <2>1. ~Drains
    BY <1>4 DEF Drains
  <2> QED
    BY <1>1, <1>4, <2>1, EventsStay
<1>8. TypeInv'
  <2>1. loop.batch = <<>> /\ Past(ToSet(loop'.batch), day')
    BY <1>1, <1>2, <1>4 DEF TypeInv
  <2> QED
    BY <1>1, <1>2, <1>4, <1>6, <2>1 DEF TypeInv
<1> QED
  BY <1>6, <1>7, <1>8 DEF UsageInv, CountInv

\* The buffer goes to the loop; what was in it is in it no more.
LEMMA DrainGood ==
  ASSUME UsageInv, Drain, Notes PROVE UsageInv'
<1>1. /\ loop.pc = "bump" /\ loop.deltas = NoDeltas /\ buf' = <<>>
      /\ loop' = [loop EXCEPT !.pc = IF buf = <<>> THEN "prune" ELSE "insert", !.batch = buf]
      /\ UNCHANGED <<day, ring, ringIdx, deltas, req, rows, counts, made, budget, failures, crashes>>
  BY DEF Drain, tables, numbers, bounds
<1>2. TypeInv /\ EventInv
  BY DEF UsageInv
<1>3. loop \in Round /\ buf \in Seq(Event) /\ Past(ToSet(buf), day) /\ made \in Nat
  BY <1>2, Zenon DEF TypeInv
<1>4. loop.batch = <<>>
  BY <1>1, <1>2 DEF TypeInv
<1>5. /\ loop' \in Round /\ loop'.pc \in {"insert", "prune"} /\ loop'.batch = buf
      /\ loop'.deltas = NoDeltas /\ (loop'.pc # "insert" => loop'.batch = <<>>)
  BY <1>1, <1>3 DEF Round
<1>6. CountInv' /\ letIn' = letIn /\ missed' = missed
  <2>1. \A r \in Requests : ~(req[r].pc = "idle" /\ req'[r].pc = "open")
    BY <1>1
  <2> QED
    BY <1>1, <1>5, <2>1, CountsStay
<1>7. Drains
  BY <1>1, <1>5 DEF Drains
<1>8. Stored' = Stored /\ Pending' = {} /\ Taken' = Pending /\ Taken = {}
  <2>1. ToSet(<<>>) = {}
    BY DEF ToSet
  <2> QED
    BY <1>1, <1>4, <1>5, <2>1 DEF Stored, Pending, Taken, Ids
<1>9. EventInv'
  <2>1. (made + 1) .. made' = {} /\ made' \in Nat /\ made =< made'
    BY <1>1, <1>3
  <2>2. Distinct(buf') /\ Distinct(loop'.batch)
    BY <1>1, <1>2, <1>5 DEF EventInv, Distinct
  <2>3. Stored \cap Pending = {}
    BY <1>2 DEF EventInv, Shared
  <2>4. /\ (Stored \cup Pending \cup Taken)' \subseteq Stored \cup Pending \cup Taken \cup (made + 1 .. made')
        /\ Stored' \cap Pending' = {} /\ Stored' \cap Taken' = {} /\ Pending' \cap Taken' = {}
        /\ Stored \cup Pending \cup Taken \cup (made + 1 .. made')
             \subseteq (Stored \cup Pending \cup Taken)' \cup MayGo
    BY <1>8, <2>1, <2>3
  <2> QED
    BY <1>7, <1>8, <2>1, <2>2, <2>4, EventsKeep
<1>10. TypeInv'
  <2>1. buf' \in Seq(Event) /\ Len(buf') =< BufferMax /\ Past(ToSet(buf'), day')
    BY <1>1, UsageAssumption DEF Past, ToSet
  <2>2. Past(ToSet(loop'.batch), day')
    BY <1>1, <1>3, <1>5
  <2> QED
    BY <1>1, <1>2, <1>5, <1>6, <2>1, <2>2 DEF TypeInv
<1> QED
  BY <1>6, <1>9, <1>10 DEF UsageInv

\* The batch is in the table, or lost and noted.
LEMMA InsertGood ==
  ASSUME UsageInv, InsertUsageEvents, Notes PROVE UsageInv'
<1>1. /\ loop.pc = "insert" /\ loop' = [loop EXCEPT !.pc = "prune", !.batch = <<>>]
      /\ \/ rows' = rows \cup ToSet(loop.batch) /\ failures' = failures
         \/ failures' = failures + 1 /\ rows' = rows
      /\ UNCHANGED <<day, buf, ring, ringIdx, deltas, req, counts, made, budget, crashes>>
  BY DEF InsertUsageEvents, MayFail, numbers
<1>2. TypeInv /\ EventInv
  BY DEF UsageInv
<1>3. /\ loop \in Round /\ Past(ToSet(loop.batch), day) /\ made \in Nat /\ failures \in Nat
      /\ rows \subseteq Event /\ Past(rows, day) /\ {deltas, counts, letIn, missed} \subseteq [Owners -> Nat]
  BY <1>2, Zenon DEF TypeInv
<1>4. /\ loop' \in Round /\ loop'.pc = "prune" /\ loop'.batch = <<>> /\ loop'.deltas = loop.deltas
      /\ loop.batch \in Seq(Event)
  <2>1. <<>> \in Seq(Event)
    OBVIOUS
  <2>2. loop.pc \in {"wait", "bump", "insert", "prune"} /\ loop.deltas \in [Owners -> Nat]
        /\ loop.batch \in Seq(Event)
        /\ loop = [pc |-> loop.pc, deltas |-> loop.deltas, batch |-> loop.batch]
    BY <1>3 DEF Round
  <2>3. loop' = [pc |-> "prune", deltas |-> loop.deltas, batch |-> <<>>]
    BY <1>1, <2>2
  <2> QED
    BY <2>1, <2>2, <2>3 DEF Round
<1>5. ~Drains
  BY <1>1 DEF Drains
<1>6. /\ Pending' = Pending /\ Taken' = {}
      /\ Stored' \subseteq Stored \cup Taken /\ Stored \subseteq Stored'
      /\ Taken \subseteq Stored' \/ Taken \subseteq MayGo
  <2>1. ToSet(<<>>) = {}
    BY DEF ToSet
  <2>2. CASE rows' = rows \cup ToSet(loop.batch) /\ failures' = failures
    <3>1. Stored' = Stored \cup Taken
      BY <2>2 DEF Stored, Taken, Ids
    <3> QED
      BY <1>1, <1>4, <2>1, <3>1 DEF Pending, Taken, Ids
  <2>3. CASE failures' = failures + 1 /\ rows' = rows
    <3>1. Fails
      BY <1>3, <2>3 DEF Fails
    <3>2. Taken \subseteq MayGo
      BY <3>1 DEF MayGo
    <3> QED
      BY <1>1, <1>4, <2>1, <2>3, <3>2 DEF Pending, Taken, Stored, Ids
  <2> QED
    BY <1>1, <2>2, <2>3
<1>7. EventInv'
  <2>1. (made + 1) .. made' = {} /\ made' \in Nat /\ made =< made'
    BY <1>1, <1>3
  <2>2. Distinct(buf') /\ Distinct(loop'.batch)
    BY <1>1, <1>2, <1>4 DEF EventInv, Distinct
  <2>3. Stored \cap Pending = {} /\ Pending \cap Taken = {}
    BY <1>2 DEF EventInv, Shared
  <2>4. /\ (Stored \cup Pending \cup Taken)' \subseteq Stored \cup Pending \cup Taken \cup (made + 1 .. made')
        /\ Stored' \cap Pending' = {} /\ Stored' \cap Taken' = {} /\ Pending' \cap Taken' = {}
        /\ Stored \cup Pending \cup Taken \cup (made + 1 .. made')
             \subseteq (Stored \cup Pending \cup Taken)' \cup MayGo
    BY <1>6, <2>1, <2>3
  <2> QED
    BY <1>5, <1>6, <2>1, <2>2, <2>4, EventsKeep
<1>8. missed' = missed /\ letIn' = letIn
  <2>1. missed' = [o \in Owners |-> missed[o] + 0]
    BY <1>1 DEF Notes, Crashes
  <2>2. missed' = missed
    BY <1>3, <2>1
  <2>3. \A r \in Requests : ~(req[r].pc = "idle" /\ req'[r].pc = "open")
    BY <1>1
  <2> QED
    BY <2>2, <2>3, NobodyLetIn
<1>9. CountInv'
  BY <1>1, <1>4, <1>8 DEF UsageInv, CountInv
<1>10. TypeInv'
  <2>1. rows' \subseteq Event /\ Past(rows', day')
    <3>1. ToSet(loop.batch) \subseteq Event
      BY <1>4 DEF ToSet
    <3> QED
      BY <1>1, <1>3, <3>1 DEF Past
  <2>2. Past(ToSet(loop'.batch), day')
    BY <1>4 DEF Past, ToSet
  <2>3. failures' \in Nat
    BY <1>1, <1>3
  <2>4. loop'.deltas = NoDeltas
    BY <1>1, <1>2, <1>4 DEF TypeInv
  <2> QED
    BY <1>1, <1>2, <1>4, <1>8, <2>1, <2>2, <2>3, <2>4 DEF TypeInv
<1> QED
  BY <1>7, <1>9, <1>10 DEF UsageInv

\* Expired rows go.
LEMMA PruneGood ==
  ASSUME UsageInv, NEW due \in BOOLEAN, PruneUsageEvents(due), Notes PROVE UsageInv'
<1>1. /\ loop.pc = "prune" /\ loop' = Waiting
      /\ rows' = IF due THEN {e \in rows : e.ts >= day - Retention} ELSE rows
      /\ UNCHANGED <<day, buf, ring, ringIdx, deltas, req, counts, made, budget, failures, crashes>>
  BY DEF PruneUsageEvents, numbers, bounds
<1>2. TypeInv /\ EventInv
  BY DEF UsageInv
<1>3. /\ loop \in Round /\ made \in Nat /\ rows \subseteq Event /\ Past(rows, day) /\ day \in Nat
  BY <1>2, Zenon DEF TypeInv
<1>4. loop.batch = <<>> /\ loop.deltas = NoDeltas
  BY <1>1, <1>2 DEF TypeInv
<1>5. /\ loop' \in Round /\ loop'.pc = "wait" /\ loop'.batch = loop.batch /\ loop'.deltas = loop.deltas
  <2>1. NoDeltas \in [Owners -> Nat]
    BY DEF NoDeltas
  <2>2. loop' = [pc |-> "wait", deltas |-> NoDeltas, batch |-> <<>>]
    BY <1>1 DEF Waiting
  <2>3. <<>> \in Seq(Event)
    OBVIOUS
  <2> QED
    BY <1>4, <2>1, <2>2, <2>3 DEF Round
<1>6. CountInv' /\ letIn' = letIn /\ missed' = missed
  <2>1. \A r \in Requests : ~(req[r].pc = "idle" /\ req'[r].pc = "open")
    BY <1>1
  <2> QED
    BY <1>1, <1>5, <2>1, CountsStay
<1>7. Pending' = Pending /\ Taken' = Taken /\ Stored' \subseteq Stored /\ Stored \subseteq Stored' \cup MayGo
  <2>1. Pending' = Pending /\ Taken' = Taken /\ Stored' \subseteq Stored
    BY <1>1, <1>5 DEF Pending, Taken, Stored, Ids
  <2>2. \A e \in rows : e.ts < day - Retention \/ e.ts >= day - Retention
    <3>1. \A e \in rows : e.ts \in Nat
      BY <1>3 DEF Event
    <3>2. Retention \in Nat
      BY UsageAssumption
    <3> QED
      BY <1>3, <3>1, <3>2
  <2>3. rows \subseteq rows' \cup {e \in rows : e.ts < day - Retention}
    BY <1>1, <2>2
  <2>4. Ids({e \in rows : e.ts < day - Retention}) \subseteq MayGo
    BY <1>1 DEF MayGo, Ids
  <2> QED
    BY <2>1, <2>3, <2>4 DEF Stored, Ids
<1>8. EventInv'
  <2>1. (made + 1) .. made' = {} /\ made' \in Nat /\ made =< made'
    BY <1>1, <1>3
  <2>2. Distinct(buf') /\ Distinct(loop'.batch)
    BY <1>1, <1>2, <1>5 DEF EventInv
  <2>3. Stored \cap Pending = {} /\ Pending \cap Taken = {} /\ Stored \cap Taken = {}
    BY <1>2 DEF EventInv, Shared
  <2>4. /\ (Stored \cup Pending \cup Taken)' \subseteq Stored \cup Pending \cup Taken \cup (made + 1 .. made')
        /\ Stored' \cap Pending' = {} /\ Stored' \cap Taken' = {} /\ Pending' \cap Taken' = {}
        /\ Stored \cup Pending \cup Taken \cup (made + 1 .. made')
             \subseteq (Stored \cup Pending \cup Taken)' \cup MayGo
    BY <1>7, <2>1, <2>3
  <2>5. ~Drains
    BY <1>1 DEF Drains
  <2> QED
    BY <1>7, <2>1, <2>2, <2>4, <2>5, EventsKeep
<1>9. TypeInv'
  <2>1. rows' \subseteq Event /\ Past(rows', day')
    BY <1>1, <1>3 DEF Past
  <2>2. Past(ToSet(loop'.batch), day')
    BY <1>1, <1>2, <1>5 DEF TypeInv
  <2> QED
    BY <1>1, <1>2, <1>4, <1>5, <1>6, <2>1, <2>2 DEF TypeInv
<1> QED
  BY <1>6, <1>8, <1>9 DEF UsageInv

\* Memory is lost, and noted.
LEMMA CrashGood ==
  ASSUME UsageInv, Crash, Notes PROVE UsageInv'
<1>1. /\ crashes' = crashes + 1 /\ buf' = <<>> /\ deltas' = NoDeltas /\ loop' = Waiting
      /\ ring' = [i \in 0 .. RingSize - 1 |-> NoEvent] /\ ringIdx' = 0
      /\ req' = [r \in Requests |-> IdleRequest]
      /\ UNCHANGED <<day, rows, counts, made, budget, failures>>
  BY DEF Crash, tables, numbers
<1>2. TypeInv /\ EventInv
  BY DEF UsageInv
<1>3. /\ loop \in Round /\ made \in Nat /\ crashes \in Nat
      /\ {deltas, counts, letIn, missed} \subseteq [Owners -> Nat]
  BY <1>2, Zenon DEF TypeInv
<1>4. /\ loop' \in Round /\ loop'.pc = "wait" /\ loop'.batch = <<>> /\ loop'.deltas = NoDeltas
      /\ NoDeltas \in [Owners -> Nat] /\ \A o \in Owners : NoDeltas[o] = 0
      /\ loop.deltas \in [Owners -> Nat]
  <2>1. NoDeltas \in [Owners -> Nat] /\ \A o \in Owners : NoDeltas[o] = 0
    BY DEF NoDeltas
  <2>2. loop' = [pc |-> "wait", deltas |-> NoDeltas, batch |-> <<>>]
    BY <1>1 DEF Waiting
  <2>3. <<>> \in Seq(Event) /\ loop.deltas \in [Owners -> Nat]
    BY <1>3 DEF Round
  <2> QED
    BY <2>1, <2>2, <2>3 DEF Round
<1>5. Crashes /\ ~Drains
  BY <1>1, <1>3, <1>4 DEF Crashes, Drains
<1>6. /\ req' \in [Requests -> Progress] /\ \A q \in Requests : Sound(req'[q]) /\ req'[q].pc = "idle"
  BY <1>1 DEF IdleRequest, Progress, Sound
<1>7. letIn' = letIn
  <2>1. \A r \in Requests : ~(req[r].pc = "idle" /\ req'[r].pc = "open")
    BY <1>6
  <2> QED
    BY <2>1, NobodyLetIn
<1>8. missed' \in [Owners -> Nat] /\ CountInv'
  <2>1. missed' = [o \in Owners |-> missed[o] + (deltas[o] + loop.deltas[o])]
    BY <1>5 DEF Notes
  <2>2. missed' \in [Owners -> Nat]
    BY <1>3, <1>4, <2>1
  <2>3. ASSUME NEW o \in Owners
        PROVE  letIn'[o] = counts'[o] + loop'.deltas[o] + deltas'[o] + missed'[o]
    <3>1. letIn[o] = counts[o] + loop.deltas[o] + deltas[o] + missed[o]
      BY DEF UsageInv, CountInv
    <3>2. missed'[o] = missed[o] + (deltas[o] + loop.deltas[o])
      BY <2>1
    <3>3. loop'.deltas[o] = 0 /\ deltas'[o] = 0 /\ counts'[o] = counts[o]
      BY <1>1, <1>4
    <3>4. counts[o] \in Nat /\ deltas[o] \in Nat /\ missed[o] \in Nat /\ loop.deltas[o] \in Nat
      BY <1>3, <1>4
    <3> QED
      BY <1>7, <3>1, <3>2, <3>3, <3>4
  <2> QED
    BY <2>2, <2>3 DEF CountInv
<1>9. Stored' = Stored /\ Pending' = {} /\ Taken' = {} /\ Pending \cup Taken \subseteq MayGo
  <2>1. ToSet(<<>>) = {}
    BY DEF ToSet
  <2>2. Pending \cup Taken \subseteq MayGo
    BY <1>5 DEF MayGo
  <2> QED
    BY <1>1, <1>4, <2>1, <2>2 DEF Stored, Pending, Taken, Ids
<1>10. EventInv'
  <2>1. (made + 1) .. made' = {} /\ made' \in Nat /\ made =< made'
    BY <1>1, <1>3
  <2>2. Distinct(buf') /\ Distinct(loop'.batch)
    BY <1>1, <1>4 DEF Distinct
  <2>3. /\ (Stored \cup Pending \cup Taken)' \subseteq Stored \cup Pending \cup Taken \cup (made + 1 .. made')
        /\ Stored' \cap Pending' = {} /\ Stored' \cap Taken' = {} /\ Pending' \cap Taken' = {}
        /\ Stored \cup Pending \cup Taken \cup (made + 1 .. made')
             \subseteq (Stored \cup Pending \cup Taken)' \cup MayGo
    BY <1>9, <2>1
  <2> QED
    BY <1>5, <1>9, <2>1, <2>2, <2>3, EventsKeep
<1>11. TypeInv'
  <2>1. buf' \in Seq(Event) /\ Len(buf') =< BufferMax /\ Past(ToSet(buf'), day')
    BY <1>1, UsageAssumption DEF Past, ToSet
  <2>2. Past(ToSet(loop'.batch), day')
    BY <1>4 DEF Past, ToSet
  <2>3. ring' \in [0 .. RingSize - 1 -> Event \cup {NoEvent}] /\ ringIdx' \in 0 .. RingSize - 1
    BY <1>1, UsageAssumption
  <2>4. {deltas', counts', letIn', missed'} \subseteq [Owners -> Nat] /\ crashes' \in Nat
    BY <1>1, <1>3, <1>4, <1>7, <1>8
  <2> QED
    BY <1>1, <1>2, <1>4, <1>6, <2>1, <2>2, <2>3, <2>4 DEF TypeInv
<1> QED
  BY <1>8, <1>10, <1>11 DEF UsageInv

\* A report reads, and only uses up a bound.
LEMMA ReportGood ==
  ASSUME UsageInv, UNCHANGED <<day, memory, tables, made, bounds>>, budget' \in Budget, Notes
  PROVE  UsageInv'
<1>1. UNCHANGED <<day, buf, ring, ringIdx, deltas, loop, req, rows, counts, made, failures, crashes>>
  BY DEF memory, tables, bounds
<1>2. TypeInv /\ CountInv
  BY DEF UsageInv
<1>3. CountInv' /\ letIn' = letIn /\ missed' = missed
  <2>1. \A r \in Requests : ~(req[r].pc = "idle" /\ req'[r].pc = "open")
    BY <1>1
  <2> QED
    BY <1>1, <2>1, CountsStay
<1>4. EventInv'
  <2>1. ~Drains
    BY <1>1 DEF Drains
  <2> QED
    BY <1>1, <2>1, EventsStay
<1>5. TypeInv'
  BY <1>1, <1>2, <1>3 DEF TypeInv
<1> QED
  BY <1>3, <1>4, <1>5 DEF UsageInv

\* Every step keeps the invariant.
LEMMA StepGood == UsageInv /\ [AuditNext]_auditVars => UsageInv'
<1> SUFFICES ASSUME UsageInv, [AuditNext]_auditVars PROVE UsageInv'
  OBVIOUS
<1>0. budget \in Budget
  BY Zenon DEF UsageInv, TypeInv
<1>1. CASE AuditNext
  <2>0. Notes /\ Next
    BY <1>1 DEF AuditNext
  <2>1. CASE LogNext
    <3>1. CASE NextDay
      BY <2>0, <3>1, NextDayGood
    <3>2. ASSUME NEW r \in Requests, NEW o \in Owners, LetIn(r, o) PROVE UsageInv'
      BY <2>0, <3>2, LetInGood
    <3>3. ASSUME NEW r \in Requests, NEW outcome, Record(r, outcome) PROVE UsageInv'
      BY <2>0, <3>3, RecordGood
    <3>4. ASSUME NEW r \in Requests, AddActivity(r) PROVE UsageInv'
      BY <2>0, <3>4, AddActivityGood
    <3>5. CASE TakeDeltas
      BY <2>0, <3>5, TakeDeltasGood
    <3>6. CASE Drain
      BY <2>0, <3>6, DrainGood
    <3>7. CASE InsertUsageEvents
      BY <2>0, <3>7, InsertGood
    <3>8. ASSUME NEW o \in Owners, Bump(o) PROVE UsageInv'
      BY <2>0, <3>8, BumpGood
    <3>9. ASSUME NEW due \in BOOLEAN, PruneUsageEvents(due) PROVE UsageInv'
      BY <2>0, <3>9, PruneGood
    <3> QED
      BY <2>1, <3>1, <3>2, <3>3, <3>4, <3>5, <3>6, <3>7, <3>8, <3>9, Zenon DEF LogNext
  <2>2. CASE Crash
    BY <2>0, <2>2, CrashGood
  <2>3. ASSUME NEW kind, NEW range, NEW owner, Ask(kind, range, owner) PROVE UsageInv'
    <3>1. /\ UNCHANGED <<day, memory, tables, made, bounds>>
          /\ budget.reports > 0 /\ budget' = [budget EXCEPT !.reports = @ - 1]
      BY <2>3, Zenon DEF Ask
    <3>2. budget' \in Budget
      BY <1>0, <3>1 DEF Budget
    <3> QED
      BY <2>0, <3>1, <3>2, ReportGood
  <2>4. ASSUME UNCHANGED logVars PROVE UsageInv'
    <3>1. UNCHANGED <<day, memory, tables, made, bounds>> /\ budget' = budget
      BY <2>4 DEF logVars, numbers
    <3> QED
      BY <1>0, <2>0, <3>1, ReportGood
  <2>5. Totals \/ P95 \/ Points \/ Rank \/ Values \/ Page \/ Answered => UNCHANGED logVars
    BY Zenon DEF Totals, P95, Points, Rank, Values, Page, Answered, Shows
  <2> QED
    BY <2>0, <2>1, <2>2, <2>3, <2>4, <2>5, Zenon DEF Next
<1>2. CASE UNCHANGED auditVars
  <2>1. /\ UNCHANGED <<day, buf, ring, ringIdx, deltas, loop, req, rows, counts, made, budget, failures, crashes>>
        /\ UNCHANGED <<letIn, missed, lost, passed>>
    BY <1>2 DEF auditVars, vars, logVars, memory, tables, numbers, bounds
  <2>2. TypeInv /\ EventInv /\ CountInv
    BY DEF UsageInv
  <2>3. TypeInv'
    BY <2>1, <2>2 DEF TypeInv
  <2>4. EventInv'
    BY <2>1, <2>2 DEF EventInv, Stored, Pending, Taken
  <2>5. CountInv'
    BY <2>1, <2>2 DEF CountInv
  <2> QED
    BY <2>3, <2>4, <2>5 DEF UsageInv
<1> QED
  BY <1>1, <1>2

\* The invariant always holds.
LEMMA AlwaysGood == AuditSpec => []UsageInv
  BY InitGood, StepGood, PTL DEF AuditSpec

-----------------------------------------------------------------------------
(***************************************************************************)
(* The ring of recent activity.                                            *)
(***************************************************************************)
\* What the ring holds, from its newest slot back: the last events filed.
RingInv ==
  /\ filed \in Seq(Event)
  /\ \A i \in 1 .. RingSize :
       Newest(i) = IF i =< Len(filed) THEN filed[Len(filed) + 1 - i] ELSE NoEvent

\* The slot i steps behind another one.
LEMMA SlotBehind ==
  ASSUME NEW n \in Nat \ {0}, NEW k \in 0 .. n - 1, NEW i \in 1 .. n
  PROVE  (k - i) % n = IF i =< k THEN k - i ELSE k - i + n
  OBVIOUS

\* The slot after another one.
LEMMA SlotAfter ==
  ASSUME NEW n \in Nat \ {0}, NEW k \in 0 .. n - 1
  PROVE  (k + 1) % n = IF k + 1 = n THEN 0 ELSE k + 1
  OBVIOUS

\* At most one element makes a sequence of at most one entry.
LEMMA SetToSeqSmall == SetToSeq({}) = <<>> /\ \A e : SetToSeq({e}) = <<e>>
<1>1. SetToSeq({}) = <<>>
  <2>1. Cardinality({}) = 0 /\ 1 .. 0 = {}
    BY FS_EmptySet
  <2>2. \A f \in [1 .. 0 -> {}] : f = <<>>
    BY <2>1
  <2>3. <<>> \in [1 .. 0 -> {}] /\ IsInjective(<<>>)
    BY DEF IsInjective
  <2> QED
    BY <2>1, <2>2, <2>3 DEF SetToSeq
<1>2. ASSUME NEW e PROVE SetToSeq({e}) = <<e>>
  <2>1. Cardinality({e}) = 1
    BY FS_Singleton
  <2>2. \A f \in [1 .. 1 -> {e}] : f = <<e>>
    OBVIOUS
  <2>3. <<e>> \in [1 .. 1 -> {e}] /\ IsInjective(<<e>>)
    BY DEF IsInjective
  <2> QED
    BY <2>1, <2>2, <2>3 DEF SetToSeq
<1> QED
  BY <1>1, <1>2

\* Nothing filed: the ring and the record of it stay.
LEMMA RingStays ==
  ASSUME RingInv, Notes, UNCHANGED <<ring, ringIdx, crashes>>,
         \A r \in Requests : ~(req[r].pc = "filing" /\ req'[r] # req[r])
  PROVE  RingInv'
<1>1. {req[r].event : r \in {q \in Requests : req[q].pc = "filing" /\ req'[q] # req[q]}} = {}
  OBVIOUS
<1>2. filed' = filed \o <<>>
  BY <1>1, SetToSeqSmall DEF Notes, Crashes
<1>3. filed' = filed
  BY <1>2 DEF RingInv
<1> QED
  BY <1>3 DEF RingInv, Newest

\* An event filed: every other slot is one step further back.
LEMMA RingTurns ==
  ASSUME UsageInv, RingInv, NEW r \in Requests, AddActivity(r), Notes PROVE RingInv'
<1> DEFINE e == req[r].event
           n == Len(filed)
<1>1. /\ req[r].pc = "filing"
      /\ ring' = [ring EXCEPT ![ringIdx] = e] /\ ringIdx' = (ringIdx + 1) % RingSize
      /\ \/ req' = [req EXCEPT ![r] = IdleRequest]
         \/ req' = [req EXCEPT ![r].pc = "open", ![r].event = NoEvent]
      /\ crashes' = crashes
  BY DEF AddActivity, bounds
<1>2. /\ req \in [Requests -> Progress] /\ e \in Event
      /\ ring \in [0 .. RingSize - 1 -> Event \cup {NoEvent}] /\ ringIdx \in 0 .. RingSize - 1
  <2>1. /\ req \in [Requests -> Progress] /\ Sound(req[r])
        /\ ring \in [0 .. RingSize - 1 -> Event \cup {NoEvent}] /\ ringIdx \in 0 .. RingSize - 1
    BY Zenon DEF UsageInv, TypeInv
  <2> QED
    BY <1>1, <2>1 DEF Sound
<1>3. RingSize \in Nat \ {0} /\ filed \in Seq(Event) /\ n \in Nat
  BY UsageAssumption DEF RingInv
<1>4. filed' = Append(filed, e)
  <2>1. req'[r] # req[r] /\ \A q \in Requests \ {r} : req'[q] = req[q]
    BY <1>1, <1>2 DEF IdleRequest, Progress
  <2>2. {q \in Requests : req[q].pc = "filing" /\ req'[q] # req[q]} = {r}
    BY <1>1, <2>1
  <2>3. {req[q].event : q \in {x \in Requests : req[x].pc = "filing" /\ req'[x] # req[x]}} = {e}
    BY <2>2
  <2> HIDE DEF e
  <2>4. SetToSeq({req[q].event : q \in {x \in Requests : req[x].pc = "filing" /\ req'[x] # req[x]}}) = <<e>>
    BY <2>3, SetToSeqSmall
  <2>5. filed' = filed \o <<e>>
    BY <1>1, <2>4 DEF Notes, Crashes
  <2> QED
    BY <1>2, <1>3, <2>5
<1> HIDE DEF e
<1>5. /\ filed' \in Seq(Event) /\ Len(filed') = n + 1 /\ filed'[n + 1] = e
      /\ \A i \in 1 .. n : filed'[i] = filed[i]
  BY <1>2, <1>3, <1>4
<1> HIDE DEF n
<1>6. ASSUME NEW i \in 1 .. RingSize
      PROVE  ring'[(ringIdx' - i) % RingSize] =
               IF i =< n + 1 THEN filed'[n + 2 - i] ELSE NoEvent
  <2>1. ringIdx' = IF ringIdx + 1 = RingSize THEN 0 ELSE ringIdx + 1
    BY <1>1, <1>2, <1>3, SlotAfter
  <2>2. ringIdx' \in 0 .. RingSize - 1
    BY <1>2, <1>3, <2>1
  <2>3. (ringIdx' - i) % RingSize = IF i =< ringIdx' THEN ringIdx' - i ELSE ringIdx' - i + RingSize
    BY <1>3, <2>2, SlotBehind
  <2>4. CASE i = 1
    <3>1. (ringIdx' - i) % RingSize = ringIdx
      BY <1>2, <1>3, <2>1, <2>3, <2>4
    <3>2. i =< n + 1 /\ n + 2 - i = n + 1
      BY <1>3, <2>4 DEF n
    <3> QED
      BY <1>1, <1>2, <1>5, <3>1, <3>2
  <2>5. CASE i # 1
    <3> DEFINE j == i - 1
    <3>1. j \in 1 .. RingSize /\ j < RingSize /\ i = j + 1
      BY <1>3, <2>5
    <3>2. (ringIdx - j) % RingSize = IF j =< ringIdx THEN ringIdx - j ELSE ringIdx - j + RingSize
      BY <1>2, <1>3, <3>1, SlotBehind
    <3> HIDE DEF j
    <3>3. (ringIdx' - i) % RingSize = (ringIdx - j) % RingSize
      BY <1>2, <1>3, <2>1, <2>3, <3>1, <3>2
    <3>4. (ringIdx - j) % RingSize # ringIdx /\ (ringIdx - j) % RingSize \in 0 .. RingSize - 1
      BY <1>2, <1>3, <3>1, <3>2
    <3>5. ring'[(ringIdx - j) % RingSize] = ring[(ringIdx - j) % RingSize]
      BY <1>1, <1>2, <3>4
    <3>6. ring[(ringIdx - j) % RingSize] = IF j =< n THEN filed[n + 1 - j] ELSE NoEvent
      BY <3>1 DEF RingInv, Newest, n
    <3>7. j =< n => n + 1 - j \in 1 .. n /\ n + 2 - i = n + 1 - j /\ i =< n + 1
      BY <1>3, <3>1 DEF n
    <3>8. j =< n <=> i =< n + 1
      BY <1>3, <3>1 DEF n
    <3> QED
      BY <1>5, <3>3, <3>5, <3>6, <3>7, <3>8
  <2> QED
    BY <2>4, <2>5
<1>7. ASSUME NEW i \in 1 .. RingSize
      PROVE  Newest(i)' = IF i =< Len(filed') THEN filed'[Len(filed') + 1 - i] ELSE NoEvent
  <2>1. Len(filed') + 1 - i = n + 2 - i
    BY <1>3, <1>5 DEF n
  <2> QED
    BY <1>5, <1>6, <2>1 DEF Newest
<1> QED
  BY <1>5, <1>7 DEF RingInv

\* A fresh ring is empty.
LEMMA RingFresh ==
  ASSUME ring' = [i \in 0 .. RingSize - 1 |-> NoEvent], ringIdx' = 0, filed' = <<>>
  PROVE  RingInv'
<1>1. RingSize \in Nat \ {0}
  BY UsageAssumption
<1>2. ASSUME NEW i \in 1 .. RingSize PROVE ring'[(ringIdx' - i) % RingSize] = NoEvent
  <2>1. (0 - i) % RingSize \in 0 .. RingSize - 1
    BY <1>1
  <2> QED
    BY <2>1
<1>3. ASSUME NEW i \in 1 .. RingSize
      PROVE  Newest(i)' = IF i =< Len(filed') THEN filed'[Len(filed') + 1 - i] ELSE NoEvent
  <2>1. Len(filed') = 0 /\ ~(i =< 0)
    BY <1>1
  <2>2. Newest(i)' = NoEvent
    BY <1>2 DEF Newest
  <2> QED
    BY <2>1, <2>2
<1>4. filed' \in Seq(Event)
  OBVIOUS
<1> QED
  BY <1>3, <1>4 DEF RingInv

\* Every step keeps the ring in order.
LEMMA RingStep == UsageInv /\ RingInv /\ [AuditNext]_auditVars => RingInv'
<1> SUFFICES ASSUME UsageInv, RingInv, [AuditNext]_auditVars PROVE RingInv'
  OBVIOUS
<1>0. req \in [Requests -> Progress] /\ crashes \in Nat
  BY Zenon DEF UsageInv, TypeInv
<1>1. CASE AuditNext
  <2>0. Notes /\ Next
    BY <1>1 DEF AuditNext
  <2>1. CASE LogNext
    <3>1. CASE NextDay \/ TakeDeltas \/ Drain \/ InsertUsageEvents \/ (\E o \in Owners : Bump(o))
               \/ \E due \in BOOLEAN : PruneUsageEvents(due)
      <4>1. UNCHANGED <<ring, ringIdx, crashes, req>>
        BY <3>1 DEF NextDay, TakeDeltas, Drain, InsertUsageEvents, Bump, PruneUsageEvents, memory, bounds
      <4> QED
        BY <2>0, <4>1, RingStays
    <3>2. ASSUME NEW r \in Requests, NEW o \in Owners, LetIn(r, o) PROVE RingInv'
      <4>1. /\ UNCHANGED <<ring, ringIdx, crashes>> /\ req[r].pc = "idle"
            /\ \A q \in Requests \ {r} : req'[q] = req[q]
        BY <1>0, <3>2 DEF LetIn, bounds
      <4> QED
        BY <2>0, <4>1, RingStays
    <3>3. ASSUME NEW r \in Requests, NEW outcome, Record(r, outcome) PROVE RingInv'
      <4>1. /\ UNCHANGED <<ring, ringIdx, crashes>> /\ req[r].pc = "open"
            /\ \A q \in Requests \ {r} : req'[q] = req[q]
        BY <1>0, <3>3 DEF Record, bounds
      <4> QED
        BY <2>0, <4>1, RingStays
    <3>4. ASSUME NEW r \in Requests, AddActivity(r) PROVE RingInv'
      BY <2>0, <3>4, RingTurns
    <3> QED
      BY <2>1, <3>1, <3>2, <3>3, <3>4, Zenon DEF LogNext
  <2>2. CASE Crash
    <3>1. /\ ring' = [i \in 0 .. RingSize - 1 |-> NoEvent] /\ ringIdx' = 0 /\ crashes' # crashes
      BY <1>0, <2>2 DEF Crash
    <3>2. filed' = <<>>
      BY <2>0, <3>1 DEF Notes, Crashes
    <3> QED
      BY <3>1, <3>2, RingFresh
  <2>3. ASSUME UNCHANGED <<memory, bounds>> PROVE RingInv'
    <3>1. UNCHANGED <<ring, ringIdx, crashes, req>>
      BY <2>3 DEF memory, bounds
    <3> QED
      BY <2>0, <3>1, RingStays
  <2>4. ASSUME NEW kind, NEW range, NEW owner, Ask(kind, range, owner) PROVE UNCHANGED <<memory, bounds>>
    BY <2>4, Zenon DEF Ask
  <2>5. Totals \/ P95 \/ Points \/ Rank \/ Values \/ Page \/ Answered => UNCHANGED logVars
    BY Zenon DEF Totals, P95, Points, Rank, Values, Page, Answered, Shows
  <2>6. UNCHANGED logVars => UNCHANGED <<memory, bounds>>
    BY DEF logVars
  <2> QED
    BY <2>0, <2>1, <2>2, <2>3, <2>4, <2>5, <2>6, Zenon DEF Next
<1>2. CASE UNCHANGED auditVars
  BY <1>2 DEF auditVars, vars, logVars, memory, RingInv, Newest
<1> QED
  BY <1>1, <1>2

\* The ring is always in order.
LEMMA RingAlways == AuditSpec => [](UsageInv /\ RingInv)
<1>1. AuditInit => RingInv
  <2> SUFFICES ASSUME AuditInit PROVE RingInv
    OBVIOUS
  <2>1. /\ ring = [i \in 0 .. RingSize - 1 |-> NoEvent] /\ ringIdx = 0 /\ filed = <<>>
        /\ RingSize \in Nat \ {0}
    BY UsageAssumption DEF AuditInit, Init, LogInit, Fresh
  <2>2. ASSUME NEW i \in 1 .. RingSize PROVE ring[(ringIdx - i) % RingSize] = NoEvent
    <3>1. (0 - i) % RingSize \in 0 .. RingSize - 1
      BY <2>1
    <3> QED
      BY <2>1, <3>1
  <2> QED
    BY <2>1, <2>2 DEF RingInv, Newest
<1> QED
  BY <1>1, InitGood, StepGood, RingStep, PTL DEF AuditSpec

\* Read from its newest slot back to the first empty one, the ring is the end
\* of what was filed, backwards.
LEMMA RingReads ==
  ASSUME RingInv
  PROVE  [i \in {j \in 1 .. RingSize : \A k \in 1 .. j : Newest(k) # NoEvent} |-> Newest(i)]
           = Reverse(LastFew(filed, RingSize))
<1> DEFINE n == Len(filed)
           m == IF n < RingSize THEN n ELSE RingSize
           s == LastFew(filed, RingSize)
<1>1. RingSize \in Nat \ {0} /\ n \in Nat /\ m \in Nat /\ filed \in Seq(Event) /\ m =< RingSize /\ m =< n
  BY UsageAssumption DEF RingInv
<1>2. s \in Seq(Event) /\ Len(s) = m /\ \A i \in 1 .. m : s[i] = filed[n - m + i]
  <2>1. s = SubSeq(filed, n - m + 1, n)
    <3>1. (IF n < RingSize THEN 1 ELSE n - RingSize + 1) = n - m + 1
      BY <1>1
    <3> QED
      BY <3>1, Zenon DEF LastFew
  <2> HIDE DEF m, n, s
  <2>2. \A i \in n - m + 1 .. n : filed[i] \in Event
    BY <1>1 DEF n
  <2>3. Len(s) = m /\ \A i \in 1 .. m : s[i] = filed[n - m + i]
    BY <1>1, <2>1
  <2>4. s \in Seq(Event)
    BY <1>1, <2>1 DEF n
  <2> QED
    BY <2>3, <2>4
<1> HIDE DEF s
<1>3. \A k \in 1 .. RingSize : Newest(k) # NoEvent <=> k =< n
  <2>1. NoEvent \notin Event
    BY DEF NoEvent, Event
  <2>2. ASSUME NEW k \in 1 .. RingSize, k =< n PROVE filed[n + 1 - k] \in Event
    <3>1. n + 1 - k \in 1 .. n
      BY <1>1, <2>2
    <3> QED
      BY <1>1, <3>1
  <2> QED
    BY <2>1, <2>2 DEF RingInv
<1>4. {j \in 1 .. RingSize : \A k \in 1 .. j : Newest(k) # NoEvent} = 1 .. m
  <2> SUFFICES ASSUME NEW j \in 1 .. RingSize
               PROVE  (\A k \in 1 .. j : Newest(k) # NoEvent) <=> j =< n
    BY <1>1
  <2>1. (\A k \in 1 .. j : Newest(k) # NoEvent) => j =< n
    BY <1>1, <1>3
  <2>2. j =< n => \A k \in 1 .. j : k \in 1 .. RingSize /\ k =< n
    BY <1>1
  <2> QED
    BY <1>3, <2>1, <2>2
<1>5. \A i \in 1 .. m : Newest(i) = s[m - i + 1]
  <2> SUFFICES ASSUME NEW i \in 1 .. m PROVE Newest(i) = s[m - i + 1]
    OBVIOUS
  <2>1. i \in 1 .. RingSize /\ i =< n /\ m - i + 1 \in 1 .. m /\ n - m + (m - i + 1) = n + 1 - i
    <3> HIDE DEF m, n
    <3> QED
      BY <1>1
  <2>2. Newest(i) = filed[n + 1 - i]
    BY <2>1 DEF RingInv
  <2>3. s[m - i + 1] = filed[n - m + (m - i + 1)]
    BY <1>2, <2>1
  <2> QED
    BY <2>1, <2>2, <2>3
<1>6. Reverse(s) = [i \in 1 .. m |-> s[m - i + 1]]
  <2>1. Reverse(s) = [i \in 1 .. Len(s) |-> s[(Len(s) - i) + 1]]
    BY DEF Reverse
  <2> QED
    BY <1>2, <2>1
<1> QED
  BY <1>4, <1>5, <1>6 DEF s

-----------------------------------------------------------------------------
(***************************************************************************)
(* Sorted rows, by how many come before one.                               *)
(***************************************************************************)
\* before[e] are the members of s before e, in a strict total order.
Orders(before, s) ==
  /\ \A e \in s : before[e] \subseteq s /\ e \notin before[e]
  /\ \A d, e \in s : d \in before[e] => before[d] \subseteq before[e]
  /\ \A d, e \in s : d # e => d \in before[e] \/ e \in before[d]

\* A part of a finite set is no larger, and smaller if it leaves something out.
LEMMA PartOf ==
  ASSUME NEW s, IsFiniteSet(s), NEW t, t \subseteq s
  PROVE  /\ IsFiniteSet(t) /\ Cardinality(t) \in Nat /\ Cardinality(s) \in Nat
         /\ Cardinality(t) =< Cardinality(s)
         /\ \A x \in s : x \notin t => Cardinality(t) < Cardinality(s)
<1>1. IsFiniteSet(t) /\ Cardinality(t) =< Cardinality(s)
  BY FS_Subset
<1>2. Cardinality(t) \in Nat /\ Cardinality(s) \in Nat
  BY <1>1, FS_CardinalityType
<1>3. ASSUME NEW x \in s, x \notin t PROVE Cardinality(t) < Cardinality(s)
  <2>1. Cardinality(t \cup {x}) = Cardinality(t) + 1
    BY <1>1, <1>3, FS_AddElement
  <2>2. Cardinality(t \cup {x}) =< Cardinality(s)
    <3>1. t \cup {x} \subseteq s
      BY <1>3
    <3> QED
      BY <3>1, FS_Subset
  <2> QED
    BY <1>2, <2>1, <2>2
<1> QED
  BY <1>1, <1>2, <1>3

\* Every offset below the number of rows has its row, and only one.
LEMMA OffsetsAreRows ==
  ASSUME NEW s, IsFiniteSet(s), NEW before, Orders(before, s)
  PROVE  /\ \A e \in s : Cardinality(before[e]) \in 0 .. Cardinality(s) - 1
         /\ \A d, e \in s : Cardinality(before[d]) = Cardinality(before[e]) => d = e
         /\ \A n \in 0 .. Cardinality(s) - 1 : \E e \in s : Cardinality(before[e]) = n
<1> DEFINE rank == [e \in s |-> Cardinality(before[e])]
<1>1. /\ \A e \in s : before[e] \subseteq s /\ e \notin before[e]
      /\ \A d, e \in s : d \in before[e] => before[d] \subseteq before[e]
      /\ \A d, e \in s : d # e => d \in before[e] \/ e \in before[d]
  BY DEF Orders
<1>2. PICK n \in Nat : n = Cardinality(s)
  BY FS_CardinalityType
<1>3. \A e \in s : IsFiniteSet(before[e]) /\ rank[e] \in 0 .. n - 1
  <2> SUFFICES ASSUME NEW e \in s PROVE IsFiniteSet(before[e]) /\ rank[e] \in 0 .. n - 1
    OBVIOUS
  <2>1. /\ IsFiniteSet(before[e]) /\ Cardinality(before[e]) \in Nat
        /\ Cardinality(before[e]) < Cardinality(s)
    BY <1>1, PartOf
  <2> QED
    BY <1>2, <2>1
<1>4. ASSUME NEW d \in s, NEW e \in s, d \in before[e] PROVE rank[d] < rank[e]
  <2>1. before[d] \subseteq before[e] /\ d \notin before[d] /\ IsFiniteSet(before[e])
    BY <1>1, <1>3, <1>4
  <2> QED
    BY <1>4, <2>1, PartOf
<1>5. \A d, e \in s : rank[d] = rank[e] => d = e
  <2> SUFFICES ASSUME NEW d \in s, NEW e \in s, rank[d] = rank[e], d # e PROVE FALSE
    OBVIOUS
  <2>1. rank[d] \in Nat /\ rank[e] \in Nat
    BY <1>3
  <2>2. rank[d] < rank[e] \/ rank[e] < rank[d]
    BY <1>1, <1>4
  <2> QED
    BY <2>1, <2>2
<1>6. rank \in [s -> 0 .. n - 1]
  <2>1. \A e \in s : rank[e] \in 0 .. n - 1
    BY <1>3
  <2> QED
    BY <2>1
<1> HIDE DEF rank
<1>7. rank \in Injection(s, 0 .. n - 1)
  BY <1>5, <1>6 DEF Injection, IsInjective
<1>8. IsFiniteSet(0 .. n - 1) /\ Cardinality(0 .. n - 1) = n
  <2>1. IsFiniteSet(0 .. n - 1) /\ Cardinality(0 .. n - 1) = IF 0 > n - 1 THEN 0 ELSE (n - 1) - 0 + 1
    BY FS_Interval
  <2> QED
    BY <2>1
<1>9. rank \in Surjection(s, 0 .. n - 1)
  BY <1>2, <1>7, <1>8, FS_Injection
<1>10. \A k \in 0 .. n - 1 : \E e \in s : rank[e] = k
  BY <1>9 DEF Surjection
<1>11. \A e \in s : rank[e] = Cardinality(before[e])
  BY DEF rank
<1> QED
  BY <1>2, <1>3, <1>5, <1>10, <1>11

\* Rows have numbers of their own.
Apart(es) == \A d, e \in es : d.id = e.id => d = e

\* The log is in a strict total order.
LEMMA NewerOrders ==
  ASSUME NEW es, es \subseteq Event, Apart(es)
  PROVE  Orders([e \in es |-> Newer(es, e)], es)
<1>1. \A e \in es : e.ts \in Nat /\ e.id \in Nat
  BY DEF Event
<1>2. \A e \in es : Newer(es, e) \subseteq es /\ e \notin Newer(es, e)
  BY <1>1 DEF Newer
<1>3. \A d, e \in es : d \in Newer(es, e) => Newer(es, d) \subseteq Newer(es, e)
  BY <1>1 DEF Newer
<1>4. \A d, e \in es : d # e => d \in Newer(es, e) \/ e \in Newer(es, d)
  BY <1>1 DEF Newer, Apart
<1> QED
  BY <1>2, <1>3, <1>4 DEF Orders

\* So are the durations, with the numbers for ties.
LEMMA ShorterOrders ==
  ASSUME NEW es, es \subseteq Event, Apart(es)
  PROVE  Orders([e \in es |-> Shorter(es, e)], es)
<1>1. \A e \in es : e.dur \in Nat /\ e.id \in Nat
  BY DEF Event
<1>2. \A e \in es : Shorter(es, e) \subseteq es /\ e \notin Shorter(es, e)
  BY <1>1 DEF Shorter
<1>3. \A d, e \in es : d \in Shorter(es, e) => Shorter(es, d) \subseteq Shorter(es, e)
  BY <1>1 DEF Shorter
<1>4. \A d, e \in es : d # e => d \in Shorter(es, e) \/ e \in Shorter(es, d)
  BY <1>1 DEF Shorter, Apart
<1> QED
  BY <1>2, <1>3, <1>4 DEF Orders

\* Division by what it bounds.
LEMMA DivIs ==
  ASSUME NEW a \in Nat, NEW n \in Nat \ {0}
  PROVE  /\ a \div n \in Nat /\ (a \div n) * n =< a /\ a < (a \div n) * n + n
  OBVIOUS

\* A larger factor makes a larger product.
LEMMA TimesMore ==
  ASSUME NEW a \in Int, NEW b \in Int, a =< b, NEW n \in Nat
  PROVE  a * n =< b * n /\ a * n \in Int /\ b * n \in Int
  OBVIOUS

\* The page a rank is on.
LEMMA OnPage ==
  ASSUME NEW a \in Nat, NEW k \in Nat, NEW n \in Nat \ {0}
  PROVE  a \div n = k <=> k * n =< a /\ a < k * n + n
<1>1. PICK q \in Nat : q = a \div n /\ q * n =< a /\ a < q * n + n
  BY DivIs
<1>2. ASSUME k * n =< a, a < k * n + n PROVE q = k
  <2>1. CASE q < k
    <3>1. (q + 1) * n =< k * n
      BY <2>1, TimesMore
    <3>2. (q + 1) * n = q * n + n
      OBVIOUS
    <3>3. k * n \in Nat /\ q * n \in Nat
      OBVIOUS
    <3> QED
      BY <1>1, <1>2, <3>1, <3>2, <3>3
  <2>2. CASE k < q
    <3>1. (k + 1) * n =< q * n
      BY <2>2, TimesMore
    <3>2. (k + 1) * n = k * n + n
      OBVIOUS
    <3>3. k * n \in Nat /\ q * n \in Nat
      OBVIOUS
    <3> QED
      BY <1>1, <1>2, <3>1, <3>2, <3>3
  <2> QED
    BY <2>1, <2>2
<1> QED
  BY <1>1, <1>2

\* A page that is not full is the last one.
LEMMA ShortPageIsLast ==
  ASSUME NEW es, es \subseteq Event, IsFiniteSet(es), Apart(es), NEW k \in Nat,
         NEW page, page = {e \in es : Cardinality(Newer(es, e)) \div PageSize = k},
         Cardinality(page) < PageSize
  PROVE  \A e \in es : Cardinality(Newer(es, e)) < k * PageSize + PageSize
<1> SUFFICES ASSUME NEW x \in es, ~(Cardinality(Newer(es, x)) < k * PageSize + PageSize)
             PROVE  FALSE
  OBVIOUS
<1>1. PICK n \in Nat : n = PageSize /\ n # 0
  BY ReportAssumption
<1>2. PICK low \in Nat : low = k * n
  OBVIOUS
<1>3. PICK newer : newer = [e \in es |-> Newer(es, e)]
  OBVIOUS
<1>4. /\ \A e \in es : Cardinality(newer[e]) \in 0 .. Cardinality(es) - 1
      /\ \A i \in 0 .. Cardinality(es) - 1 : \E e \in es : Cardinality(newer[e]) = i
  BY <1>3, NewerOrders, OffsetsAreRows
<1>5. Cardinality(es) \in Nat /\ low + n < Cardinality(es) + 0
  <2>1. Cardinality(es) \in Nat
    BY FS_CardinalityType
  <2>2. Cardinality(newer[x]) \in 0 .. Cardinality(es) - 1 /\ ~(Cardinality(newer[x]) < low + n)
    BY <1>1, <1>2, <1>3, <1>4
  <2> QED
    BY <2>1, <2>2
<1> DEFINE row == [i \in 0 .. n - 1 |-> CHOOSE e \in es : Cardinality(newer[e]) = low + i]
<1>6. ASSUME NEW i \in 0 .. n - 1
      PROVE  row[i] \in page /\ Cardinality(newer[row[i]]) = low + i
  <2>1. low + i \in 0 .. Cardinality(es) - 1
    BY <1>5
  <2>2. row[i] \in es /\ Cardinality(newer[row[i]]) = low + i
    BY <1>4, <2>1
  <2>3. (low + i) \div n = k
    <3>1. low + i \in Nat /\ k * n =< low + i /\ low + i < k * n + n
      BY <1>2
    <3> QED
      BY <1>1, <3>1, OnPage
  <2> HIDE DEF row
  <2> QED
    BY <1>1, <1>3, <2>2, <2>3
<1>7. row \in Injection(0 .. n - 1, page)
  <2>1. row \in [0 .. n - 1 -> page]
    BY <1>6
  <2>2. ASSUME NEW i \in 0 .. n - 1, NEW j \in 0 .. n - 1, row[i] = row[j] PROVE i = j
    <3>1. low + i = low + j
      BY <1>6, <2>2
    <3> QED
      BY <3>1
  <2> HIDE DEF row
  <2> QED
    BY <2>1, <2>2 DEF Injection, IsInjective
<1>8. IsFiniteSet(page)
  <2>1. page \subseteq es
    OBVIOUS
  <2> QED
    BY <2>1, FS_Subset
<1>9. IsFiniteSet(0 .. n - 1) /\ Cardinality(0 .. n - 1) = n
  <2>1. IsFiniteSet(0 .. n - 1) /\ Cardinality(0 .. n - 1) = IF 0 > n - 1 THEN 0 ELSE (n - 1) - 0 + 1
    BY FS_Interval
  <2> QED
    BY <1>1, <2>1
<1>10. n =< Cardinality(page) /\ Cardinality(page) \in Nat
  BY <1>7, <1>8, <1>9, FS_Injection, FS_CardinalityType
<1> QED
  BY <1>1, <1>10

-----------------------------------------------------------------------------
(***************************************************************************)
(* The reports in progress.                                                *)
(***************************************************************************)
Walk == [pc : {"log", "shown"}, kind : {"log"}, range : Ranges, owner : Owners \cup {Nobody},
         seen : SUBSET Event, pages : Nat]

JustAsked(q) ==
  /\ q \in [pc : {"overview", "series"}, kind : {"overview", "series"}, range : Ranges,
            owner : Owners \cup {Nobody}]
  /\ q.kind = q.pc

Overview(q) ==
  /\ q = [pc |-> q.pc, kind |-> "overview", range |-> q.range, owner |-> q.owner,
          requests |-> q.requests, errors |-> q.errors, p95 |-> q.p95, points |-> q.points]
  /\ q.pc \in {"p95", "points", "shown", "failed"} /\ q.range \in Ranges

Series(q) ==
  /\ q = [pc |-> q.pc, kind |-> "series", range |-> q.range, owner |-> q.owner,
          groups |-> q.groups, other |-> q.other, points |-> q.points]
  /\ q.pc \in {"values", "shown"} /\ q.range \in Ranges

\* A report is a walk or of another kind, and its progress fits the kind.
Other(q) == JustAsked(q) \/ Overview(q) \/ Series(q)
ReportShape == rep = NoReport \/ rep \in Walk \/ Other(rep)

\* The rows of table t that match q.
Within(t, q) ==
  {e \in t : q.range[1] =< e.ts /\ e.ts =< q.range[2] /\ (q.owner = Nobody \/ e.owner = q.owner)}

\* What was there when the walk q began and ranks above its next page has been
\* shown; at the end all of it has.
WalkGood(q, t, first) ==
  /\ first \subseteq t
  /\ \A e \in Within(t, q) \cap first :
       q.pc = "shown" \/ Cardinality(Newer(Within(t, q), e)) < q.pages * PageSize
         => e \in q.seen

\* A table: finitely many rows with numbers of their own.
Table(t) == t \subseteq Event /\ IsFiniteSet(t) /\ Apart(t)

\* So it is while nothing is pruned under the walk.
WalkInv == rep \in Walk /\ ~pruned => WalkGood(rep, rows, asked)

-----------------------------------------------------------------------------
\* Only the loop's batch comes into the table.
LEMMA RowsCome ==
  ASSUME [AuditNext]_auditVars
  PROVE  rows' \subseteq rows \cup ToSet(loop.batch)
<1>1. CASE UNCHANGED auditVars
  BY <1>1 DEF auditVars, vars, logVars, tables
<1>2. CASE AuditNext
  <2>1. Next
    BY <1>2 DEF AuditNext
  <2>2. CASE LogNext
    <3>1. CASE InsertUsageEvents
      BY <3>1 DEF InsertUsageEvents
    <3>2. ASSUME NEW due \in BOOLEAN, PruneUsageEvents(due) PROVE rows' \subseteq rows
      BY <3>2 DEF PruneUsageEvents
    <3>3. ASSUME ~InsertUsageEvents, \A due \in BOOLEAN : ~PruneUsageEvents(due) PROVE rows' = rows
      BY <2>2, <3>3, Zenon DEF LogNext, NextDay, LetIn, Record, AddActivity, TakeDeltas, Drain, Bump, tables
    <3> QED
      BY <3>1, <3>2, <3>3
  <2>3. CASE ~LogNext
    <3>1. rows' = rows
      BY <2>1, <2>3, Zenon DEF Next, Crash, Ask, Totals, P95, Points, Rank, Values, Page, Answered, Shows,
         logVars, tables
    <3> QED
      BY <3>1
  <2> QED
    BY <2>2, <2>3
<1> QED
  BY <1>1, <1>2

\* What is in a sequence is finite.
LEMMA SeqIsFew ==
  ASSUME NEW s \in Seq(Event)
  PROVE  IsFiniteSet(ToSet(s)) /\ ToSet(s) \subseteq Event
<1>1. Len(s) \in Nat /\ DOMAIN s = 1 .. Len(s) /\ \A i \in 1 .. Len(s) : s[i] \in Event
  OBVIOUS
<1>2. s \in Surjection(1 .. Len(s), ToSet(s))
  <2>1. ToSet(s) = {s[i] : i \in 1 .. Len(s)}
    BY <1>1 DEF ToSet
  <2>2. s \in [1 .. Len(s) -> ToSet(s)] /\ \A x \in ToSet(s) : \E i \in 1 .. Len(s) : s[i] = x
    BY <1>1, <2>1
  <2> QED
    BY <2>2 DEF Surjection
<1>3. IsFiniteSet(1 .. Len(s))
  BY <1>1, FS_Interval
<1> QED
  BY <1>1, <1>2, <1>3, FS_Surjection DEF ToSet

\* usage_events stays a table.
LEMMA TableStays ==
  ASSUME UsageInv, [AuditNext]_auditVars, Table(rows)
  PROVE  Table(rows')
<1>1. rows' \subseteq rows \cup ToSet(loop.batch)
  BY RowsCome
<1>2. Distinct(loop.batch) /\ Stored \cap Taken = {} /\ loop.batch \in Seq(Event)
  BY DEF UsageInv, EventInv, Shared, TypeInv, Round
<1>3. \A d, e \in ToSet(loop.batch) : d.id = e.id => d = e
  BY <1>2 DEF ToSet, Distinct
<1>4. \A d \in rows, e \in ToSet(loop.batch) : d.id # e.id
  BY <1>2 DEF Stored, Taken, Ids
<1>5. IsFiniteSet(rows \cup ToSet(loop.batch)) /\ rows \cup ToSet(loop.batch) \subseteq Event
  BY <1>2, SeqIsFew, FS_Union DEF Table
<1>6. Apart(rows')
  BY <1>1, <1>3, <1>4 DEF Apart, Table
<1> QED
  BY <1>1, <1>5, <1>6, FS_Subset DEF Table

\* It is one at the start, when its rows are numbered without gaps.
LEMMA TableAtFirst ==
  ASSUME AuditInit
  PROVE  Table(rows)
<1>1. PICK s \in Starts : rows = s.rows
  BY DEF AuditInit, Init
<1>2. rows \subseteq Event /\ IsFiniteSet(rows) /\ {e.id : e \in rows} = 1 .. Cardinality(rows)
  BY <1>1, UsageAssumption
<1>3. PICK n \in Nat : n = Cardinality(rows)
  BY <1>2, FS_CardinalityType
<1> DEFINE id == [e \in rows |-> e.id]
<1>4. id \in Surjection(rows, 1 .. n)
  <2>1. id \in [rows -> 1 .. n] /\ \A i \in 1 .. n : \E e \in rows : id[e] = i
    BY <1>2, <1>3
  <2> HIDE DEF id
  <2> QED
    BY <2>1 DEF Surjection
<1>5. IsFiniteSet(1 .. n) /\ Cardinality(1 .. n) = n
  BY <1>3, FS_Interval
<1>6. \A e \in rows : id[e] = e.id
  OBVIOUS
<1> HIDE DEF id
<1>7. id \in Injection(rows, 1 .. n)
  BY <1>2, <1>3, <1>4, <1>5, FS_SurjSameCardinalityImpliesInj
<1> QED
  BY <1>2, <1>6, <1>7 DEF Injection, IsInjective, Apart, Table

\* What matches is a table too.
LEMMA WithinIs ==
  ASSUME NEW t, Table(t), NEW q
  PROVE  Table(Within(t, q)) /\ Within(t, q) \subseteq t
<1>1. Within(t, q) \subseteq t
  BY DEF Within
<1> QED
  BY <1>1, FS_Subset DEF Apart, Table

-----------------------------------------------------------------------------
(***************************************************************************)
(* The walk through the log.                                               *)
(***************************************************************************)
\* A rank is a natural number.
LEMMA Ranks ==
  ASSUME NEW t, Table(t), NEW q, NEW e \in Within(t, q)
  PROVE  Cardinality(Newer(Within(t, q), e)) \in Nat
<1>1. Newer(Within(t, q), e) \subseteq Within(t, q)
  BY DEF Newer
<1> QED
  BY <1>1, WithinIs, PartOf DEF Table

\* A walk begins with nothing shown.
LEMMA WalkBegins ==
  ASSUME NEW t, Table(t), NEW q, q.pc = "log", q.pages = 0
  PROVE  WalkGood(q, t, t)
<1>1. ASSUME NEW e \in Within(t, q) PROVE ~(Cardinality(Newer(Within(t, q), e)) < q.pages * PageSize)
  <2>1. PICK n \in Nat : n = Cardinality(Newer(Within(t, q), e))
    BY Ranks
  <2>2. PageSize \in Nat /\ q.pages * PageSize = 0
    BY ReportAssumption
  <2> QED
    BY <2>1, <2>2
<1> QED
  BY <1>1 DEF WalkGood

\* New rows push the old ones down: none moves above the next page.
LEMMA WalkGrows ==
  ASSUME NEW t, NEW u, Table(u), t \subseteq u, NEW first, NEW q \in Walk, WalkGood(q, t, first)
  PROVE  WalkGood(q, u, first)
<1>1. Within(t, q) \subseteq Within(u, q) /\ \A e \in Within(u, q) : e \in t => e \in Within(t, q)
  BY DEF Within
<1>2. Table(Within(u, q))
  BY WithinIs
<1>3. ASSUME NEW e \in Within(u, q) \cap first,
             Cardinality(Newer(Within(u, q), e)) < q.pages * PageSize
      PROVE  Cardinality(Newer(Within(t, q), e)) < q.pages * PageSize
  <2>1. /\ Newer(Within(t, q), e) \subseteq Newer(Within(u, q), e)
        /\ Newer(Within(u, q), e) \subseteq Within(u, q)
    BY <1>1 DEF Newer
  <2>2. IsFiniteSet(Newer(Within(u, q), e))
    BY <1>2, <2>1, PartOf DEF Table
  <2>3. PICK n \in Nat, m \in Nat :
          n = Cardinality(Newer(Within(t, q), e)) /\ m = Cardinality(Newer(Within(u, q), e))
    BY <2>1, <2>2, PartOf
  <2>4. n =< m
    BY <2>1, <2>2, <2>3, PartOf
  <2>5. PICK k \in Nat : k = q.pages * PageSize
    BY ReportAssumption DEF Walk
  <2> QED
    BY <1>3, <2>3, <2>4, <2>5
<1> QED
  BY <1>1, <1>3 DEF WalkGood

\* The rows of the next page, and a walk that has shown them.
NextPage(q, t) == {e \in Within(t, q) : Cardinality(Newer(Within(t, q), e)) \div PageSize = q.pages}
Turned(q, r, page) ==
  r = [q EXCEPT !.seen = @ \cup page, !.pages = @ + 1,
                !.pc = IF Cardinality(page) < PageSize THEN "shown" ELSE "log"]

\* A page shows what ranks above the next one; the last page, all the rest.
LEMMA WalkTurns ==
  ASSUME NEW t, Table(t), NEW first, NEW q \in Walk, q.pc = "log",
         NEW page, page = NextPage(q, t), NEW r, Turned(q, r, page)
  PROVE  r \in Walk /\ (WalkGood(q, t, first) => WalkGood(r, t, first))
<1> USE DEF Turned
<1>1. PICK es : /\ es = Within(t, q)
                /\ page = {e \in es : Cardinality(Newer(es, e)) \div PageSize = q.pages}
  BY DEF NextPage
<1>2. Table(es) /\ page \subseteq Event
  BY <1>1, WithinIs DEF Table
<1>3. PICK k \in Nat, n \in Nat : k = q.pages /\ n = PageSize /\ n # 0
  BY ReportAssumption DEF Walk
<1>4. /\ r.range = q.range /\ r.owner = q.owner /\ r.seen = q.seen \cup page
      /\ r.pages = k + 1 /\ r.pc = (IF Cardinality(page) < PageSize THEN "shown" ELSE "log")
  BY <1>3 DEF Walk
<1>5. r \in Walk
  <2>1. PICK seen, pages, pc : seen = q.seen \cup page /\ pages = k + 1 /\ pc = r.pc
    OBVIOUS
  <2>2. seen \in SUBSET Event /\ pages \in Nat /\ pc \in {"log", "shown"}
    BY <1>2, <1>4, <2>1 DEF Walk
  <2>3. r = [q EXCEPT !.seen = seen, !.pages = pages, !.pc = pc]
    BY <1>3, <1>4, <2>1
  <2> QED
    BY <2>2, <2>3 DEF Walk
<1>6. Within(t, r) = es
  BY <1>1, <1>4 DEF Within
<1>7. ASSUME NEW e \in es, Cardinality(Newer(es, e)) < k * n + n
      PROVE  Cardinality(Newer(es, e)) < k * n \/ e \in page
  <2>1. PICK a \in Nat : a = Cardinality(Newer(es, e))
    BY <1>1, Ranks
  <2>2. PICK low \in Nat : low = k * n
    OBVIOUS
  <2>3. CASE low =< a
    <3>1. a \div n = k
      BY <1>3, <1>7, <2>1, <2>2, <2>3, OnPage
    <3> QED
      BY <1>1, <1>3, <2>1, <3>1
  <2>4. CASE ~(low =< a)
    BY <2>1, <2>2, <2>4
  <2> QED
    BY <2>3, <2>4
<1>8. ASSUME r.pc = "shown", NEW e \in es PROVE Cardinality(Newer(es, e)) < k * n + n
  <2>1. Cardinality(page) < PageSize
    BY <1>4, <1>8
  <2> QED
    BY <1>1, <1>2, <1>3, <2>1, ShortPageIsLast DEF Table
<1>9. (k + 1) * n = k * n + n
  OBVIOUS
<1>10. ASSUME WalkGood(q, t, first) PROVE \A e \in es \cap first :
         r.pc = "shown" \/ Cardinality(Newer(es, e)) < r.pages * PageSize => e \in r.seen
  <2> SUFFICES ASSUME NEW e \in es \cap first,
                      r.pc = "shown" \/ Cardinality(Newer(es, e)) < r.pages * PageSize
               PROVE  e \in r.seen
    OBVIOUS
  <2>1. Cardinality(Newer(es, e)) < k * n + n
    BY <1>3, <1>4, <1>8, <1>9
  <2>2. Cardinality(Newer(es, e)) < k * n \/ e \in page
    BY <1>7, <2>1
  <2>3. Cardinality(Newer(es, e)) < k * n => e \in q.seen
    BY <1>1, <1>3, <1>10 DEF WalkGood
  <2> QED
    BY <1>4, <2>2, <2>3
<1>11. WalkGood(q, t, first) => first \subseteq t
  BY DEF WalkGood
<1> QED
  BY <1>5, <1>6, <1>10, <1>11 DEF WalkGood

-----------------------------------------------------------------------------
(***************************************************************************)
(* The steps of the reports.                                               *)
(***************************************************************************)
\* A report is asked for: it walks from the start, or has nothing yet.
Starting == (rep' \in Walk /\ rep'.pc = "log" /\ rep'.pages = 0) \/ JustAsked(rep')

Reports == Totals \/ P95 \/ Points \/ Rank \/ Values \/ Page

\* The kinds of step.
LEMMA StepsOfReports ==
  ASSUME UsageInv, [AuditNext]_auditVars
  PROVE  \/ rep' = NoReport
         \/ rows' = rows /\ asked' = rows /\ written' = FALSE /\ pruned' = FALSE /\ Starting
         \/ /\ asked' = asked
            /\ ~pruned' => ~pruned /\ rows \subseteq rows'
            /\ ~written' => ~written /\ rows' = rows
            /\ rep' = rep \/ (rows' = rows /\ Reports)
<1> SUFFICES ASSUME rep' # NoReport PROVE
         \/ rows' = rows /\ asked' = rows /\ written' = FALSE /\ pruned' = FALSE /\ Starting
         \/ /\ asked' = asked
            /\ ~pruned' => ~pruned /\ rows \subseteq rows'
            /\ ~written' => ~written /\ rows' = rows
            /\ rep' = rep \/ (rows' = rows /\ Reports)
  OBVIOUS
<1>1. CASE UNCHANGED auditVars
  BY <1>1, Zenon DEF auditVars, vars, logVars, tables
<1>2. CASE AuditNext
  <2>1. Next /\ Notes /\ budget \in Budget
    BY <1>2, Zenon DEF AuditNext, UsageInv, TypeInv
  <2>2. /\ Asks => asked' = rows /\ written' = FALSE /\ pruned' = FALSE
        /\ ~Asks => /\ asked' = asked
                    /\ ~pruned' => ~pruned /\ rows \subseteq rows'
                    /\ ~written' => ~written /\ rows' = rows
    <3>1. /\ asked' = IF Asks THEN rows ELSE IF rep' = NoReport THEN {} ELSE asked
          /\ written' = (rep' # NoReport /\ ~Asks /\ (written \/ rows' # rows))
          /\ pruned' = (rep' # NoReport /\ ~Asks /\ (pruned \/ ~(rows \subseteq rows')))
      BY <2>1, Zenon DEF Notes
    <3> QED
      BY <3>1, Zenon
  <2>3. ASSUME NEW kind \in {"overview", "series", "log"}, NEW range \in Ranges,
               NEW owner \in Owners \cup {Nobody}, Ask(kind, range, owner)
        PROVE  Asks /\ rows' = rows /\ Starting
    <3>1. budget'.reports = budget.reports - 1 /\ budget.reports \in Nat
      BY <2>1, <2>3 DEF Ask, Budget
    <3>2. Asks
      BY <3>1 DEF Asks
    <3>3. rows' = rows
      BY <2>3, Zenon DEF Ask, tables
    <3>4. CASE kind = "log"
      <4>1. rep' = [pc |-> kind, kind |-> kind, range |-> range, owner |-> owner, seen |-> {}, pages |-> 0]
        BY <2>3, <3>4 DEF Ask
      <4>2. rep' \in Walk
        BY <3>4, <4>1 DEF Walk
      <4> QED
        BY <3>2, <3>3, <3>4, <4>1, <4>2 DEF Starting
    <3>5. CASE kind # "log"
      <4>1. rep' = [pc |-> kind, kind |-> kind, range |-> range, owner |-> owner]
        BY <2>3, <3>5 DEF Ask
      <4>2. JustAsked(rep')
        BY <3>5, <4>1 DEF JustAsked
      <4> QED
        BY <3>2, <3>3, <4>2 DEF Starting
    <3> QED
      BY <3>4, <3>5
  <2>4. CASE LogNext /\ UNCHANGED rep
    <3>1. budget'.reports = budget.reports
      <4>1. CASE NextDay
        BY <2>1, <4>1 DEF NextDay, Budget
      <4>2. ASSUME NEW r \in Requests, NEW outcome, Record(r, outcome) PROVE budget'.reports = budget.reports
        BY <2>1, <4>2 DEF Record, Budget
      <4>3. ASSUME ~NextDay, \A r \in Requests : \A outcome : ~Record(r, outcome)
            PROVE  budget' = budget
        BY <2>4, <4>3, Zenon DEF LogNext, LetIn, AddActivity, TakeDeltas, Drain, Bump, InsertUsageEvents,
           PruneUsageEvents, numbers
      <4> QED
        BY <4>1, <4>2, <4>3
    <3> QED
      BY <2>2, <2>4, <3>1 DEF Asks
  <2>5. CASE Reports
    <3>1. budget' = budget /\ rows' = rows
      BY <2>5, Zenon DEF Reports, Totals, P95, Points, Rank, Values, Page, Shows, logVars, tables, numbers
    <3> QED
      BY <2>2, <2>5, <3>1, Zenon DEF Asks
  <2>6. CASE Answered \/ (Crash /\ rep' = NoReport)
    BY <2>6 DEF Answered, Shows
  <2>7. \/ LogNext /\ UNCHANGED rep
        \/ Crash /\ rep' = NoReport
        \/ \E kind \in {"overview", "series", "log"}, range \in Ranges, owner \in Owners \cup {Nobody} :
             Ask(kind, range, owner)
        \/ Reports \/ Answered
    BY <2>1, Zenon DEF Next, Reports
  <2> QED
    BY <2>2, <2>3, <2>4, <2>5, <2>6, <2>7
<1> QED
  BY <1>1, <1>2

\* Another report is not a walk.
LEMMA OthersDoNotWalk ==
  ASSUME NEW q, Other(q)
  PROVE  q \notin Walk /\ q # NoReport /\ q.pc # "log" /\ q.kind # "log" /\ q.range \in Ranges
<1>1. CASE JustAsked(q)
  BY <1>1 DEF JustAsked, Walk, NoReport
<1>2. CASE Overview(q)
  <2>1. q.kind = "overview" /\ q.pc # "log" /\ q.range \in Ranges
    BY <1>2 DEF Overview
  <2>2. "p95" \in DOMAIN q
    BY <1>2 DEF Overview
  <2> QED
    BY <2>1, <2>2 DEF Walk, NoReport
<1>3. CASE Series(q)
  <2>1. q.kind = "series" /\ q.pc # "log" /\ q.range \in Ranges
    BY <1>3 DEF Series
  <2>2. "groups" \in DOMAIN q
    BY <1>3 DEF Series
  <2> QED
    BY <2>1, <2>2 DEF Walk, NoReport
<1> QED
  BY <1>1, <1>2, <1>3 DEF Other

\* At its first query a report has only been asked for.
LEMMA FirstQuery ==
  ASSUME ReportShape, rep.pc \in {"overview", "series"}
  PROVE  JustAsked(rep) /\ rep.range \in Ranges
<1>1. rep # NoReport /\ rep \notin Walk
  BY DEF NoReport, Walk
<1>2. ~Overview(rep) /\ ~Series(rep)
  BY DEF Overview, Series
<1> QED
  BY <1>1, <1>2 DEF ReportShape, Other, JustAsked

\* At its last ones it is an overview or a series.
LEMMA LastQueries ==
  ASSUME ReportShape
  PROVE  /\ rep.pc \in {"p95", "points"} => Overview(rep)
         /\ rep.pc = "values" => Series(rep)
         /\ rep.pc = "log" => rep \in Walk
<1>1. rep.pc \in {"p95", "points", "values", "log"} => rep # NoReport /\ ~JustAsked(rep)
  BY DEF NoReport, JustAsked
<1>2. rep.pc \in {"p95", "points", "values"} => rep \notin Walk
  BY DEF Walk
<1>3. Overview(rep) => rep.pc # "values" /\ rep.pc # "log"
  BY DEF Overview
<1>4. Series(rep) => rep.pc # "p95" /\ rep.pc # "points" /\ rep.pc # "log"
  BY DEF Series
<1> QED
  BY <1>1, <1>2, <1>3, <1>4 DEF ReportShape, Other

\* An overview's fields, some set anew.
SetAnew(q, r, pc, p95, points) ==
  \/ r = [q EXCEPT !.pc = pc, !.p95 = p95] /\ points = q.points
  \/ r = [q EXCEPT !.pc = pc, !.points = points] /\ p95 = q.p95
  \/ r = [q EXCEPT !.pc = pc] /\ p95 = q.p95 /\ points = q.points

\* It stays an overview, and keeps the others.
LEMMA OverviewChanges ==
  ASSUME NEW q, Overview(q), NEW pc \in {"p95", "points", "shown", "failed"}, NEW p95, NEW points,
         NEW r, SetAnew(q, r, pc, p95, points)
  PROVE  /\ Overview(r) /\ r.pc = pc /\ r.p95 = p95 /\ r.points = points
         /\ r.range = q.range /\ r.owner = q.owner /\ r.requests = q.requests /\ r.errors = q.errors
<1>1. PICK range, owner, requests, errors, pc1, p1, points1 :
        /\ range \in Ranges /\ range = q.range /\ owner = q.owner /\ requests = q.requests /\ errors = q.errors
        /\ pc1 = q.pc /\ p1 = q.p95 /\ points1 = q.points
  BY DEF Overview
<1>2. q = [pc |-> pc1, kind |-> "overview", range |-> range, owner |-> owner, requests |-> requests,
           errors |-> errors, p95 |-> p1, points |-> points1]
  BY <1>1, Zenon DEF Overview
<1>3. r = [pc |-> pc, kind |-> "overview", range |-> range, owner |-> owner, requests |-> requests,
           errors |-> errors, p95 |-> p95, points |-> points]
  <2>1. CASE r = [q EXCEPT !.pc = pc, !.p95 = p95] /\ points = q.points
    <3>1. /\ r = [[pc |-> pc1, kind |-> "overview", range |-> range, owner |-> owner, requests |-> requests,
                   errors |-> errors, p95 |-> p1, points |-> points1] EXCEPT !.pc = pc, !.p95 = p95]
          /\ points = points1
      BY <1>1, <1>2, <2>1, Zenon
    <3> QED
      BY <3>1
  <2>2. CASE r = [q EXCEPT !.pc = pc, !.points = points] /\ p95 = q.p95
    <3>1. /\ r = [[pc |-> pc1, kind |-> "overview", range |-> range, owner |-> owner, requests |-> requests,
                   errors |-> errors, p95 |-> p1, points |-> points1] EXCEPT !.pc = pc, !.points = points]
          /\ p95 = p1
      BY <1>1, <1>2, <2>2, Zenon
    <3> QED
      BY <3>1
  <2>3. CASE r = [q EXCEPT !.pc = pc] /\ p95 = q.p95 /\ points = q.points
    BY <1>1, <1>2, <2>3
  <2> QED
    BY <2>1, <2>2, <2>3, Zenon DEF SetAnew
<1>4. /\ r.pc = pc /\ r.p95 = p95 /\ r.points = points
      /\ r.range = range /\ r.owner = owner /\ r.requests = requests /\ r.errors = errors
  BY <1>3
<1>5. r = [pc |-> r.pc, kind |-> "overview", range |-> r.range, owner |-> r.owner, requests |-> r.requests,
           errors |-> r.errors, p95 |-> r.p95, points |-> r.points]
  BY <1>3, <1>4, Zenon
<1> QED
  BY <1>1, <1>4, <1>5 DEF Overview

\* The totals begin an overview.
LEMMA TotalsMoves ==
  ASSUME ReportShape, Totals
  PROVE  /\ Overview(rep') /\ rep'.range = rep.range /\ rep'.owner = rep.owner
         /\ rep'.pc = IF Errors(Matching(rep)) = Matching(rep) THEN "points" ELSE "p95"
         /\ rep'.requests = Cardinality(Matching(rep))
         /\ rep'.errors = Cardinality(Errors(Matching(rep)))
<1>1. rep.range \in Ranges
  BY FirstQuery DEF Totals
<1>2. PICK range, owner, pc, requests, errors :
        /\ range = rep.range /\ owner = rep.owner
        /\ pc = IF Errors(Matching(rep)) = Matching(rep) THEN "points" ELSE "p95"
        /\ requests = Cardinality(Matching(rep)) /\ errors = Cardinality(Errors(Matching(rep)))
  OBVIOUS
<1>3. rep' = [pc |-> pc, kind |-> "overview", range |-> range, owner |-> owner, requests |-> requests,
              errors |-> errors, p95 |-> 0, points |-> <<>>]
  BY <1>2, Zenon DEF Totals, Shows
<1>4. pc \in {"p95", "points"}
  BY <1>2
<1>5. Overview(rep')
  BY <1>1, <1>2, <1>3, <1>4 DEF Overview
<1> QED
  BY <1>2, <1>3, <1>5

\* The percentile is that of a row at the offset, or there is none.
LEMMA P95Moves ==
  ASSUME ReportShape, P95, NEW oks, oks = Matching(rep) \ Errors(Matching(rep))
  PROVE  /\ Overview(rep') /\ rep'.range = rep.range /\ rep'.owner = rep.owner
         /\ rep'.requests = rep.requests /\ rep'.errors = rep.errors
         /\ \/ /\ rep'.pc = "points"
               /\ \E e \in oks : /\ Cardinality(Shorter(oks, e)) = P95Offset(rep.requests - rep.errors)
                                 /\ rep'.p95 = e.dur
            \/ /\ rep'.pc = "failed"
               /\ \A e \in oks : Cardinality(Shorter(oks, e)) # P95Offset(rep.requests - rep.errors)
<1> DEFINE at == {e \in oks : Cardinality(Shorter(oks, e)) = P95Offset(rep.requests - rep.errors)}
<1>1. Overview(rep)
  BY LastQueries DEF P95
<1>2. \/ \E e \in at : rep' = [rep EXCEPT !.pc = "points", !.p95 = e.dur]
      \/ at = {} /\ rep' = [rep EXCEPT !.pc = "failed"]
  BY Zenon DEF P95, Shows
<1>3. CASE \E e \in at : rep' = [rep EXCEPT !.pc = "points", !.p95 = e.dur]
  <2>1. PICK e \in at : rep' = [rep EXCEPT !.pc = "points", !.p95 = e.dur]
    BY <1>3
  <2> HIDE DEF at
  <2>2. PICK p95, points : p95 = e.dur /\ points = rep.points
    OBVIOUS
  <2>3. rep' = [rep EXCEPT !.pc = "points", !.p95 = p95]
    BY <2>1, <2>2, Zenon
  <2>4. /\ Overview(rep') /\ rep'.pc = "points" /\ rep'.p95 = p95 /\ rep'.range = rep.range
        /\ rep'.owner = rep.owner /\ rep'.requests = rep.requests /\ rep'.errors = rep.errors
    <3>1. PICK q, r, pc : pc \in {"p95", "points", "shown", "failed"} /\ q = rep /\ r = rep' /\ pc = "points"
      OBVIOUS
    <3>2. SetAnew(q, r, pc, p95, points) /\ Overview(q)
      BY <1>1, <2>2, <2>3, <3>1, Zenon DEF SetAnew
    <3>3. /\ Overview(r) /\ r.pc = pc /\ r.p95 = p95 /\ r.range = q.range /\ r.owner = q.owner
          /\ r.requests = q.requests /\ r.errors = q.errors
      BY <3>1, <3>2, OverviewChanges
    <3> QED
      BY <3>1, <3>3
  <2> QED
    BY <2>1, <2>2, <2>4 DEF at
<1>4. CASE at = {} /\ rep' = [rep EXCEPT !.pc = "failed"]
  <2>1. PICK p95, points : p95 = rep.p95 /\ points = rep.points
    OBVIOUS
  <2>3. /\ Overview(rep') /\ rep'.pc = "failed" /\ rep'.range = rep.range
        /\ rep'.owner = rep.owner /\ rep'.requests = rep.requests /\ rep'.errors = rep.errors
    <3>1. PICK q, r, pc : pc \in {"p95", "points", "shown", "failed"} /\ q = rep /\ r = rep' /\ pc = "failed"
      OBVIOUS
    <3>2. SetAnew(q, r, pc, p95, points) /\ Overview(q)
      BY <1>1, <1>4, <2>1, <3>1, Zenon DEF SetAnew
    <3>3. /\ Overview(r) /\ r.pc = pc /\ r.range = q.range /\ r.owner = q.owner
          /\ r.requests = q.requests /\ r.errors = q.errors
      BY <3>1, <3>2, OverviewChanges
    <3> QED
      BY <3>1, <3>3
  <2> QED
    BY <1>4, <2>3
<1> QED
  BY <1>2, <1>3, <1>4

\* What the points of an overview count.
Counted(q, t) ==
  [b \in Buckets(q.range) |->
     <<Cardinality({e \in Within(t, q) : BucketOf(e.ts) = b}),
       Cardinality(Errors({e \in Within(t, q) : BucketOf(e.ts) = b}))>>]

\* The points complete it.
LEMMA PointsMoves ==
  ASSUME ReportShape, Points
  PROVE  /\ Overview(rep') /\ rep'.range = rep.range /\ rep'.owner = rep.owner
         /\ rep'.requests = rep.requests /\ rep'.errors = rep.errors /\ rep'.p95 = rep.p95
         /\ rep'.pc = "shown" /\ rep'.points = Counted(rep, rows)
<1>1. Overview(rep)
  BY LastQueries DEF Points
<1>2. Matching(rep) = Within(rows, rep)
  BY DEF Matching, Within
<1>3. PICK p95, points : p95 = rep.p95 /\ points = Counted(rep, rows)
  OBVIOUS
<1>4. rep' = [rep EXCEPT !.pc = "shown", !.points = points]
  BY <1>2, <1>3, Zenon DEF Points, Shows, Counted
<1>5. PICK q, r, pc : pc \in {"p95", "points", "shown", "failed"} /\ q = rep /\ r = rep' /\ pc = "shown"
  OBVIOUS
<1>6. SetAnew(q, r, pc, p95, points) /\ Overview(q)
  BY <1>1, <1>3, <1>4, <1>5, Zenon DEF SetAnew
<1>7. /\ Overview(r) /\ r.pc = pc /\ r.p95 = p95 /\ r.points = points /\ r.range = q.range
      /\ r.owner = q.owner /\ r.requests = q.requests /\ r.errors = q.errors
  BY <1>5, <1>6, OverviewChanges
<1> QED
  BY <1>3, <1>5, <1>7

\* Ranking the groups begins a series.
LEMMA RankMoves ==
  ASSUME ReportShape, Rank
  PROVE  /\ Series(rep') /\ rep'.range = rep.range /\ rep'.owner = rep.owner
         /\ rep'.pc = IF Matching(rep) = {} THEN "shown" ELSE "values"
         /\ rep'.groups = Named(Matching(rep)) /\ rep'.points = <<>>
         /\ rep'.other = (Cardinality(Models(Matching(rep))) > Top)
<1>1. rep.range \in Ranges
  BY FirstQuery DEF Rank
<1>2. PICK range, owner, pc, groups, other :
        /\ range = rep.range /\ owner = rep.owner
        /\ pc = IF Matching(rep) = {} THEN "shown" ELSE "values"
        /\ groups = Named(Matching(rep)) /\ other = (Cardinality(Models(Matching(rep))) > Top)
  OBVIOUS
<1>3. rep' = [pc |-> pc, kind |-> "series", range |-> range, owner |-> owner, groups |-> groups,
              other |-> other, points |-> <<>>]
  BY <1>2, Zenon DEF Rank, Shows
<1>4. pc \in {"values", "shown"}
  BY <1>2
<1>5. Series(rep')
  BY <1>1, <1>2, <1>3, <1>4 DEF Series
<1> QED
  BY <1>2, <1>3, <1>5

\* The group a row is counted in, and what the points of a series count.
Target(q, e) == IF e.model \in q.groups THEN e.model ELSE 0
Charted(q) == q.groups \cup IF q.other THEN {0} ELSE {}
Plotted(q, t) ==
  [b \in Buckets(q.range) |->
     [g \in Charted(q) |-> Cardinality({e \in Within(t, q) : BucketOf(e.ts) = b /\ Target(q, e) = g})]]

\* The values complete it.
LEMMA ValuesMoves ==
  ASSUME ReportShape, Values
  PROVE  /\ Series(rep') /\ rep'.range = rep.range /\ rep'.owner = rep.owner
         /\ rep'.groups = rep.groups /\ rep'.other = rep.other
         /\ rep'.pc = "shown" /\ rep'.points = Plotted(rep, rows)
<1>1. Series(rep)
  BY LastQueries DEF Values
<1>2. Matching(rep) = Within(rows, rep)
  BY DEF Matching, Within
<1>3. PICK range, owner, groups, other, points :
        /\ range = rep.range /\ owner = rep.owner /\ groups = rep.groups /\ other = rep.other
        /\ points = Plotted(rep, rows)
  OBVIOUS
<1>4. rep' = [rep EXCEPT !.pc = "shown", !.points = points]
  BY <1>2, <1>3, Zenon DEF Values, Shows, Plotted, Charted, Target
<1>5. rep' = [pc |-> "shown", kind |-> "series", range |-> range, owner |-> owner, groups |-> groups,
              other |-> other, points |-> points]
  <2>1. PICK pc, old : pc = rep.pc /\ old = rep.points
    OBVIOUS
  <2>2. rep = [pc |-> pc, kind |-> "series", range |-> range, owner |-> owner, groups |-> groups,
               other |-> other, points |-> old]
    BY <1>1, <1>3, <2>1, Zenon DEF Series
  <2> QED
    BY <1>4, <2>2
<1>6. range \in Ranges
  BY <1>1, <1>3 DEF Series
<1>7. Series(rep')
  BY <1>5, <1>6 DEF Series
<1> QED
  BY <1>3, <1>5, <1>7

\* A page keeps the walk.
LEMMA PageMoves ==
  ASSUME ReportShape, Table(rows), Page
  PROVE  /\ rep \in Walk /\ rep' \in Walk
         /\ WalkGood(rep, rows, asked) => WalkGood(rep', rows, asked)
<1>1. rep \in Walk /\ rep.pc = "log"
  BY LastQueries DEF Page
<1>2. PICK page : page = PageOf(rep)
  OBVIOUS
<1>3. page = NextPage(rep, rows) /\ Turned(rep, rep', page)
  BY <1>2, Zenon DEF PageOf, Matching, Within, NextPage, Page, Shows, Turned
<1>4. PICK q, r : q = rep /\ r = rep'
  OBVIOUS
<1>5. q \in Walk /\ q.pc = "log" /\ page = NextPage(q, rows) /\ Turned(q, r, page)
  BY <1>1, <1>3, <1>4, Zenon
<1>6. r \in Walk /\ (WalkGood(q, rows, asked) => WalkGood(r, rows, asked))
  BY <1>5, WalkTurns
<1> QED
  BY <1>1, <1>4, <1>6

\* A step of a report keeps its kind.
LEMMA ReportsKeepShape ==
  ASSUME ReportShape, Table(rows), Reports
  PROVE  /\ rep' \in Walk \/ Other(rep')
         /\ rep' \in Walk => rep \in Walk /\ (WalkGood(rep, rows, asked) => WalkGood(rep', rows, asked))
<1>1. CASE Page
  BY <1>1, PageMoves
<1>2. CASE Totals \/ P95 \/ Points
  <2>1. Overview(rep')
    BY <1>2, TotalsMoves, P95Moves, PointsMoves
  <2> QED
    BY <2>1, OthersDoNotWalk DEF Other
<1>3. CASE Rank \/ Values
  <2>1. Series(rep')
    BY <1>3, RankMoves, ValuesMoves
  <2> QED
    BY <2>1, OthersDoNotWalk DEF Other
<1> QED
  BY <1>1, <1>2, <1>3 DEF Reports

\* Every report keeps its shape, and a walk what it has shown.
LEMMA WalkStays ==
  ASSUME UsageInv, Table(rows), ReportShape, WalkInv, [AuditNext]_auditVars
  PROVE  ReportShape' /\ WalkInv'
<1>1. Table(rows')
  BY TableStays
<1>2. CASE rep' = NoReport
  BY <1>2 DEF ReportShape, WalkInv, NoReport, Walk
<1>3. CASE rows' = rows /\ asked' = rows /\ written' = FALSE /\ pruned' = FALSE /\ Starting
  <2>1. CASE rep' \in Walk /\ rep'.pc = "log" /\ rep'.pages = 0
    <3>1. WalkGood(rep', rows', asked')
      BY <1>1, <1>3, <2>1, WalkBegins
    <3> QED
      BY <2>1, <3>1 DEF ReportShape, WalkInv
  <2>2. CASE JustAsked(rep')
    <3>1. Other(rep') /\ rep' \notin Walk
      BY <2>2, OthersDoNotWalk DEF Other
    <3> QED
      BY <3>1 DEF ReportShape, WalkInv
  <2> QED
    BY <1>3, <2>1, <2>2 DEF Starting
<1>4. CASE /\ asked' = asked
           /\ ~pruned' => ~pruned /\ rows \subseteq rows'
           /\ rep' = rep
  <2>1. ReportShape'
    <3>1. ReportShape' <=> (rep' = NoReport \/ rep' \in Walk \/ Other(rep'))
      BY DEF ReportShape
    <3> QED
      BY <1>4, <3>1, Zenon DEF ReportShape
  <2>2. ASSUME rep' \in Walk, ~pruned' PROVE WalkGood(rep', rows', asked')
    <3>1. rep \in Walk /\ WalkGood(rep, rows, asked) /\ rows \subseteq rows'
      BY <1>4, <2>2 DEF WalkInv
    <3>2. WalkGood(rep, rows', asked)
      BY <1>1, <3>1, WalkGrows
    <3> QED
      BY <1>4, <3>2
  <2> QED
    BY <2>1, <2>2 DEF WalkInv
<1>5. CASE /\ asked' = asked
           /\ ~pruned' => ~pruned /\ rows \subseteq rows'
           /\ rows' = rows /\ Reports
  <2>1. ReportShape'
    BY <1>5, ReportsKeepShape DEF ReportShape
  <2>2. ASSUME rep' \in Walk, ~pruned' PROVE WalkGood(rep', rows', asked')
    <3>1. rep \in Walk /\ ~pruned
      BY <1>5, <2>2, ReportsKeepShape
    <3>2. WalkGood(rep, rows, asked)
      BY <3>1 DEF WalkInv
    <3>3. WalkGood(rep', rows, asked)
      BY <1>5, <2>2, <3>2, ReportsKeepShape
    <3> QED
      BY <1>5, <3>3
  <2> QED
    BY <2>1, <2>2 DEF WalkInv
<1> QED
  BY <1>2, <1>3, <1>4, <1>5, StepsOfReports

\* While rows come and go, whatever the mishaps.
LEMMA WalksAlways == AuditSpec => [](UsageInv /\ Table(rows) /\ ReportShape /\ WalkInv)
<1>1. AuditInit => UsageInv /\ Table(rows) /\ ReportShape /\ WalkInv
  <2> SUFFICES ASSUME AuditInit PROVE UsageInv /\ Table(rows) /\ ReportShape /\ WalkInv
    OBVIOUS
  <2>1. rep = NoReport
    BY DEF AuditInit, Init
  <2> QED
    BY <2>1, InitGood, TableAtFirst DEF ReportShape, WalkInv, NoReport, Walk
<1>2. UsageInv /\ Table(rows) /\ ReportShape /\ WalkInv /\ [AuditNext]_auditVars
        => (UsageInv /\ Table(rows) /\ ReportShape /\ WalkInv)'
  BY StepGood, TableStays, WalkStays
<1> QED
  BY <1>1, <1>2, PTL DEF AuditSpec

-----------------------------------------------------------------------------
(***************************************************************************)
(* Sums over finite sets.                                                  *)
(***************************************************************************)
\* A set of naturals that is not empty has a least member.
LEMMA NatHasLeast ==
  ASSUME NEW T, T \subseteq Nat, T # {}
  PROVE  \E n \in T : \A k \in T : n =< k
<1>1. PICK n \in T : \A k \in T : ~(<<k, n>> \in OpToRel(<, Nat))
  BY WFMin, NatLessThanWellFounded
<1>2. ASSUME NEW k \in T PROVE n =< k
  <2>1. ~(k < n)
    BY <1>1 DEF OpToRel
  <2> QED
    BY <2>1
<1> QED
  BY <1>2

\* Finitely many finite parts make a finite whole.
LEMMA FiniteWhole ==
  ASSUME NEW D, IsFiniteSet(D), NEW F, \A d \in D : IsFiniteSet(F[d])
  PROVE  IsFiniteSet(UNION {F[d] : d \in D})
<1> DEFINE Whole(s) == UNION {F[d] : d \in s}
           Bad == {n \in Nat : \E s \in SUBSET D : Cardinality(s) = n /\ ~IsFiniteSet(Whole(s))}
<1>1. ASSUME Bad # {} PROVE FALSE
  <2>1. PICK n \in Bad : \A k \in Bad : n =< k
    BY <1>1, NatHasLeast
  <2>2. PICK s \in SUBSET D : Cardinality(s) = n /\ ~IsFiniteSet(Whole(s))
    BY <2>1
  <2>3. IsFiniteSet(s) /\ Whole({}) = {}
    BY FS_Subset
  <2>4. PICK x \in s : TRUE
    BY <2>2, <2>3, FS_EmptySet
  <2> DEFINE t == s \ {x}
  <2>5. t \in SUBSET D /\ IsFiniteSet(t) /\ Cardinality(t) = n - 1 /\ n - 1 \in Nat
    <3>1. IsFiniteSet(t) /\ Cardinality(t) = n - 1
      BY <2>2, <2>3, FS_RemoveElement
    <3>2. Cardinality(t) \in Nat
      BY <3>1, FS_CardinalityType
    <3> QED
      BY <3>1, <3>2
  <2>6. IsFiniteSet(Whole(t))
    <3>1. n - 1 \notin Bad
      <4>1. n \in Nat
        OBVIOUS
      <4> HIDE DEF Bad
      <4> QED
        BY <2>1, <4>1
    <3>2. \A r \in SUBSET D : Cardinality(r) = n - 1 => IsFiniteSet(Whole(r))
      BY <2>5, <3>1
    <3> QED
      BY Zenon, <2>5, <3>2
  <2>7. Whole(s) = F[x] \cup Whole(t) /\ IsFiniteSet(F[x])
    OBVIOUS
  <2> HIDE DEF Whole, t
  <2>8. IsFiniteSet(Whole(s))
    <3>1. IsFiniteSet(F[x] \cup Whole(t))
      BY <2>6, <2>7, FS_Union
    <3> QED
      BY Zenon, <2>7, <3>1
  <2> QED
    BY <2>2, <2>8
<1>2. Cardinality(D) \in Nat /\ D \in SUBSET D
  BY FS_CardinalityType
<1> QED
  BY <1>1, <1>2

\* The total of a table's numbers.
Total(f) == FoldFunction(LAMBDA a, b : a + b, 0, f)

\* The parts F[d] together.
Together(D, F) == UNION {F[d] : d \in D}

\* A table of the sums over the subsets of f's domain, member after member.
Sums(it, f) ==
  it = [s \in SUBSET (DOMAIN f) |->
          IF s = {} THEN 0 ELSE f[CHOOSE x \in s : TRUE] + it[s \ {CHOOSE x \in s : TRUE}]]

\* The sizes of disjoint parts add up to the size of the whole.
LEMMA SumOfParts ==
  ASSUME NEW D, IsFiniteSet(D), NEW F, NEW f, f = [d \in D |-> Cardinality(F[d])],
         \A d \in D : IsFiniteSet(F[d]),
         \A d, e \in D : d # e => F[d] \cap F[e] = {}
  PROVE  /\ IsFiniteSet(Together(D, F))
         /\ Total(f) = Cardinality(Together(D, F))
<1> DEFINE Whole(s) == UNION {F[d] : d \in s}
           sizes == [s \in SUBSET D |-> Cardinality(Whole(s))]
           Pick(s) == CHOOSE x \in s : TRUE
<1>0. IsFiniteSet(UNION {F[d] : d \in D})
  BY FiniteWhole
<1>1. ASSUME NEW s \in SUBSET D, s # {}
      PROVE  /\ Pick(s) \in s /\ s \ {Pick(s)} \in SUBSET D
             /\ IsFiniteSet(s) /\ IsFiniteSet(s \ {Pick(s)}) /\ Cardinality(s) \in Nat
             /\ Cardinality(s \ {Pick(s)}) = Cardinality(s) - 1
             /\ Cardinality(Whole(s)) = f[Pick(s)] + Cardinality(Whole(s \ {Pick(s)}))
  <2>1. PICK x \in s : x = Pick(s)
    BY <1>1
  <2> HIDE DEF Pick
  <2>2. IsFiniteSet(s) /\ Cardinality(s) \in Nat
    BY FS_Subset, FS_CardinalityType
  <2>3. /\ IsFiniteSet(s \ {x}) /\ Cardinality(s \ {x}) = Cardinality(s) - 1
    BY <2>2, FS_RemoveElement
  <2>4. /\ Whole(s) = F[x] \cup Whole(s \ {x}) /\ F[x] \cap Whole(s \ {x}) = {}
    OBVIOUS
  <2>5. Whole(s) \subseteq Whole(D)
    OBVIOUS
  <2>6. IsFiniteSet(F[x]) /\ IsFiniteSet(Whole(s \ {x}))
    BY <1>0, <2>4, <2>5, FS_Subset
  <2>7. /\ Cardinality(F[x]) \in Nat /\ Cardinality(Whole(s \ {x})) \in Nat
        /\ Cardinality({}) = 0
    BY <2>6, FS_CardinalityType, FS_EmptySet
  <2>8. Cardinality(Whole(s)) =
          Cardinality(F[x]) + Cardinality(Whole(s \ {x})) - Cardinality(F[x] \cap Whole(s \ {x}))
    BY <2>4, <2>6, FS_Union
  <2> HIDE DEF Whole
  <2>9. Cardinality(Whole(s)) = f[x] + Cardinality(Whole(s \ {x}))
    <3>1. f[x] = Cardinality(F[x])
      OBVIOUS
    <3>2. Cardinality(F[x] \cap Whole(s \ {x})) = 0
      BY Zenon, <2>4, <2>7
    <3> QED
      BY <2>7, <2>8, <3>1, <3>2
  <2> QED
    BY <2>1, <2>2, <2>3, <2>9
<1>2. Whole({}) = {} /\ Cardinality({}) = 0
  BY FS_EmptySet
<1> HIDE DEF Whole, Pick
<1>3. Sums(sizes, f)
  <2>1. ASSUME NEW s \in SUBSET D
        PROVE  sizes[s] = IF s = {} THEN 0 ELSE f[Pick(s)] + sizes[s \ {Pick(s)}]
    <3>1. s \ {Pick(s)} \in SUBSET D
      OBVIOUS
    <3> QED
      BY <1>1, <1>2, <3>1
  <2> QED
    BY <2>1 DEF Sums, Pick
<1>4. PICK it : /\ Sums(it, f) /\ Total(f) = it[D]
  <2>1. Total(f) = (CHOOSE it : Sums(it, f))[DOMAIN f]
    BY DEF Total, FoldFunction, FoldFunctionOnSet, MapThenFoldSet, Sums
  <2> QED
    BY <1>3, <2>1
<1>5. ASSUME NEW s \in SUBSET D
      PROVE  it[s] = IF s = {} THEN 0 ELSE f[Pick(s)] + it[s \ {Pick(s)}]
  BY <1>4 DEF Sums, Pick
<1> DEFINE Bad == {n \in Nat : \E s \in SUBSET D : Cardinality(s) = n /\ it[s] # Cardinality(Whole(s))}
<1>6. ASSUME Bad # {} PROVE FALSE
  <2>1. PICK n \in Bad : \A k \in Bad : n =< k
    BY <1>6, NatHasLeast
  <2>2. PICK s \in SUBSET D : Cardinality(s) = n /\ it[s] # Cardinality(Whole(s))
    BY <2>1
  <2>3. s # {}
    BY <1>2, <1>5, <2>2
  <2> DEFINE t == s \ {Pick(s)}
  <2>4. t \in SUBSET D /\ Cardinality(t) = n - 1 /\ n - 1 \in Nat
    <3>1. Cardinality(t) \in Nat
      BY <1>1, <2>3, FS_CardinalityType
    <3> QED
      BY <1>1, <2>2, <2>3, <3>1
  <2>5. n - 1 \notin Bad
    BY <2>1, <2>4
  <2>6. it[t] = Cardinality(Whole(t))
    BY <2>4, <2>5
  <2>7. it[s] = f[Pick(s)] + it[t]
    BY <1>5, <2>3
  <2>8. Cardinality(Whole(s)) = f[Pick(s)] + Cardinality(Whole(t))
    BY <1>1, <2>3
  <2> QED
    BY <2>2, <2>6, <2>7, <2>8
<1>7. Cardinality(D) \in Nat /\ D \in SUBSET D
  BY FS_CardinalityType
<1>8. it[D] = Cardinality(Whole(D))
  BY <1>6, <1>7
<1> QED
  BY <1>0, <1>4, <1>8 DEF Whole, Together

-----------------------------------------------------------------------------
(***************************************************************************)
(* Buckets and percentiles.                                                *)
(***************************************************************************)
\* A quotient is below what it divides, and moves no faster than it.
LEMMA Quotients ==
  ASSUME NEW a \in Int, NEW c \in Int, c =< a, 0 =< a, NEW n \in Nat \ {0}
  PROVE  /\ Quot(a, n) \in Int /\ Quot(c, n) \in Int /\ Quot(a, n) * n =< a
         /\ Quot(a, n) - Quot(c, n) \in 0 .. a - c
<1>1. PICK p \in Nat : p = a \div n /\ p * n =< a /\ a < p * n + n /\ p =< a
  <2>1. PICK p \in Nat : p = a \div n /\ p * n =< a /\ a < p * n + n
    BY DivIs
  <2>2. p * 1 =< p * n
    OBVIOUS
  <2> QED
    BY <2>1, <2>2
<1>2. Quot(a, n) = p
  BY <1>1 DEF Quot
<1>3. CASE 0 =< c
  <2>1. PICK q \in Nat : q = c \div n /\ q * n =< c /\ c < q * n + n
    BY <1>3, DivIs
  <2>2. Quot(c, n) = q
    BY <1>3, <2>1 DEF Quot
  <2>3. q =< p
    <3>1. CASE p < q
      <4>1. (p + 1) * n =< q * n
        BY <3>1, TimesMore
      <4>2. (p + 1) * n = p * n + n /\ p * n \in Nat /\ q * n \in Nat
        OBVIOUS
      <4> QED
        BY <1>1, <2>1, <4>1, <4>2
    <3> QED
      BY <3>1
  <2>4. p - q =< a - c
    <3>1. CASE q < p
      <4>1. PICK k \in Nat : p = q + 1 + k
        <5>1. p - q - 1 \in Nat /\ p = q + 1 + (p - q - 1)
          BY <3>1
        <5> QED
          BY <5>1
      <4>2. p * n = q * n + n + k * n /\ k * 1 =< k * n
        BY <4>1
      <4>3. p * n \in Nat /\ q * n \in Nat /\ k * n \in Nat
        OBVIOUS
      <4>4. k * n < a - c
        BY <1>1, <2>1, <4>2, <4>3
      <4> QED
        BY <4>1, <4>2, <4>3, <4>4
    <3> QED
      BY <1>3, <2>3, <3>1
  <2> QED
    BY <1>1, <1>2, <2>2, <2>3, <2>4
<1>4. CASE c < 0
  <2>1. PICK q \in Nat : q = (-c) \div n /\ q * n =< -c
    BY <1>4, DivIs
  <2>2. Quot(c, n) = -q
    BY <1>4, <2>1 DEF Quot
  <2>3. q * 1 =< q * n /\ q * n \in Nat
    OBVIOUS
  <2> QED
    BY <1>1, <1>2, <1>4, <2>1, <2>2, <2>3
<1> QED
  BY <1>3, <1>4

\* The buckets of a range are finitely many, and have one for every time in it.
LEMMA BucketsCover ==
  ASSUME NEW range \in Ranges
  PROVE  /\ IsFiniteSet(Buckets(range))
         /\ \A ts \in Nat : Tz =< ts /\ range[1] =< ts /\ ts =< range[2] => BucketOf(ts) \in Buckets(range)
<1>1. range[1] \in Nat /\ range[2] \in Nat /\ Tz \in Int
  BY ReportAssumption
<1>2. PICK n \in Nat \ {0} : n = Bucket
  BY ReportAssumption
<1>3. PICK first : first = BucketOf(range[1])
  OBVIOUS
<1> DEFINE ks == {k \in 0 .. range[2] : first + k * Bucket =< range[2]}
           start == [k \in ks |-> first + k * Bucket]
<1>4. Buckets(range) = {start[k] : k \in ks}
  BY <1>3 DEF Buckets
<1>5. IsFiniteSet(Buckets(range))
  <2>1. IsFiniteSet(ks)
    <3>1. IsFiniteSet(0 .. range[2])
      BY <1>1, FS_Interval
    <3> QED
      BY <3>1, FS_Subset
  <2>2. start \in [ks -> Buckets(range)] /\ \A b \in Buckets(range) : \E k \in ks : start[k] = b
    BY <1>4
  <2> HIDE DEF start, ks
  <2> QED
    BY <2>1, <2>2, FS_Surjection DEF Surjection
<1>6. ASSUME NEW ts \in Nat, Tz =< ts, range[1] =< ts, ts =< range[2]
      PROVE  BucketOf(ts) \in Buckets(range)
  <2>1. PICK a \in Int, c \in Int : a = ts - Tz /\ c = range[1] - Tz
    BY <1>1
  <2>2. PICK p \in Int, q \in Int : /\ p = Quot(a, n) /\ q = Quot(c, n) /\ p * n =< a
                                    /\ p - q \in 0 .. a - c
    <3>1. c =< a /\ 0 =< a
      BY <1>1, <1>6, <2>1
    <3> QED
      BY <3>1, Quotients
  <2>3. PICK k \in Nat : k = p - q
    BY <2>2
  <2>4. k \in 0 .. range[2]
    BY <1>1, <1>6, <2>1, <2>2, <2>3
  <2>5. BucketOf(ts) = p * n + Tz /\ first = q * n + Tz
    BY <1>2, <1>3, <2>1, <2>2 DEF BucketOf
  <2>6. BucketOf(ts) = first + k * Bucket
    <3>1. p = q + k
      BY <2>2, <2>3
    <3>2. p * n = q * n + k * n /\ q * n \in Int /\ k * n \in Int
      BY <3>1
    <3> QED
      BY <1>1, <1>2, <2>5, <3>2
  <2>7. BucketOf(ts) =< range[2]
    <3>1. p * n \in Int
      OBVIOUS
    <3> QED
      BY <1>1, <1>6, <2>1, <2>2, <2>5, <3>1
  <2>8. k \in ks /\ BucketOf(ts) = start[k]
    BY <2>4, <2>6, <2>7
  <2> QED
    BY <1>4, <2>8
<1> QED
  BY <1>5, <1>6

\* The least duration that 95 of 100 of es do not exceed.
Below(es, d) == Cardinality({e \in es : e.dur =< d}) * 100
Percentile(es, p) ==
  /\ Below(es, p) >= 95 * Cardinality(es)
  /\ \A e \in es : e.dur < p => Below(es, e.dur) < 95 * Cardinality(es)

\* The offset is that of a row.
LEMMA OffsetIs ==
  ASSUME NEW n \in Nat \ {0}
  PROVE  /\ P95Offset(n) \in 0 .. n - 1
         /\ 95 * n =< (P95Offset(n) + 1) * 100 /\ P95Offset(n) * 100 < 95 * n
<1>1. PICK k \in Nat : k = (n * 95 + 99) \div 100 /\ k * 100 =< n * 95 + 99 /\ n * 95 + 99 < k * 100 + 100
  BY DivIs
<1>2. P95Offset(n) = k - 1
  BY <1>1 DEF P95Offset
<1> QED
  BY <1>1, <1>2

\* The row at the offset, in the order of the durations, has the percentile.
LEMMA OffsetIsPercentile ==
  ASSUME NEW es, Table(es), es # {}
  PROVE  /\ \E e \in es : Cardinality(Shorter(es, e)) = P95Offset(Cardinality(es))
         /\ \A e \in es : Cardinality(Shorter(es, e)) = P95Offset(Cardinality(es)) => Percentile(es, e.dur)
<1>1. PICK n \in Nat \ {0} : n = Cardinality(es)
  BY FS_CardinalityType, FS_EmptySet DEF Table
<1>2. PICK off \in Nat : off = P95Offset(n) /\ off \in 0 .. n - 1 /\ 95 * n =< (off + 1) * 100 /\ off * 100 < 95 * n
  BY OffsetIs
<1>3. PICK before : before = [e \in es |-> Shorter(es, e)]
  OBVIOUS
<1>4. \A i \in 0 .. Cardinality(es) - 1 : \E e \in es : Cardinality(before[e]) = i
  BY <1>3, ShorterOrders, OffsetsAreRows DEF Table
<1>5. \E e \in es : Cardinality(Shorter(es, e)) = off
  BY <1>1, <1>2, <1>3, <1>4
<1>6. \A e \in es : e.dur \in Nat /\ e.id \in Nat
  BY DEF Table, Event
<1>7. IsFiniteSet(es)
  BY DEF Table
<1>8. ASSUME NEW e \in es, Cardinality(Shorter(es, e)) = off PROVE Percentile(es, e.dur)
  <2>1. Shorter(es, e) \subseteq es /\ e \notin Shorter(es, e)
    BY <1>6 DEF Shorter
  <2>2. IsFiniteSet(Shorter(es, e))
    BY <1>7, <2>1, FS_Subset
  <2>3. Cardinality(Shorter(es, e) \cup {e}) = off + 1
    BY <1>8, <2>1, <2>2, FS_AddElement
  <2>4. off + 1 =< Cardinality({d \in es : d.dur =< e.dur})
    <3>1. Shorter(es, e) \cup {e} \subseteq {d \in es : d.dur =< e.dur}
      BY <1>6, <2>1 DEF Shorter
    <3>2. IsFiniteSet({d \in es : d.dur =< e.dur})
      BY <1>7, FS_Subset
    <3> QED
      BY <2>3, <3>1, <3>2, FS_Subset
  <2>5. Below(es, e.dur) >= 95 * n
    <3>1. PICK m \in Nat : m = Cardinality({d \in es : d.dur =< e.dur})
      <4>1. {d \in es : d.dur =< e.dur} \subseteq es
        OBVIOUS
      <4> QED
        BY <1>7, <4>1, PartOf
    <3> QED
      BY <1>2, <2>4, <3>1 DEF Below
  <2>6. ASSUME NEW d \in es, d.dur < e.dur PROVE Below(es, d.dur) < 95 * n
    <3>1. {x \in es : x.dur =< d.dur} \subseteq Shorter(es, e)
      BY <1>6, <2>6 DEF Shorter
    <3>2. PICK m \in Nat : m = Cardinality({x \in es : x.dur =< d.dur}) /\ m =< off
      BY <1>8, <2>2, <3>1, PartOf
    <3> QED
      BY <1>2, <3>2 DEF Below
  <2> QED
    BY <1>1, <2>5, <2>6 DEF Percentile
<1> QED
  BY <1>1, <1>2, <1>5, <1>8

-----------------------------------------------------------------------------
(***************************************************************************)
(* What the points of a report add up to.                                  *)
(***************************************************************************)
\* The sizes of the classes of a set add up to its size.
LEMMA SumOfClasses ==
  ASSUME NEW D, IsFiniteSet(D), NEW es, IsFiniteSet(es), NEW class, \A e \in es : class[e] \in D,
         NEW f, f = [d \in D |-> Cardinality({e \in es : class[e] = d})]
  PROVE  Total(f) = Cardinality(es)
<1>1. PICK F : F = [d \in D |-> {e \in es : class[e] = d}]
  OBVIOUS
<1>2. \A d \in D : F[d] \subseteq es
  BY <1>1
<1>3. \A d \in D : IsFiniteSet(F[d])
  BY <1>2, FS_Subset
<1>4. \A d, e \in D : d # e => F[d] \cap F[e] = {}
  BY <1>1
<1>5. f = [d \in D |-> Cardinality(F[d])]
  BY <1>1
<1>6. Total(f) = Cardinality(Together(D, F))
  BY <1>3, <1>4, <1>5, SumOfParts
<1>7. Together(D, F) = es
  BY <1>1 DEF Together
<1> QED
  BY <1>6, <1>7

\* Times are not before the zone's first second.
FromZone(t) == \A e \in t : Tz =< e.ts

\* Every row that matches is in a bucket of the range.
LEMMA InBuckets ==
  ASSUME NEW t, Table(t), FromZone(t), NEW q, q.range \in Ranges, NEW e \in Within(t, q)
  PROVE  BucketOf(e.ts) \in Buckets(q.range)
<1>1. e \in t /\ q.range[1] =< e.ts /\ e.ts =< q.range[2]
  BY DEF Within
<1>2. e.ts \in Nat /\ Tz =< e.ts
  BY <1>1 DEF Table, Event, FromZone
<1> QED
  BY <1>1, <1>2, BucketsCover

\* An overview's buckets add up to what matches.
LEMMA OverviewSums ==
  ASSUME NEW t, Table(t), FromZone(t), NEW q, q.range \in Ranges,
         NEW points, points = Counted(q, t)
  PROVE  /\ Total([b \in DOMAIN points |-> points[b][1]]) = Cardinality(Within(t, q))
         /\ Total([b \in DOMAIN points |-> points[b][2]]) = Cardinality(Errors(Within(t, q)))
<1>1. PICK es, class : es = Within(t, q) /\ class = [e \in es |-> BucketOf(e.ts)]
  OBVIOUS
<1>2. PICK D : D = Buckets(q.range) /\ IsFiniteSet(D)
  BY BucketsCover
<1>3. IsFiniteSet(es) /\ IsFiniteSet(Errors(es)) /\ Errors(es) \subseteq es
  BY <1>1, WithinIs, FS_Subset DEF Table, Errors
<1>4. \A e \in es : class[e] \in D /\ class[e] = BucketOf(e.ts)
  BY <1>1, <1>2, InBuckets
<1>5. PICK f : f = [d \in D |-> Cardinality({e \in es : class[e] = d})]
  OBVIOUS
<1>6. PICK g : g = [d \in D |-> Cardinality({e \in Errors(es) : class[e] = d})]
  OBVIOUS
<1>7. Total(f) = Cardinality(es) /\ Total(g) = Cardinality(Errors(es))
  <2>1. \A e \in es : class[e] \in D
    BY <1>4
  <2>2. Total(f) = Cardinality(es)
    BY <1>2, <1>3, <1>5, <2>1, SumOfClasses
  <2>3. \A e \in Errors(es) : class[e] \in D
    BY <1>3, <2>1
  <2>4. Total(g) = Cardinality(Errors(es))
    BY <1>2, <1>3, <1>6, <2>3, SumOfClasses
  <2> QED
    BY <2>2, <2>4
<1>8. ASSUME NEW d \in D
      PROVE  /\ {e \in es : BucketOf(e.ts) = d} = {e \in es : class[e] = d}
             /\ Errors({e \in es : BucketOf(e.ts) = d}) = {e \in Errors(es) : class[e] = d}
  BY <1>4 DEF Errors
<1>9. /\ DOMAIN points = D
      /\ \A d \in D : points[d] = <<Cardinality({e \in es : BucketOf(e.ts) = d}),
                                    Cardinality(Errors({e \in es : BucketOf(e.ts) = d}))>>
  BY <1>1, <1>2 DEF Counted
<1>10. ASSUME NEW d \in D PROVE points[d][1] = f[d] /\ points[d][2] = g[d]
  <2>1. points[d] = <<f[d], g[d]>>
    BY <1>5, <1>6, <1>8, <1>9
  <2> QED
    BY <2>1
<1>11. [b \in DOMAIN points |-> points[b][1]] = f /\ [b \in DOMAIN points |-> points[b][2]] = g
  BY <1>5, <1>6, <1>9, <1>10
<1> QED
  BY <1>1, <1>7, <1>11, Zenon

\* Finitely many rows are of finitely many models; without an "other" series
\* each has a series of its own.
LEMMA SeriesCover ==
  ASSUME NEW t, Table(t), NEW q, NEW es, es = Within(t, q),
         q.groups = Named(es), q.other = (Cardinality(Models(es)) > Top)
  PROVE  /\ IsFiniteSet(Charted(q))
         /\ \A e \in es : Target(q, e) \in Charted(q)
<1>1. IsFiniteSet(es)
  BY WithinIs DEF Table
<1>2. IsFiniteSet(Models(es))
  <2>1. PICK model : model = [e \in es |-> e.model]
    OBVIOUS
  <2>2. model \in Surjection(es, Models(es))
    BY <2>1 DEF Surjection, Models
  <2> QED
    BY <1>1, <2>2, FS_Surjection
<1>3. IsFiniteSet(Charted(q))
  <2>1. IsFiniteSet(q.groups)
    <3>1. Named(es) \subseteq Models(es)
      BY DEF Named
    <3> QED
      BY <1>2, <3>1, FS_Subset
  <2>2. IsFiniteSet(IF q.other THEN {0} ELSE {})
    BY FS_EmptySet, FS_Singleton
  <2> QED
    BY <2>1, <2>2, FS_Union DEF Charted
<1>4. ASSUME NEW e \in es PROVE Target(q, e) \in Charted(q)
  <2>1. CASE q.other \/ e.model \in q.groups
    BY <2>1 DEF Charted, Target
  <2>2. CASE ~q.other /\ e.model \notin q.groups
    <3>1. PICK m : m = e.model /\ m \in Models(es)
      BY DEF Models
    <3>2. Larger(es, m) \subseteq Models(es)
      BY DEF Larger
    <3>3. m \notin Larger(es, m)
      <4>1. PICK n \in Nat : n = Cardinality(Of(es, m))
        <5>1. Of(es, m) \subseteq es
          BY DEF Of
        <5> QED
          BY <1>1, <5>1, PartOf
      <4>2. m \in Nat
        BY <3>1, WithinIs DEF Table, Event
      <4> QED
        BY <4>1, <4>2 DEF Larger
    <3>4. Cardinality(Larger(es, m)) < Cardinality(Models(es))
      BY <1>2, <3>1, <3>2, <3>3, PartOf
    <3>5. /\ Cardinality(Larger(es, m)) \in Nat /\ Cardinality(Models(es)) \in Nat /\ Top \in Nat
      BY <1>2, <3>2, PartOf, ReportAssumption
    <3>6. ~(Cardinality(Models(es)) > Top)
      BY <2>2
    <3>7. m \in Named(es)
      BY <3>1, <3>4, <3>5, <3>6 DEF Named
    <3> QED
      BY <2>2, <3>1, <3>7
  <2> QED
    BY <2>1, <2>2
<1> QED
  BY <1>3, <1>4

\* A series' points add up to what matches.
LEMMA SeriesSums ==
  ASSUME NEW t, Table(t), FromZone(t), NEW q, q.range \in Ranges, NEW es, es = Within(t, q),
         q.groups = Named(es), q.other = (Cardinality(Models(es)) > Top),
         NEW points, points = Plotted(q, t)
  PROVE  Total([b \in DOMAIN points |-> Total(points[b])]) = Cardinality(es)
<1>1. PICK class, target : class = [e \in es |-> BucketOf(e.ts)] /\ target = [e \in es |-> Target(q, e)]
  OBVIOUS
<1>2. PICK D, G : D = Buckets(q.range) /\ G = Charted(q) /\ IsFiniteSet(D) /\ IsFiniteSet(G)
  BY BucketsCover, SeriesCover
<1>3. IsFiniteSet(es)
  BY WithinIs DEF Table
<1>4. \A e \in es : class[e] \in D /\ class[e] = BucketOf(e.ts)
  BY <1>1, <1>2, InBuckets
<1>5. \A e \in es : target[e] \in G /\ target[e] = Target(q, e)
  BY <1>1, <1>2, SeriesCover
<1>6. PICK f : f = [d \in D |-> Cardinality({e \in es : class[e] = d})]
  OBVIOUS
<1>7. Total(f) = Cardinality(es)
  BY <1>2, <1>3, <1>4, <1>6, SumOfClasses
<1>8. DOMAIN points = D /\ \A d \in D : points[d] =
        [g \in G |-> Cardinality({e \in es : BucketOf(e.ts) = d /\ Target(q, e) = g})]
  BY <1>2 DEF Plotted
<1>9. ASSUME NEW d \in D PROVE Total(points[d]) = f[d]
  <2>1. PICK part : part = {e \in es : class[e] = d} /\ part \subseteq es /\ IsFiniteSet(part)
    BY <1>3, FS_Subset
  <2>2. PICK h : h = [g \in G |-> Cardinality({e \in part : target[e] = g})]
    OBVIOUS
  <2>3. Total(h) = Cardinality(part)
    BY <1>2, <1>5, <2>1, <2>2, SumOfClasses
  <2>4. ASSUME NEW g \in G
        PROVE  {e \in part : target[e] = g} = {e \in es : BucketOf(e.ts) = d /\ Target(q, e) = g}
    BY <1>4, <1>5, <2>1
  <2>5. points[d] = h
    BY <1>8, <2>2, <2>4
  <2> QED
    BY <1>6, <2>1, <2>3, <2>5
<1>10. [b \in DOMAIN points |-> Total(points[b])] = f
  BY <1>6, <1>8, <1>9
<1> QED
  BY <1>7, <1>10, Zenon

\* Nothing adds up to nothing.
LEMMA NothingAddsUp ==
  ASSUME NEW points, points = <<>>
  PROVE  Total([b \in DOMAIN points |-> Total(points[b])]) = 0
<1>1. PICK D, f : D = {} /\ f = [b \in DOMAIN points |-> Total(points[b])]
  OBVIOUS
<1>2. DOMAIN points = D
  BY <1>1
<1>3. PICK es, class : es = {} /\ class = [e \in es |-> 0]
  OBVIOUS
<1>4. f = [d \in D |-> Cardinality({e \in es : class[e] = d})]
  BY <1>1, <1>2
<1>5. IsFiniteSet(D) /\ IsFiniteSet(es) /\ Cardinality(es) = 0
  BY <1>1, <1>3, FS_EmptySet
<1>6. \A e \in es : class[e] \in D
  BY <1>3
<1>7. Total(f) = 0
  BY <1>4, <1>5, <1>6, SumOfClasses
<1> QED
  BY <1>1, <1>7, Zenon

-----------------------------------------------------------------------------
(***************************************************************************)
(* Times are in the zone.                                                  *)
(***************************************************************************)
\* The buffer takes only the new event.
LEMMA BufferedTakes ==
  ASSUME buf \in Seq(Event), NEW e
  PROVE  ToSet(Buffered(e)) \subseteq ToSet(buf) \cup {e}
<1>1. PICK S : S = Event \cup {e}
  OBVIOUS
<1>2. buf \in Seq(S) /\ e \in S /\ BufferMax \in Nat \ {0}
  BY <1>1, UsageAssumption
<1>3. PICK b : b = IF Len(buf) = BufferMax THEN Tail(buf) ELSE buf
  OBVIOUS
<1>4. b \in Seq(S) /\ ToSet(b) \subseteq ToSet(buf)
  <2>1. CASE Len(buf) = BufferMax
    <3>1. b = Tail(buf) /\ buf # <<>>
      BY <1>2, <1>3, <2>1
    <3>2. /\ b \in Seq(S) /\ Len(b) = Len(buf) - 1 /\ Len(buf) \in Nat
          /\ \A i \in 1 .. Len(buf) - 1 : b[i] = buf[i + 1]
      BY <1>2, <3>1
    <3>3. DOMAIN b = 1 .. Len(buf) - 1 /\ DOMAIN buf = 1 .. Len(buf)
      BY <1>2, <3>2
    <3>4. \A i \in 1 .. Len(buf) - 1 : i + 1 \in 1 .. Len(buf)
      BY <3>2
    <3> QED
      BY <3>2, <3>3, <3>4 DEF ToSet
  <2>2. CASE Len(buf) # BufferMax
    BY <1>2, <1>3, <2>2
  <2> QED
    BY <2>1, <2>2
<1>5. /\ DOMAIN b = 1 .. Len(b) /\ DOMAIN Append(b, e) = 1 .. Len(b) + 1 /\ Len(b) \in Nat
      /\ \A i \in 1 .. Len(b) + 1 : IF i \in 1 .. Len(b) THEN Append(b, e)[i] = b[i] ELSE Append(b, e)[i] = e
  BY <1>2, <1>4
<1>6. ToSet(Append(b, e)) \subseteq ToSet(b) \cup {e}
  BY <1>5 DEF ToSet
<1>7. Buffered(e) = Append(b, e)
  BY <1>3, Zenon DEF Buffered
<1> QED
  BY <1>4, <1>6, <1>7

\* No day is before the zone's first second, nor the time of an event.
ZoneInv == Tz =< day /\ FromZone(rows) /\ FromZone(ToSet(buf)) /\ FromZone(ToSet(loop.batch))

\* Events take the time of the day.
LEMMA ZoneStays ==
  ASSUME UsageInv, ZoneInv, [AuditNext]_auditVars
  PROVE  ZoneInv'
<1>1. /\ day \in Nat /\ buf \in Seq(Event) /\ loop \in Round /\ Tz \in Int
  BY ReportAssumption DEF UsageInv, TypeInv
<1>2. FromZone(ToSet(<<>>))
  BY DEF FromZone, ToSet
<1>3. FromZone(rows')
  BY RowsCome DEF ZoneInv, FromZone
<1>4. ASSUME UNCHANGED <<day, buf>>, loop'.batch = loop.batch \/ loop'.batch = <<>> PROVE ZoneInv'
  BY <1>2, <1>3, <1>4 DEF ZoneInv
<1>5. CASE NextDay
  <2>1. day' = day + 1 /\ buf' = buf /\ loop' = loop
    BY <1>5 DEF NextDay, memory
  <2>2. Tz =< day'
    BY <1>1, <2>1 DEF ZoneInv
  <2> QED
    BY <1>3, <2>1, <2>2 DEF ZoneInv
<1>6. ASSUME NEW r \in Requests, NEW outcome, Record(r, outcome) PROVE ZoneInv'
  <2>1. PICK e : /\ e = [id |-> made + 1, ts |-> day, owner |-> req[r].owner, model |-> outcome.model,
                         ok |-> outcome.ok, dur |-> outcome.dur]
                 /\ buf' = Buffered(e)
    BY <1>6, Zenon DEF Record
  <2>2. day' = day /\ loop' = loop /\ e.ts = day
    BY <1>6, <2>1 DEF Record
  <2>3. ToSet(buf') \subseteq ToSet(buf) \cup {e}
    BY <1>1, <2>1, BufferedTakes
  <2>4. FromZone(ToSet(buf'))
    BY <2>2, <2>3 DEF ZoneInv, FromZone
  <2> QED
    BY <1>3, <2>2, <2>4 DEF ZoneInv
<1>7. CASE Drain
  <2>1. day' = day /\ buf' = <<>> /\ loop'.batch = buf
    BY <1>1, <1>7 DEF Drain, Round
  <2> QED
    BY <1>2, <1>3, <2>1 DEF ZoneInv
<1>8. CASE Crash
  <2>1. day' = day /\ buf' = <<>> /\ loop'.batch = <<>>
    BY <1>8 DEF Crash, Waiting
  <2> QED
    BY <1>2, <1>3, <2>1 DEF ZoneInv
<1>9. ASSUME NEW o \in Owners, Bump(o) PROVE ZoneInv'
  <2>1. UNCHANGED <<day, buf>> /\ loop'.batch = loop.batch
    BY <1>1, <1>9 DEF Bump, Round
  <2> QED
    BY <1>4, <2>1
<1>10. CASE TakeDeltas \/ InsertUsageEvents \/ \E due \in BOOLEAN : PruneUsageEvents(due)
  <2>1. UNCHANGED <<day, buf>> /\ (loop'.batch = loop.batch \/ loop'.batch = <<>>)
    <3>1. CASE TakeDeltas
      BY <1>1, <3>1 DEF TakeDeltas, Round
    <3>2. CASE InsertUsageEvents
      BY <1>1, <3>2 DEF InsertUsageEvents, Round
    <3>3. CASE \E due \in BOOLEAN : PruneUsageEvents(due)
      BY <3>3 DEF PruneUsageEvents, Waiting
    <3> QED
      BY <1>10, <3>1, <3>2, <3>3
  <2> QED
    BY <1>4, <2>1
<1>11. CASE UNCHANGED <<day, buf, loop>>
  BY <1>4, <1>11
<1>12. \/ NextDay \/ Drain \/ Crash \/ (\E r \in Requests : \E outcome : Record(r, outcome))
       \/ (\E o \in Owners : Bump(o))
       \/ (TakeDeltas \/ InsertUsageEvents \/ \E due \in BOOLEAN : PruneUsageEvents(due))
       \/ UNCHANGED <<day, buf, loop>>
  <2>1. CASE UNCHANGED auditVars
    BY <2>1, Zenon DEF auditVars, vars, logVars, memory
  <2>2. CASE LogNext
    BY <2>2, Zenon DEF LogNext, LetIn, AddActivity
  <2>3. CASE AuditNext /\ ~LogNext /\ ~Crash
    BY <2>3, Zenon DEF AuditNext, Next, Ask, Totals, P95, Points, Rank, Values, Page, Answered, Shows,
       logVars, memory
  <2> QED
    BY <2>1, <2>2, <2>3
<1> QED
  BY <1>5, <1>6, <1>7, <1>8, <1>9, <1>10, <1>11, <1>12, Zenon

\* It begins so.
LEMMA ZoneAtFirst ==
  ASSUME AuditInit
  PROVE  ZoneInv
<1>1. PICK s \in Starts : rows = s.rows
  BY DEF AuditInit, Init
<1>2. FromZone(rows) /\ Tz =< FirstDay
  BY <1>1, ReportAssumption DEF FromZone
<1>3. day = FirstDay /\ buf = <<>> /\ loop.batch = <<>>
  BY DEF AuditInit, Init, LogInit, Fresh, Waiting
<1> QED
  BY <1>2, <1>3 DEF ZoneInv, FromZone, ToSet

-----------------------------------------------------------------------------
(***************************************************************************)
(* The figures of the reports.                                             *)
(***************************************************************************)
\* The successes among the rows that match.
Successes(q, t) == Within(t, q) \ Errors(Within(t, q))

\* An overview of table t: its percentile is looked for and found only where
\* there is a success.
OverviewGood(q, t) ==
  /\ q.pc # "failed"
  /\ q.requests = Cardinality(Within(t, q)) /\ q.errors = Cardinality(Errors(Within(t, q)))
  /\ q.pc = "p95" => Successes(q, t) # {}
  /\ q.pc # "p95" /\ Successes(q, t) # {} => Percentile(Successes(q, t), q.p95)
  /\ q.pc = "shown" => q.points = Counted(q, t)

\* A series over table t.
SeriesGood(q, t) ==
  /\ q.groups = Named(Within(t, q)) /\ q.other = (Cardinality(Models(Within(t, q))) > Top)
  /\ q.pc = "shown" =>
       (Within(t, q) = {} /\ q.points = <<>>) \/ q.points = Plotted(q, t)

\* So they are while nothing is written under them.
FiguresInv ==
  ~written => /\ Overview(rep) => OverviewGood(rep, rows)
              /\ Series(rep) => SeriesGood(rep, rows)

\* Filters are what a report keeps from its first query on.
LEMMA SameFilter ==
  ASSUME NEW q, NEW r, r.range = q.range, r.owner = q.owner, NEW t
  PROVE  /\ Within(t, r) = Within(t, q) /\ Successes(r, t) = Successes(q, t)
         /\ Counted(r, t) = Counted(q, t)
<1>1. Within(t, r) = Within(t, q)
  BY DEF Within
<1> QED
  BY <1>1, Zenon DEF Successes, Counted

\* Reports of different kinds.
LEMMA KindsDiffer ==
  ASSUME NEW q
  PROVE  /\ ~(Overview(q) /\ Series(q))
         /\ JustAsked(q) => ~Overview(q) /\ ~Series(q)
         /\ q \in Walk => ~Overview(q) /\ ~Series(q)
         /\ q = NoReport => ~Overview(q) /\ ~Series(q)
<1>1. Overview(q) => q.kind = "overview" /\ q.pc # "overview" /\ q.pc # "none" /\ q.pc # "series"
  BY DEF Overview
<1>2. Series(q) => q.kind = "series" /\ q.pc # "series" /\ q.pc # "none" /\ q.pc # "overview"
  BY DEF Series
<1>3. JustAsked(q) => q.pc = "overview" \/ q.pc = "series"
  BY DEF JustAsked
<1>4. q \in Walk => q.kind = "log"
  BY DEF Walk
<1>5. q = NoReport => q.pc = "none"
  BY DEF NoReport
<1> QED
  BY <1>1, <1>2, <1>3, <1>4, <1>5

\* The totals are those of the table.
LEMMA TotalsCount ==
  ASSUME ReportShape, Table(rows), Totals
  PROVE  OverviewGood(rep', rows)
<1>1. PICK q, r : q = rep /\ r = rep'
  OBVIOUS
<1>2. PICK es : es = Within(rows, q) /\ es = Matching(q)
  BY DEF Within, Matching
<1>3. /\ r.range = q.range /\ r.owner = q.owner
      /\ r.pc = IF Errors(es) = es THEN "points" ELSE "p95"
      /\ r.requests = Cardinality(es) /\ r.errors = Cardinality(Errors(es))
  BY <1>1, <1>2, TotalsMoves
<1>4. Within(rows, r) = es /\ Successes(r, rows) = es \ Errors(es)
  <2>1. Within(rows, r) = Within(rows, q) /\ Successes(r, rows) = Successes(q, rows)
    BY <1>3, SameFilter
  <2> QED
    BY <1>2, <2>1, Zenon DEF Successes
<1>5. Errors(es) = es <=> es \ Errors(es) = {}
  BY DEF Errors
<1>6. r.pc # "failed" /\ r.pc # "shown" /\ (r.pc = "p95" <=> es \ Errors(es) # {})
  BY <1>3, <1>5
<1>7. OverviewGood(r, rows)
  BY <1>3, <1>4, <1>6 DEF OverviewGood
<1> QED
  BY <1>1, <1>7

\* Of the rows that match, as many as are not errors are successes.
LEMMA SuccessesAre ==
  ASSUME NEW t, Table(t), NEW q
  PROVE  /\ Table(Successes(q, t))
         /\ Cardinality(Successes(q, t)) = Cardinality(Within(t, q)) - Cardinality(Errors(Within(t, q)))
<1>1. PICK es : es = Within(t, q) /\ Table(es)
  BY WithinIs
<1>2. Errors(es) \subseteq es /\ IsFiniteSet(es)
  BY <1>1 DEF Errors, Table
<1>3. PICK oks : oks = es \ Errors(es)
  OBVIOUS
<1>4. oks \subseteq es /\ IsFiniteSet(oks)
  BY <1>2, <1>3, FS_Subset
<1>5. Table(oks)
  BY <1>1, <1>4 DEF Table, Apart
<1>6. Cardinality(oks) = Cardinality(es) - Cardinality(Errors(es))
  <2>1. es \cap Errors(es) = Errors(es)
    BY <1>2
  <2>2. Cardinality(es \ Errors(es)) = Cardinality(es) - Cardinality(es \cap Errors(es))
    BY <1>2, FS_Subset, FS_Difference
  <2> QED
    BY <1>3, <2>1, <2>2, Zenon
<1> QED
  BY <1>1, <1>3, <1>5, <1>6 DEF Successes

\* The percentile is found, and is the percentile of the table.
LEMMA P95Found ==
  ASSUME ReportShape, Table(rows), P95, OverviewGood(rep, rows)
  PROVE  OverviewGood(rep', rows)
<1>1. PICK q, r : q = rep /\ r = rep'
  OBVIOUS
<1>2. PICK oks : oks = Successes(q, rows) /\ oks = Matching(q) \ Errors(Matching(q))
  BY DEF Successes, Within, Matching
<1>3. q.pc = "p95" /\ OverviewGood(q, rows)
  BY <1>1 DEF P95
<1>4. oks # {} /\ Table(oks)
  BY <1>2, <1>3, SuccessesAre DEF OverviewGood
<1>5. q.requests - q.errors = Cardinality(oks)
  BY <1>2, <1>3, SuccessesAre DEF OverviewGood
<1>6. /\ r.range = q.range /\ r.owner = q.owner /\ r.requests = q.requests /\ r.errors = q.errors
      /\ \/ /\ r.pc = "points"
            /\ \E e \in oks : /\ Cardinality(Shorter(oks, e)) = P95Offset(q.requests - q.errors)
                              /\ r.p95 = e.dur
         \/ /\ r.pc = "failed"
            /\ \A e \in oks : Cardinality(Shorter(oks, e)) # P95Offset(q.requests - q.errors)
  BY <1>1, <1>2, P95Moves
<1>7. r.pc = "points" /\ Percentile(oks, r.p95)
  BY <1>4, <1>5, <1>6, OffsetIsPercentile
<1>8. Within(rows, r) = Within(rows, q) /\ Successes(r, rows) = oks
  BY <1>2, <1>6, SameFilter
<1>9. q.requests = Cardinality(Within(rows, q)) /\ q.errors = Cardinality(Errors(Within(rows, q)))
  BY <1>3 DEF OverviewGood
<1>10. OverviewGood(r, rows)
  BY <1>6, <1>7, <1>8, <1>9 DEF OverviewGood
<1> QED
  BY <1>1, <1>10

\* The points are those of the table.
LEMMA PointsCount ==
  ASSUME ReportShape, Points, OverviewGood(rep, rows)
  PROVE  OverviewGood(rep', rows)
<1>1. PICK q, r : q = rep /\ r = rep'
  OBVIOUS
<1>2. q.pc = "points" /\ OverviewGood(q, rows)
  BY <1>1 DEF Points
<1>3. /\ r.range = q.range /\ r.owner = q.owner /\ r.requests = q.requests /\ r.errors = q.errors
      /\ r.p95 = q.p95 /\ r.pc = "shown" /\ r.points = Counted(q, rows)
  BY <1>1, PointsMoves
<1>4. /\ Within(rows, r) = Within(rows, q) /\ Successes(r, rows) = Successes(q, rows)
      /\ Counted(r, rows) = Counted(q, rows)
  BY <1>3, SameFilter
<1>5. OverviewGood(r, rows)
  BY <1>2, <1>3, <1>4 DEF OverviewGood
<1> QED
  BY <1>1, <1>5

\* The groups are those of the table.
LEMMA RankNames ==
  ASSUME ReportShape, Rank
  PROVE  SeriesGood(rep', rows)
<1>1. PICK q, r : q = rep /\ r = rep'
  OBVIOUS
<1>2. PICK es : es = Within(rows, q) /\ es = Matching(q)
  BY DEF Within, Matching
<1>3. /\ r.range = q.range /\ r.owner = q.owner
      /\ r.pc = IF es = {} THEN "shown" ELSE "values"
      /\ r.groups = Named(es) /\ r.points = <<>> /\ r.other = (Cardinality(Models(es)) > Top)
  BY <1>1, <1>2, RankMoves
<1>4. Within(rows, r) = es
  BY <1>2, <1>3, SameFilter
<1>5. SeriesGood(r, rows)
  BY <1>3, <1>4 DEF SeriesGood
<1> QED
  BY <1>1, <1>5

\* The values are those of the table.
LEMMA ValuesCount ==
  ASSUME ReportShape, Values, SeriesGood(rep, rows)
  PROVE  SeriesGood(rep', rows)
<1>1. PICK q, r : q = rep /\ r = rep'
  OBVIOUS
<1>2. SeriesGood(q, rows)
  BY <1>1
<1>3. /\ r.range = q.range /\ r.owner = q.owner /\ r.groups = q.groups /\ r.other = q.other
      /\ r.pc = "shown" /\ r.points = Plotted(q, rows)
  BY <1>1, ValuesMoves
<1>4. Within(rows, r) = Within(rows, q)
  BY <1>3, SameFilter
<1>5. Plotted(r, rows) = Plotted(q, rows)
  <2>1. Charted(r) = Charted(q)
    BY <1>3 DEF Charted
  <2>2. \A e : Target(r, e) = Target(q, e)
    BY <1>3 DEF Target
  <2> QED
    BY <1>3, <1>4, <2>1, <2>2 DEF Plotted
<1>6. SeriesGood(r, rows)
  BY <1>2, <1>3, <1>4, <1>5 DEF SeriesGood
<1> QED
  BY <1>1, <1>6

\* The figures stay those of the table.
LEMMA FiguresStay ==
  ASSUME UsageInv, Table(rows), ReportShape, FiguresInv, [AuditNext]_auditVars
  PROVE  FiguresInv'
<1> SUFFICES ASSUME ~written'
             PROVE  /\ Overview(rep') => OverviewGood(rep', rows')
                    /\ Series(rep') => SeriesGood(rep', rows')
  BY DEF FiguresInv
<1>1. CASE rep' = NoReport \/ Starting
  BY <1>1, KindsDiffer DEF Starting
<1>2. CASE ~written /\ rows' = rows /\ rep' = rep
  BY <1>2 DEF FiguresInv
<1>3. CASE ~written /\ rows' = rows /\ Reports
  <2>1. CASE Totals
    BY <1>3, <2>1, TotalsMoves, TotalsCount, KindsDiffer
  <2>2. CASE P95
    <3>1. OverviewGood(rep, rows)
      BY <1>3, <2>2, LastQueries DEF FiguresInv, P95
    <3> QED
      BY <1>3, <2>2, <3>1, P95Moves, P95Found, KindsDiffer
  <2>3. CASE Points
    <3>1. OverviewGood(rep, rows)
      BY <1>3, <2>3, LastQueries DEF FiguresInv, Points
    <3> QED
      BY <1>3, <2>3, <3>1, PointsMoves, PointsCount, KindsDiffer
  <2>4. CASE Rank
    BY <1>3, <2>4, RankMoves, RankNames, KindsDiffer
  <2>5. CASE Values
    <3>1. SeriesGood(rep, rows)
      BY <1>3, <2>5, LastQueries DEF FiguresInv, Values
    <3> QED
      BY <1>3, <2>5, <3>1, ValuesMoves, ValuesCount, KindsDiffer
  <2>6. CASE Page
    BY <2>6, PageMoves, KindsDiffer
  <2> QED
    BY <1>3, <2>1, <2>2, <2>3, <2>4, <2>5, <2>6 DEF Reports
<1> QED
  BY <1>1, <1>2, <1>3, StepsOfReports

\* What the proof of the figures needs of the state.
LEMMA FiguresAlways ==
  AuditSpec => [](UsageInv /\ Table(rows) /\ ReportShape /\ WalkInv /\ ZoneInv /\ FiguresInv)
<1>1. AuditInit => ZoneInv /\ FiguresInv
  <2>1. AuditInit => rep = NoReport
    BY DEF AuditInit, Init
  <2> QED
    BY <2>1, ZoneAtFirst, KindsDiffer DEF FiguresInv
<1>2. UsageInv /\ Table(rows) /\ ReportShape /\ ZoneInv /\ FiguresInv /\ [AuditNext]_auditVars
        => ZoneInv' /\ FiguresInv'
  BY ZoneStays, FiguresStay
<1> QED
  BY <1>1, <1>2, WalksAlways, PTL DEF AuditSpec

-----------------------------------------------------------------------------
(***************************************************************************)
(* The theorems.                                                           *)
(***************************************************************************)
\* The buffer, the ring and the loop's batch stay within their sizes (usage.go:
\* usageBuffer.add; clientkeys.go: addActivity), and no row has a number not
\* yet given or a day to come.
THEOREM UsageTypeCorrect == AuditSpec => []TypeOK
<1>1. UsageInv => TypeOK
  <2> SUFFICES ASSUME UsageInv PROVE TypeOK
    OBVIOUS
  <2>1. TypeInv /\ EventInv
    BY DEF UsageInv
  <2>2. Len(buf) =< BufferMax /\ ringIdx \in 0 .. RingSize - 1
    BY <2>1, Zenon DEF TypeInv
  <2>3. \A e \in rows : e.id \in 1 .. made /\ e.ts =< day /\ e.owner \in Owners /\ e.ok \in BOOLEAN
    <3>1. Stored \subseteq 1 .. made
      BY <2>1 DEF EventInv, Shared
    <3>2. rows \subseteq Event /\ Past(rows, day)
      BY <2>1, Zenon DEF TypeInv
    <3> QED
      BY <3>1, <3>2 DEF Stored, Ids, Event, Past
  <2>4. \A r \in Requests : req[r].pc \in {"idle", "open", "filing"}
    BY <2>1 DEF TypeInv, Progress
  <2>5. /\ loop.pc \in {"wait", "bump", "insert", "prune"}
        /\ loop.pc # "insert" => loop.batch = <<>>
    BY <2>1 DEF TypeInv, Round
  <2> QED
    BY <2>2, <2>3, <2>4, <2>5 DEF TypeOK
<1> QED
  BY <1>1, AlwaysGood, PTL

\* Usage is accounted once, for any buffer size and any number of failed
\* statements and crashes: an event is in the buffer, in the loop's batch or in
\* the table, in one of them only, unless it is accounted for as lost; none
\* stays in the buffer over a drain ("a crash loses at most one window",
\* usage.go:12); and an owner's counters add up to the requests let in.
THEOREM UsageAccountedOnce == AuditSpec => []AccountedOnce
<1>1. UsageInv => AccountedOnce
  <2> SUFFICES ASSUME UsageInv PROVE AccountedOnce
    OBVIOUS
  <2>1. TypeInv /\ EventInv /\ CountInv
    BY DEF UsageInv
  <2>2. /\ Shared(Stored, Pending, Taken, lost, made) /\ Distinct(buf) /\ Distinct(loop.batch)
        /\ passed \cap Pending = {}
    BY <2>1 DEF EventInv
  <2>3. made \in Nat /\ buf \in Seq(Event) /\ loop.batch \in Seq(Event)
    BY <2>1 DEF TypeInv, Round
  <2>4. Cardinality(Pending) = Len(buf) /\ Cardinality(Taken) = Len(loop.batch)
    BY <2>2, <2>3, IdsAre, CountIds DEF Pending, Taken
  <2>5. Cardinality(Stored) + Cardinality(Pending) + Cardinality(Taken) + Cardinality(lost) = made
    BY <2>2, <2>3, Sizes
  <2>6. Stored \cup Pending \cup Taken \cup lost = 1 .. made
    BY <2>2 DEF Shared
  <2> QED
    BY <2>1, <2>2, <2>4, <2>5, <2>6 DEF AccountedOnce, CountInv
<1> QED
  BY <1>1, AlwaysGood, PTL

\* The activity list is the last events filed, newest first, those of the
\* caller's owners only and as many as asked for (clientkeys.go: recentWhere),
\* for any size of the ring and however often it wraps.
THEOREM ActivityIsInOrder == AuditSpec => []ActivityNewestFirst
<1>1. RingInv => ActivityNewestFirst
  <2> SUFFICES ASSUME RingInv PROVE ActivityNewestFirst
    OBVIOUS
  <2>1. ASSUME NEW n, NEW keep
        PROVE  Recent(n, keep) =
                 FirstFew(SelectSeq(Reverse(LastFew(filed, RingSize)), LAMBDA e : e.owner \in keep), n)
    BY RingReads DEF Recent, FirstFew
  <2> QED
    BY <2>1 DEF ActivityNewestFirst
<1> QED
  BY <1>1, RingAlways, PTL

\* The usage log is paged by offset while requests keep coming in (usage_report.go:
\* UsageRequests): for any page size, table and filter, a walk to the last page
\* has shown every request that was there when it began, unless rows were
\* pruned under it.
THEOREM LogWalkIsComplete == AuditSpec => []WalkMissesNothing
<1>1. ReportShape /\ WalkInv => WalkMissesNothing
  <2> SUFFICES ASSUME ReportShape, WalkInv, rep.pc = "shown", rep.kind = "log", ~pruned,
                      NEW e \in Matching(rep) \cap asked
               PROVE  e \in rep.seen
    BY DEF WalkMissesNothing
  <2>1. rep \in Walk
    BY OthersDoNotWalk DEF ReportShape, NoReport
  <2>2. e \in Within(rows, rep) \cap asked
    BY DEF Matching, Within
  <2> QED
    BY <2>1, <2>2 DEF WalkInv, WalkGood
<1> QED
  BY <1>1, WalksAlways, PTL

\* A report over a table that does not change under it is consistent
\* (usage_report.go: UsageOverview, UsageSeriesByGroup), for any table, bucket
\* size, zone and number of named series: the overview finds its percentile and
\* its buckets add up to its totals; every request is in exactly one series.
THEOREM ReportsAreConsistent == AuditSpec => []ReportsAddUp
<1>1. Table(rows) /\ ReportShape /\ ZoneInv /\ FiguresInv => ReportsAddUp
  <2> SUFFICES ASSUME Table(rows), ReportShape, ZoneInv, FiguresInv,
                      rep.pc \in {"shown", "failed"}, rep.kind # "log", ~written
               PROVE  ReportsAddUp
    BY DEF ReportsAddUp
  <2>1. Overview(rep) \/ Series(rep)
    <3>1. rep # NoReport /\ rep \notin Walk /\ ~JustAsked(rep)
      BY DEF NoReport, Walk, JustAsked
    <3> QED
      BY <3>1 DEF ReportShape, Other
  <2>2. FromZone(rows)
    BY DEF ZoneInv
  <2>3. PICK q, t, points : q = rep /\ t = rows /\ points = rep.points
    OBVIOUS
  <2>4. PICK es : es = Within(t, q) /\ es = Matching(rep)
    BY <2>3 DEF Within, Matching
  <2>5. CASE Overview(rep)
    <3>1. OverviewGood(q, t) /\ q.kind = "overview" /\ q.range \in Ranges
      BY <2>3, <2>5 DEF FiguresInv, Overview
    <3>2. q.pc = "shown" /\ points = Counted(q, t)
      BY <2>3, <3>1 DEF OverviewGood
    <3>3. /\ Total([b \in DOMAIN points |-> points[b][1]]) = Cardinality(es)
          /\ Total([b \in DOMAIN points |-> points[b][2]]) = Cardinality(Errors(es))
      BY <2>2, <2>3, <2>4, <3>1, <3>2, OverviewSums
    <3>4. q.requests = Cardinality(es) /\ q.errors = Cardinality(Errors(es))
      BY <2>4, <3>1 DEF OverviewGood
    <3>5. es \ Errors(es) # {} => Percentile(es \ Errors(es), q.p95)
      BY <2>4, <3>1, <3>2 DEF OverviewGood, Successes
    <3> QED
      BY <2>3, <2>4, <3>1, <3>2, <3>3, <3>4, <3>5, Zenon DEF ReportsAddUp, Total, Percentile, Below
  <2>6. CASE Series(rep)
    <3>1. SeriesGood(q, t) /\ q.kind = "series" /\ q.range \in Ranges
      BY <2>3, <2>6 DEF FiguresInv, Series
    <3>2. q.pc = "shown"
      BY <2>3, <2>6 DEF Series
    <3>3. Total([b \in DOMAIN points |-> Total(points[b])]) = Cardinality(es)
      <4>1. CASE es = {} /\ points = <<>>
        BY <4>1, NothingAddsUp, FS_EmptySet
      <4>2. CASE points = Plotted(q, t)
        BY <2>2, <2>3, <2>4, <3>1, <4>2, SeriesSums DEF SeriesGood
      <4> QED
        BY <2>3, <2>4, <3>1, <3>2, <4>1, <4>2 DEF SeriesGood
    <3> QED
      BY <2>3, <2>4, <3>1, <3>3, Zenon DEF ReportsAddUp, Total
  <2> QED
    BY <2>1, <2>5, <2>6
<1> QED
  BY <1>1, FiguresAlways, PTL
=============================================================================
