-------------------------- MODULE RateBreakerProofs --------------------------
(***************************************************************************)
(* Theorems about the rate-limit breaker, for any windows, backoffs, keys, *)
(* models and age of the clock readings.                                   *)
(***************************************************************************)
EXTENDS RateBreakerAudit, FiniteSetTheorems, FunctionTheorems, WellFoundedInduction, TLAPS

-----------------------------------------------------------------------------
(***************************************************************************)
(* Powers of two.                                                          *)
(***************************************************************************)
\* A set of naturals that is not empty has a least member.
LEMMA NatHasLeast ==
  ASSUME NEW T, T \subseteq Nat, T # {}
  PROVE  \E n \in T : \A k \in T : n =< k
<1>1. PICK n \in T : \A k \in T : ~(<<k, n>> \in OpToRel(<, Nat))
  BY WFMin, NatLessThanWellFounded
<1>2. ASSUME NEW k \in T PROVE n =< k
  <2>1. ~(k < n)
    BY <1>1 DEF OpToRel
  <2> QED
    BY <2>1
<1> QED
  BY <1>2

\* f holds the powers of two from 0 to n.
Powers(f, n) == f \in [0 .. n -> Nat] /\ f[0] = 1 /\ \A i \in 1 .. n : f[i] = 2 * f[i - 1]

\* There is a table of the powers of two up to any n.
LEMMA PowersExist ==
  ASSUME NEW n \in Nat
  PROVE  \E f : Powers(f, n)
<1> DEFINE T == {k \in Nat : ~ \E f : Powers(f, k)}
<1>1. SUFFICES ASSUME T # {} PROVE FALSE
  OBVIOUS
<1>2. PICK k \in T : \A j \in T : k =< j
  BY <1>1, NatHasLeast
<1>3. CASE k = 0
  <2>1. Powers([i \in 0 .. 0 |-> 1], 0)
    BY DEF Powers
  <2> QED
    BY <1>3, <2>1
<1>4. CASE k > 0
  <2>1. k - 1 \in Nat /\ k - 1 \notin T
    BY <1>2, <1>4
  <2>2. PICK f : Powers(f, k - 1)
    BY <2>1
  <2> DEFINE g == [i \in 0 .. k |-> IF i = k THEN 2 * f[k - 1] ELSE f[i]]
  <2>3. f[k - 1] \in Nat
    BY <2>1, <2>2 DEF Powers
  <2>4. g \in [0 .. k -> Nat]
    BY <2>2, <2>3 DEF Powers
  <2>5. g[0] = 1
    BY <1>4, <2>2 DEF Powers
  <2>6. \A i \in 1 .. k : g[i] = 2 * g[i - 1]
    BY <1>4, <2>2 DEF Powers
  <2>7. Powers(g, k)
    BY <2>4, <2>5, <2>6 DEF Powers
  <2> QED
    BY <2>7
<1> QED
  BY <1>3, <1>4

\* Two such tables agree where both are defined.
LEMMA PowersUnique ==
  ASSUME NEW n \in Nat, NEW m \in Nat, NEW f, NEW g, Powers(f, n), Powers(g, m),
         NEW i \in Nat, i =< n, i =< m
  PROVE  f[i] = g[i]
<1> DEFINE T == {k \in Nat : k =< n /\ k =< m /\ f[k] # g[k]}
<1>1. SUFFICES ASSUME T # {} PROVE FALSE
  OBVIOUS
<1>2. PICK k \in T : \A j \in T : k =< j
  BY <1>1, NatHasLeast
<1>3. CASE k = 0
  BY <1>3 DEF Powers
<1>4. CASE k > 0
  <2>1. k - 1 \in Nat /\ k - 1 \notin T
    BY <1>2, <1>4
  <2>2. f[k - 1] = g[k - 1]
    BY <2>1
  <2>3. f[k] = 2 * f[k - 1] /\ g[k] = 2 * g[k - 1]
    BY <1>4 DEF Powers
  <2> QED
    BY <2>2, <2>3
<1> QED
  BY <1>3, <1>4

\* Doubled is what its definition says.
LEMMA DoubledDefined ==
  /\ Doubled \in [Nat -> Nat] /\ Doubled[0] = 1
  /\ \A n \in Nat : Doubled[n + 1] = 2 * Doubled[n]
<1> DEFINE F(n) == CHOOSE f : Powers(f, n)
           g == [n \in Nat |-> F(n)[n]]
<1>1. ASSUME NEW n \in Nat PROVE Powers(F(n), n)
  BY PowersExist
<1> HIDE DEF F
<1>2. g \in [Nat -> Nat]
  <2>1. ASSUME NEW n \in Nat PROVE F(n)[n] \in Nat
    BY <1>1 DEF Powers
  <2> QED
    BY <2>1
<1>3. g[0] = 1
  BY <1>1 DEF Powers
<1>4. ASSUME NEW n \in Nat, n # 0 PROVE g[n] = 2 * g[n - 1]
  <2>1. n - 1 \in Nat
    BY <1>4
  <2>2. F(n)[n] = 2 * F(n)[n - 1]
    BY <1>1, <1>4 DEF Powers
  <2>3. F(n)[n - 1] = F(n - 1)[n - 1]
    BY <1>1, <2>1, PowersUnique
  <2> QED
    BY <2>1, <2>2, <2>3
<1>5. g = [n \in Nat |-> IF n = 0 THEN 1 ELSE 2 * g[n - 1]]
  BY <1>3, <1>4
<1> HIDE DEF g
<1>6. Doubled = [n \in Nat |-> IF n = 0 THEN 1 ELSE 2 * Doubled[n - 1]]
  BY <1>5 DEF Doubled
<1>7. Doubled = g
  <2> DEFINE T == {n \in Nat : Doubled[n] # g[n]}
  <2>1. ASSUME T # {} PROVE FALSE
    <3>1. PICK k \in T : \A j \in T : k =< j
      BY <2>1, NatHasLeast
    <3>2. CASE k = 0
      BY <1>5, <1>6, <3>2
    <3>3. CASE k > 0
      <4>1. k - 1 \in Nat /\ k - 1 \notin T
        BY <3>1, <3>3
      <4>2. Doubled[k - 1] = g[k - 1]
        BY <4>1
      <4> QED
        BY <1>5, <1>6, <3>3, <4>2
    <3> QED
      BY <3>2, <3>3
  <2> QED
    BY <1>5, <1>6, <2>1
<1>8. \A n \in Nat : Doubled[n + 1] = 2 * Doubled[n]
  BY <1>4, <1>7
<1> QED
  BY <1>2, <1>3, <1>7, <1>8

\* Powers of two are positive and grow with the exponent.
LEMMA DoubledGrows ==
  ASSUME NEW n \in Nat, NEW k \in Nat, n =< k
  PROVE  Doubled[n] =< Doubled[k] /\ Doubled[n] \in Nat \ {0}
<1>1. ASSUME NEW j \in Nat PROVE Doubled[j] \in Nat \ {0}
  <2> DEFINE T == {i \in Nat : Doubled[i] = 0}
  <2>1. ASSUME T # {} PROVE FALSE
    <3>1. PICK i \in T : \A l \in T : i =< l
      BY <2>1, NatHasLeast
    <3>2. i - 1 \in Nat /\ i - 1 \notin T
      BY <3>1, DoubledDefined
    <3>3. Doubled[i] = 2 * Doubled[i - 1] /\ Doubled[i - 1] \in Nat
      BY <3>2, DoubledDefined
    <3> QED
      BY <3>1, <3>2, <3>3
  <2> QED
    BY <2>1, DoubledDefined
<1>2. ASSUME NEW j \in Nat PROVE Doubled[j] =< Doubled[j + 1]
  BY <1>1, DoubledDefined
<1>3. Doubled[n] =< Doubled[k]
  <2> DEFINE T == {i \in Nat : n =< i /\ ~(Doubled[n] =< Doubled[i])}
  <2>1. ASSUME T # {} PROVE FALSE
    <3>1. PICK i \in T : \A l \in T : i =< l
      BY <2>1, NatHasLeast
    <3>2. i # n
      BY <1>1
    <3>3. i - 1 \in Nat /\ n =< i - 1 /\ i - 1 \notin T
      BY <3>1, <3>2
    <3>4. Doubled[n] =< Doubled[i - 1] /\ Doubled[i - 1] =< Doubled[(i - 1) + 1]
      BY <1>2, <3>3
    <3> QED
      BY <1>1, <3>3, <3>4
  <2> QED
    BY <2>1
<1> QED
  BY <1>1, <1>3

-----------------------------------------------------------------------------
(***************************************************************************)
(* The bookkeeping of one entry.                                           *)
(***************************************************************************)
\* An entry that is well formed at time n.  A running or ended trip holds no
\* hits, and an entry was touched at most ClockLag before its latest hit: the
\* readings two callers bring may be out of order.
GoodEntry(e, n) ==
  /\ e \in ModelBreaker
  /\ ~e.live => e = NoEntry
  /\ e.tripped => e.hits = NoHits
  /\ e.touched =< n
  /\ \A k \in KeyHashes : e.hits[k] =< n /\ e.hits[k] =< e.touched + ClockLag

BreakerInv ==
  /\ now \in Nat \ {0}
  /\ DOMAIN breaker = Models /\ breaker = [m \in Models |-> breaker[m]]
  /\ \A m \in Models : GoodEntry(breaker[m], now)

\* A record429 that is under way: its entry, key, cooldowns and reading.
LEMMA ReadingIsRecent ==
  ASSUME now \in Nat \ {0}, NEW t \in Reading
  PROVE  t \in Nat \ {0} /\ t =< now /\ now =< t + ClockLag
  BY BreakerAssumption DEF Reading

\* A new entry, and an absent one, are well formed.
LEMMA NewEntryGood ==
  ASSUME NEW n \in Nat
  PROVE  GoodEntry(NewEntry, n) /\ GoodEntry(NoEntry, n) /\ ~NoEntry.live /\ NewEntry.live
<1>1. NoHits \in [KeyHashes -> Nat] /\ \A k \in KeyHashes : NoHits[k] = 0
  BY DEF NoHits
<1>2. NewEntry \in ModelBreaker /\ NoEntry \in ModelBreaker
  <2>1. 0 \in 0 .. MaxBackoff /\ 0 \in Nat
    BY BreakerAssumption
  <2>2. NewEntry \in ModelBreaker
    BY <1>1, <2>1 DEF NewEntry, ModelBreaker
  <2> QED
    BY <2>2 DEF NoEntry, ModelBreaker
<1>3. /\ NewEntry.live /\ ~NoEntry.live /\ ~NewEntry.tripped /\ ~NoEntry.tripped
      /\ NewEntry.hits = NoHits /\ NoEntry.hits = NoHits
      /\ NewEntry.touched = 0 /\ NoEntry.touched = 0
  BY DEF NewEntry, NoEntry
<1> QED
  BY <1>1, <1>2, <1>3, BreakerAssumption DEF GoodEntry

\* Pruning leaves a well-formed entry.
LEMMA PrunedGood ==
  ASSUME NEW n \in Nat, NEW e, GoodEntry(e, n), NEW t
  PROVE  GoodEntry(Pruned(e, t), n)
  BY NewEntryGood DEF Pruned

\* The entry record429 works on.
Current(e, t) ==
  LET old == Pruned(e, t)
  IN  IF ~old.live \/ (old.tripped /\ old.openUntil =< t) THEN NewEntry ELSE old

\* The entry record429 works on is well formed and present.
LEMMA CurrentGood ==
  ASSUME NEW n \in Nat, NEW e, GoodEntry(e, n), NEW t
  PROVE  GoodEntry(Current(e, t), n) /\ Current(e, t).live
  BY NewEntryGood, PrunedGood DEF Current

\* The backoffs Extended and Counted compute.
LEMMA Backoffs ==
  ASSUME NEW a \in Nat, NEW b \in Nat
  PROVE  /\ Smaller(Larger(a, b), MaxBackoff) \in 0 .. MaxBackoff
         /\ Smaller(Larger(Larger(a, b), MinBackoff), MaxBackoff) \in MinBackoff .. MaxBackoff
         /\ Larger(a, b) \in Nat /\ Larger(a, b) >= a /\ Larger(a, b) >= b
         /\ Larger(a, b) = a \/ Larger(a, b) = b
  BY BreakerAssumption DEF Smaller, Larger

\* A further 429 during a trip extends it, and its backoff grows at most once
\* per window.
LEMMA ExtendedIs ==
  ASSUME NEW n \in Nat, NEW e, GoodEntry(e, n), e.live, e.tripped,
         NEW cool \in Nat, NEW t \in Nat, t =< n, n =< t + ClockLag
  PROVE  LET f == Extended(e, cool, t)
             grows == t >= e.grownAt + Window
         IN  /\ GoodEntry(f, n) /\ f.live /\ f.tripped /\ f.touched = t /\ f.hits = NoHits
             /\ f.openUntil = Larger(e.openUntil, t + f.backoff)
             /\ f.backoff = IF grows THEN Smaller(Larger(2 * e.backoff, cool), MaxBackoff)
                            ELSE e.backoff
             /\ f.grownAt = IF grows THEN t ELSE e.grownAt
<1> DEFINE f == Extended(e, cool, t)
           grows == t >= e.grownAt + Window
           backoff == IF grows THEN Smaller(Larger(2 * e.backoff, cool), MaxBackoff)
                      ELSE e.backoff
<1>0. /\ e \in ModelBreaker /\ e.backoff \in 0 .. MaxBackoff /\ e.openUntil \in Nat
      /\ e.grownAt \in Nat /\ e.hits = NoHits
  BY DEF GoodEntry, ModelBreaker
<1>1. backoff \in 0 .. MaxBackoff /\ backoff \in Nat
  <2>1. 2 * e.backoff \in Nat
    BY <1>0, BreakerAssumption
  <2>2. Smaller(Larger(2 * e.backoff, cool), MaxBackoff) \in 0 .. MaxBackoff
    BY <2>1, Backoffs
  <2>3. backoff \in 0 .. MaxBackoff
    BY <1>0, <2>2
  <2> QED
    BY <2>3, BreakerAssumption
<1>2. f = [e EXCEPT !.touched = t, !.backoff = backoff,
                    !.grownAt = IF grows THEN t ELSE @,
                    !.openUntil = Larger(@, t + backoff)]
  BY DEF Extended
<1>3. Larger(e.openUntil, t + backoff) \in Nat
  <2>1. t + backoff \in Nat
    BY <1>1
  <2> QED
    BY <1>0, <2>1, Backoffs
<1> HIDE DEF f, backoff
<1>4. /\ f \in ModelBreaker /\ f.live = e.live /\ f.tripped = e.tripped /\ f.touched = t
      /\ f.hits = e.hits /\ f.openUntil = Larger(e.openUntil, t + backoff)
      /\ f.backoff = backoff /\ f.grownAt = IF grows THEN t ELSE e.grownAt
  BY <1>0, <1>1, <1>2, <1>3 DEF ModelBreaker
<1>5. \A k \in KeyHashes : f.hits[k] = 0
  BY <1>0, <1>4 DEF NoHits
<1>6. GoodEntry(f, n)
  BY <1>0, <1>4, <1>5, BreakerAssumption DEF GoodEntry
<1> QED
  BY <1>0, <1>4, <1>6 DEF f, backoff

\* The hits that are kept are not from the future.
LEMMA RecentHitsAre ==
  ASSUME NEW n \in Nat, NEW e, GoodEntry(e, n), NEW h \in KeyHashes,
         NEW t \in Nat \ {0}, t =< n, n =< t + ClockLag
  PROVE  /\ RecentHits(e, h, t) \in [KeyHashes -> Nat]
         /\ \A k \in KeyHashes : /\ RecentHits(e, h, t)[k] =< n
                                 /\ RecentHits(e, h, t)[k] =< t + ClockLag
<1>1. e.hits \in [KeyHashes -> Nat] /\ \A k \in KeyHashes : e.hits[k] =< n
  BY DEF GoodEntry, ModelBreaker
<1>2. ASSUME NEW k \in KeyHashes
      PROVE  RecentHits(e, h, t)[k] \in {t, e.hits[k], 0}
  BY <1>2 DEF RecentHits
<1>3. RecentHits(e, h, t) = [k \in KeyHashes |-> RecentHits(e, h, t)[k]]
  BY DEF RecentHits
<1> QED
  BY <1>1, <1>2, <1>3, BreakerAssumption

\* A 429 outside a trip is counted; the last distinct key trips the breaker,
\* for at least the minimum and at most the maximum.
LEMMA CountedIs ==
  ASSUME NEW n \in Nat, NEW e, GoodEntry(e, n), e.live, ~e.tripped,
         NEW h \in KeyHashes, NEW cool \in Nat, NEW floor \in Nat,
         NEW t \in Nat \ {0}, t =< n, n =< t + ClockLag
  PROVE  LET f == Counted(e, h, cool, floor, t)
             hits == RecentHits(e, h, t)
         IN  /\ GoodEntry(f, n) /\ f.live /\ f.touched = t
             /\ Cardinality(HitKeys(hits)) < DistinctKeys => ~f.tripped /\ f.hits = hits
             /\ ~(Cardinality(HitKeys(hits)) < DistinctKeys) =>
                  /\ f.tripped /\ f.hits = NoHits /\ f.grownAt = t
                  /\ f.backoff \in MinBackoff .. MaxBackoff /\ f.openUntil = t + f.backoff
<1> DEFINE f == Counted(e, h, cool, floor, t)
           hits == RecentHits(e, h, t)
           longest == LongestCool(e, h, cool, t)
           backoff == Smaller(Larger(Larger(longest, floor), MinBackoff), MaxBackoff)
           few == Cardinality(HitKeys(hits)) < DistinctKeys
<1>0. e \in ModelBreaker /\ e.maxCool \in Nat
  BY DEF GoodEntry, ModelBreaker
<1>1. longest \in Nat
  BY <1>0, Backoffs DEF LongestCool
<1>2. backoff \in MinBackoff .. MaxBackoff /\ backoff \in 0 .. MaxBackoff /\ backoff \in Nat
  <2>1. backoff \in MinBackoff .. MaxBackoff
    BY <1>1, Backoffs
  <2> QED
    BY <2>1, BreakerAssumption
<1>3. /\ hits \in [KeyHashes -> Nat]
      /\ \A k \in KeyHashes : hits[k] =< n /\ hits[k] =< t + ClockLag
  BY RecentHitsAre
<1>4. f = IF few
          THEN [e EXCEPT !.touched = t, !.hits = hits, !.maxCool = longest]
          ELSE [e EXCEPT !.touched = t, !.hits = NoHits, !.maxCool = 0, !.tripped = TRUE,
                         !.backoff = backoff, !.openUntil = t + backoff, !.grownAt = t]
  BY DEF Counted
<1> HIDE DEF f, hits, longest, backoff
<1>5. CASE few
  <2>1. /\ f \in ModelBreaker /\ f.live = e.live /\ f.tripped = e.tripped
        /\ f.touched = t /\ f.hits = hits
    BY <1>0, <1>1, <1>3, <1>4, <1>5 DEF ModelBreaker
  <2>2. GoodEntry(f, n)
    BY <1>3, <2>1 DEF GoodEntry
  <2> QED
    BY <1>5, <2>1, <2>2 DEF f, hits
<1>6. CASE ~few
  <2>1. NoHits \in [KeyHashes -> Nat] /\ \A k \in KeyHashes : NoHits[k] = 0
    BY DEF NoHits
  <2>a. t + backoff \in Nat /\ t \in Nat /\ 0 \in Nat
    BY <1>2
  <2>b. f = [e EXCEPT !.touched = t, !.hits = NoHits, !.maxCool = 0, !.tripped = TRUE,
                      !.backoff = backoff, !.openUntil = t + backoff, !.grownAt = t]
    BY <1>4, <1>6
  <2>2. /\ f \in ModelBreaker /\ f.live = e.live /\ f.tripped /\ f.hits = NoHits
        /\ f.touched = t /\ f.grownAt = t /\ f.backoff = backoff /\ f.openUntil = t + backoff
    BY <1>0, <1>2, <2>a, <2>b, <2>1 DEF ModelBreaker
  <2>3. GoodEntry(f, n)
    BY <2>1, <2>2, BreakerAssumption DEF GoodEntry
  <2> QED
    BY <1>2, <1>6, <2>2, <2>3 DEF f, hits
<1> QED
  BY <1>5, <1>6

\* After record429 the entry is present, well formed and touched at the
\* reading.
LEMMA FiledGood ==
  ASSUME NEW n \in Nat, NEW e, GoodEntry(e, n), NEW h \in KeyHashes,
         NEW cool \in Nat, NEW floor \in Nat,
         NEW t \in Nat \ {0}, t =< n, n =< t + ClockLag
  PROVE  LET f == Filed(e, h, cool, floor, t)
         IN  GoodEntry(f, n) /\ f.live /\ f.touched = t
<1>1. Filed(e, h, cool, floor, t) = IF Current(e, t).tripped THEN Extended(Current(e, t), cool, t)
                                    ELSE Counted(Current(e, t), h, cool, floor, t)
  BY DEF Filed, Current
<1>2. GoodEntry(Current(e, t), n) /\ Current(e, t).live
  BY CurrentGood
<1>3. CASE Current(e, t).tripped
  BY <1>1, <1>2, <1>3, ExtendedIs
<1>4. CASE ~Current(e, t).tripped
  BY <1>1, <1>2, <1>4, CountedIs
<1> QED
  BY <1>3, <1>4

-----------------------------------------------------------------------------
(***************************************************************************)
(* The map of entries.                                                     *)
(***************************************************************************)
LEMMA InitGood == AuditInit => BreakerInv
<1> SUFFICES ASSUME AuditInit PROVE BreakerInv
  OBVIOUS
<1>1. now = 1 /\ breaker = [m \in Models |-> NoEntry]
  BY DEF AuditInit, Init
<1>2. GoodEntry(NoEntry, 1)
  BY NewEntryGood
<1> QED
  BY <1>1, <1>2 DEF BreakerInv

\* The clock's tick keeps the entries well formed.
LEMMA TickGood ==
  ASSUME BreakerInv, Tick
  PROVE  BreakerInv'
<1>1. now \in Nat \ {0} /\ now' = now + 1 /\ breaker' = breaker
  BY DEF BreakerInv, Tick
<1>2. ASSUME NEW m \in Models PROVE GoodEntry(breaker[m], now + 1)
  <2>1. GoodEntry(breaker[m], now) /\ breaker[m] \in ModelBreaker
    BY DEF BreakerInv, GoodEntry
  <2>2. breaker[m].touched \in Nat /\ breaker[m].hits \in [KeyHashes -> Nat]
    BY <2>1 DEF ModelBreaker
  <2> QED
    BY <1>1, <2>1, <2>2 DEF GoodEntry
<1> QED
  BY <1>1, <1>2 DEF BreakerInv

\* Filing a 429 keeps the entries well formed, and touches the model's.
LEMMA RecordGood ==
  ASSUME BreakerInv, NEW m \in Models, NEW h \in KeyHashes, NEW cool \in Cools,
         NEW floor \in Floors, NEW t \in Reading, Record429(m, h, cool, floor, t)
  PROVE  BreakerInv' /\ breaker'[m].live /\ breaker'[m].touched = t
<1>0. /\ now' = now /\ now \in Nat \ {0} /\ cool \in Nat /\ floor \in Nat
      /\ t \in Nat \ {0} /\ t =< now /\ now =< t + ClockLag
  BY BreakerAssumption, ReadingIsRecent DEF Record429, BreakerInv
<1>1. breaker' = [n \in Models |-> IF n = m THEN Filed(breaker[n], h, cool, floor, t)
                                            ELSE Pruned(breaker[n], t)]
  BY DEF Record429
<1>2. \A n \in Models : GoodEntry(breaker[n], now)
  BY DEF BreakerInv
<1>3. LET f == Filed(breaker[m], h, cool, floor, t)
      IN  GoodEntry(f, now) /\ f.live /\ f.touched = t
  <2>1. GoodEntry(breaker[m], now) /\ now \in Nat
    BY <1>0, <1>2
  <2> HIDE <1>2
  <2> QED
    BY <1>0, <2>1, FiledGood
<1>4. \A n \in Models : GoodEntry(Pruned(breaker[n], t), now)
  BY <1>0, <1>2, PrunedGood
<1> QED
  BY <1>0, <1>1, <1>3, <1>4 DEF BreakerInv

\* A success keeps the entries well formed.
LEMMA SuccessGood ==
  ASSUME BreakerInv, NEW m \in Models, Success(m)
  PROVE  BreakerInv'
<1>1. now' = now /\ breaker' = [breaker EXCEPT ![m] = NoEntry] /\ now \in Nat
  BY DEF Success, BreakerInv
<1>2. GoodEntry(NoEntry, now)
  BY <1>1, NewEntryGood
<1> QED
  BY <1>1, <1>2 DEF BreakerInv

\* Every step keeps the entries well formed.
LEMMA StepGood == BreakerInv /\ [AuditNext]_auditVars => BreakerInv'
<1> SUFFICES ASSUME BreakerInv, [AuditNext]_auditVars PROVE BreakerInv'
  OBVIOUS
<1>1. CASE UNCHANGED auditVars
  BY <1>1 DEF auditVars, BreakerInv
<1> QED
  BY <1>1, TickGood, RecordGood, SuccessGood DEF AuditNext, AuditRecord429

\* Entries are well formed in every reachable state.
LEMMA AlwaysGood == AuditSpec => []BreakerInv
  BY InitGood, StepGood, PTL DEF AuditSpec

\* Every entry stays well formed: no backoff, extended as often as it may be,
\* ever exceeds breakerMaxBackoff.
THEOREM BreakerTypeCorrect == AuditSpec => []TypeOK
<1>1. BreakerInv => TypeOK
  BY DEF BreakerInv, GoodEntry, TypeOK
<1> QED
  BY <1>1, AlwaysGood, PTL

\* breakerIdle: "drops entries untouched this long so client-chosen model
\* strings can't grow the map without bound".  Whenever a 429 is filed, every
\* entry left was touched within Idle or is a running trip.
THEOREM IdleEntriesAreDropped == AuditSpec => IdleEntriesDropped
<1> DEFINE Filing == breaker' # breaker /\ (\E m \in Models : breaker'[m].touched > breaker[m].touched)
           Kept(m) == \/ now =< breaker'[m].touched + Idle + ClockLag
                      \/ Open(breaker'[m], now - ClockLag)
<1>1. ASSUME BreakerInv, [AuditNext]_auditVars, Filing,
             NEW m \in Models, breaker'[m].live
      PROVE  Kept(m)
  <2>1. CASE Tick \/ UNCHANGED auditVars
    BY <1>1, <2>1 DEF Tick, auditVars
  <2>2. ASSUME NEW n \in Models, Success(n) PROVE FALSE
    <3>1. breaker' = [breaker EXCEPT ![n] = NoEntry] /\ NoEntry.touched = 0
      BY <2>2 DEF Success, NoEntry, NewEntry
    <3>2. \A k \in Models : breaker[k].touched \in Nat
      BY <1>1 DEF BreakerInv, GoodEntry, ModelBreaker
    <3>3. PICK k \in Models : breaker'[k].touched > breaker[k].touched
      BY <1>1
    <3>4. CASE k = n
      BY <1>1, <3>1, <3>2, <3>3, <3>4 DEF BreakerInv
    <3>5. CASE k # n
      BY <1>1, <3>1, <3>2, <3>3, <3>5 DEF BreakerInv
    <3> QED
      BY <3>4, <3>5
  <2>3. ASSUME NEW n \in Models, NEW h \in KeyHashes, NEW cool \in Cools, NEW floor \in Floors,
               NEW t \in Reading, Record429(n, h, cool, floor, t)
        PROVE  Kept(m)
    <3>0. now \in Nat \ {0} /\ t \in Nat /\ now =< t + ClockLag /\ Idle \in Nat /\ ClockLag \in Nat
      BY <1>1, ReadingIsRecent, BreakerAssumption DEF BreakerInv
    <3>1. CASE m = n
      <4>1. breaker'[m].touched = t
        BY <1>1, <2>3, <3>1, RecordGood
      <4> QED
        BY <3>0, <4>1
    <3>2. CASE m # n
      <4> DEFINE e == breaker[m]
      <4>1. breaker'[m] = Pruned(e, t)
        BY <2>3, <3>2 DEF Record429
      <4>2. ~NoEntry.live
        BY NewEntryGood
      <4>3. breaker'[m] = e /\ ~(t > e.touched + Idle /\ (~e.tripped \/ e.openUntil =< t))
        BY <1>1, <4>1, <4>2 DEF Pruned
      <4>4. e.touched \in Nat /\ e.openUntil \in Nat /\ e.tripped \in BOOLEAN
        BY <1>1 DEF BreakerInv, GoodEntry, ModelBreaker
      <4>5. CASE ~(t > e.touched + Idle)
        BY <3>0, <4>3, <4>4, <4>5
      <4>6. CASE e.tripped /\ ~(e.openUntil =< t)
        <5>1. now - ClockLag < e.openUntil
          BY <3>0, <4>4, <4>6
        <5> QED
          BY <1>1, <4>3, <4>6, <5>1 DEF Open
      <4> QED
        BY <4>3, <4>4, <4>5, <4>6
    <3> QED
      BY <3>1, <3>2
  <2> QED
    BY <1>1, <2>1, <2>2, <2>3 DEF AuditNext, AuditRecord429
<1>2. BreakerInv /\ [AuditNext]_auditVars => (Filing => \A m \in Models : breaker'[m].live => Kept(m))
  BY <1>1
<1> QED
  BY <1>2, AlwaysGood, PTL DEF AuditSpec, IdleEntriesDropped

-----------------------------------------------------------------------------
(***************************************************************************)
(* How far a backoff grows.                                                *)
(***************************************************************************)
\* Arithmetic with products.
LEMMA Products ==
  ASSUME NEW x \in Nat, NEW y \in Nat, NEW z \in Nat, x =< y
  PROVE  /\ x * z \in Nat /\ y * z \in Nat /\ x * z =< y * z
         /\ y * (2 * z) = 2 * (y * z) /\ (x + 1) * z = x * z + z
         /\ z # 0 => y =< y * z
<1>1. x * z \in Nat /\ y * z \in Nat
  OBVIOUS
<1>2. x * z =< y * z
  <2>1. PICK d \in Nat : y = x + d
    <3>1. y - x \in Nat /\ y = x + (y - x)
      OBVIOUS
    <3> QED
      BY <3>1
  <2>2. y * z = x * z + d * z /\ d * z \in Nat
    BY <2>1
  <2> QED
    BY <1>1, <2>2
<1>3. y * (2 * z) = 2 * (y * z) /\ (x + 1) * z = x * z + z
  OBVIOUS
<1>4. z # 0 => y =< y * z
  <2> SUFFICES ASSUME z # 0 PROVE y =< y * z
    OBVIOUS
  <2>1. z - 1 \in Nat /\ y * z = y + y * (z - 1) /\ y * (z - 1) \in Nat
    OBVIOUS
  <2> QED
    BY <2>1
<1> QED
  BY <1>1, <1>2, <1>3, <1>4

\* The running trip's backoff has doubled n times for some n windows that fit
\* between the trip and the last growth.
TripHistory(e, at, longest) ==
  e.live /\ e.tripped =>
    \E n \in Nat : at + n * Window =< e.grownAt /\ e.backoff =< longest * Doubled[n]

BurstInv ==
  /\ trippedAt \in [Models -> Nat] /\ base \in [Models -> Nat]
  /\ \A m \in Models : TripHistory(breaker[m], trippedAt[m], base[m])

\* Filing a 429 keeps the bound on the backoff that the windows since the
\* trip allow.
LEMMA RecordKeepsHistory ==
  ASSUME BreakerInv, BurstInv, NEW m \in Models, NEW h \in KeyHashes, NEW cool \in Cools,
         NEW floor \in Floors, NEW t \in Reading, AuditRecord429(m, h, cool, floor, t)
  PROVE  BurstInv'
<1> DEFINE e == breaker[m]
           cur == Current(e, t)
           f == Filed(e, h, cool, floor, t)
           begins == f.tripped /\ ~Open(e, t)
<1>0. /\ now \in Nat \ {0} /\ cool \in Nat /\ floor \in Nat /\ GoodEntry(e, now)
      /\ t \in Nat \ {0} /\ t =< now /\ now =< t + ClockLag
      /\ GoodEntry(cur, now) /\ cur.live
  BY BreakerAssumption, ReadingIsRecent, CurrentGood DEF BreakerInv
<1>1. /\ breaker'[m] = f
      /\ \A n \in Models : n # m => breaker'[n] = Pruned(breaker[n], t)
  BY DEF AuditRecord429, Record429
<1>2. /\ trippedAt' = [trippedAt EXCEPT ![m] = IF begins THEN t ELSE @]
      /\ base' = [base EXCEPT ![m] = IF begins THEN f.backoff ELSE Larger(@, cool)]
  BY <1>1 DEF AuditRecord429
<1>3. f = IF cur.tripped THEN Extended(cur, cool, t) ELSE Counted(cur, h, cool, floor, t)
  BY DEF Filed, Current
<1>4. ~NewEntry.tripped /\ ~NoEntry.live
  BY NewEntryGood DEF NewEntry
<1>5. cur.tripped => cur = e /\ Open(e, t)
  BY <1>0, <1>4 DEF Current, Pruned, Open, GoodEntry, ModelBreaker
<1>6. ~cur.tripped => ~Open(e, t)
  BY <1>0, <1>4 DEF Current, Pruned, Open, GoodEntry, ModelBreaker
<1>7. trippedAt' \in [Models -> Nat] /\ base' \in [Models -> Nat]
  <2>1. f.backoff \in Nat
    <3>1. GoodEntry(f, now)
      BY <1>0, FiledGood
    <3> QED
      BY <3>1, BreakerAssumption DEF GoodEntry, ModelBreaker
  <2>2. Larger(base[m], cool) \in Nat
    BY <1>0, Backoffs DEF BurstInv
  <2> HIDE DEF f
  <2> QED
    BY <1>0, <1>2, <2>1, <2>2 DEF BurstInv
<1>8. TripHistory(f, trippedAt'[m], base'[m])
  <2>1. trippedAt'[m] = (IF begins THEN t ELSE trippedAt[m])
        /\ base'[m] = (IF begins THEN f.backoff ELSE Larger(base[m], cool))
    BY <1>2 DEF BurstInv
  <2>2. CASE cur.tripped
    <3> DEFINE b == Larger(base[m], cool)
    <3>1. cur = e /\ f = Extended(e, cool, t) /\ e.live /\ e.tripped /\ ~begins
      BY <1>0, <1>3, <1>5, <2>2
    <3>2. trippedAt'[m] = trippedAt[m] /\ base'[m] = b
      BY <2>1, <3>1
    <3>3. PICK n \in Nat : trippedAt[m] + n * Window =< e.grownAt
                           /\ e.backoff =< base[m] * Doubled[n]
      BY <3>1 DEF BurstInv, TripHistory
    <3>4. /\ e.backoff \in Nat /\ e.grownAt \in Nat
          /\ trippedAt[m] \in Nat /\ base[m] \in Nat /\ Window \in Nat
      BY <1>0, BreakerAssumption DEF GoodEntry, ModelBreaker, BurstInv
    <3>5. b \in Nat /\ b >= base[m] /\ b >= cool
      BY <1>0, <3>4, Backoffs
    <3>6. /\ Doubled[n] \in Nat \ {0} /\ Doubled[n + 1] = 2 * Doubled[n]
          /\ Doubled[n + 1] \in Nat \ {0}
      <4>1. n + 1 \in Nat /\ n =< n + 1
        OBVIOUS
      <4>2. Doubled[n] \in Nat \ {0}
        BY <4>1, DoubledGrows
      <4>3. Doubled[n + 1] = 2 * Doubled[n]
        BY DoubledDefined
      <4> QED
        BY <4>2, <4>3
    <3> HIDE DEF b, f
    <3>7. CASE t >= e.grownAt + Window
      <4>1. f.grownAt = t /\ f.backoff = Smaller(Larger(2 * e.backoff, cool), MaxBackoff)
        BY <1>0, <3>1, <3>7, ExtendedIs
      <4>2. f.backoff =< Larger(2 * e.backoff, cool)
        BY <1>0, <3>4, <4>1, BreakerAssumption DEF Larger, Smaller
      <4>3. /\ base[m] * Doubled[n] =< b * Doubled[n] /\ b * Doubled[n] \in Nat
            /\ base[m] * Doubled[n] \in Nat /\ b * (2 * Doubled[n]) = 2 * (b * Doubled[n])
        BY <3>4, <3>5, <3>6, Products
      <4>4. 2 * e.backoff =< b * Doubled[n + 1]
        BY <3>3, <3>4, <3>6, <4>3
      <4>5. cool =< b * Doubled[n + 1] /\ b * Doubled[n + 1] \in Nat
        <5>1. b =< b * Doubled[n + 1] /\ b * Doubled[n + 1] \in Nat
          BY <3>5, <3>6, Products
        <5> QED
          BY <1>0, <3>5, <5>1
      <4>6. f.backoff =< b * Doubled[n + 1]
        <5>1. f.backoff \in Nat
          <6>1. GoodEntry(f, now)
            BY <1>0, <3>1, ExtendedIs
          <6> QED
            BY <6>1, BreakerAssumption DEF GoodEntry, ModelBreaker
        <5>2. Larger(2 * e.backoff, cool) =< b * Doubled[n + 1]
          BY <4>4, <4>5 DEF Larger
        <5>3. Larger(2 * e.backoff, cool) \in Nat
          BY <1>0, <3>4 DEF Larger
        <5> QED
          BY <4>2, <4>5, <5>1, <5>2, <5>3
      <4>7. trippedAt[m] + (n + 1) * Window =< t /\ n + 1 \in Nat
        <5>1. (n + 1) * Window = n * Window + Window /\ n * Window \in Nat
          BY <3>4, Products
        <5> QED
          BY <1>0, <3>3, <3>4, <3>7, <5>1
      <4> QED
        BY <3>2, <4>1, <4>6, <4>7 DEF TripHistory
    <3>8. CASE ~(t >= e.grownAt + Window)
      <4>1. f.grownAt = e.grownAt /\ f.backoff = e.backoff
        BY <1>0, <3>1, <3>8, ExtendedIs
      <4>2. /\ base[m] * Doubled[n] =< b * Doubled[n] /\ b * Doubled[n] \in Nat
            /\ base[m] * Doubled[n] \in Nat
        BY <3>4, <3>5, <3>6, Products
      <4>3. e.backoff =< b * Doubled[n]
        BY <3>3, <3>4, <4>2
      <4> QED
        BY <3>2, <3>3, <4>1, <4>3 DEF TripHistory
    <3> QED
      BY <3>7, <3>8
  <2>3. CASE ~cur.tripped
    <3>1. f = Counted(cur, h, cool, floor, t) /\ ~Open(e, t)
      BY <1>3, <1>6, <2>3
    <3>2. f.tripped => f.grownAt = t /\ f.backoff \in Nat
      <4>1. f.tripped => f.grownAt = t /\ f.backoff \in MinBackoff .. MaxBackoff
        BY <1>0, <2>3, <3>1, CountedIs
      <4> QED
        BY <4>1, BreakerAssumption
    <3>3. f.tripped => begins
      BY <3>1
    <3> HIDE DEF f
    <3>4. t + 0 * Window =< t /\ (f.backoff \in Nat => f.backoff =< f.backoff * Doubled[0])
      BY <1>0, DoubledDefined, BreakerAssumption
    <3> QED
      BY <2>1, <3>2, <3>3, <3>4 DEF TripHistory
  <2> QED
    BY <2>2, <2>3
<1>9. \A n \in Models : n # m => TripHistory(Pruned(breaker[n], t), trippedAt'[n], base'[n])
  <2>1. \A n \in Models : n # m => trippedAt'[n] = trippedAt[n] /\ base'[n] = base[n]
    BY <1>2 DEF BurstInv
  <2> QED
    BY <1>4, <2>1 DEF BurstInv, TripHistory, Pruned
<1> QED
  BY <1>1, <1>7, <1>8, <1>9 DEF BurstInv

\* Every step keeps that bound.
LEMMA StepKeepsHistory == BreakerInv /\ BurstInv /\ [AuditNext]_auditVars => BurstInv'
<1> SUFFICES ASSUME BreakerInv, BurstInv, [AuditNext]_auditVars PROVE BurstInv'
  OBVIOUS
<1>1. CASE UNCHANGED <<breaker, trippedAt, base>>
  BY <1>1 DEF BurstInv
<1>2. ASSUME NEW m \in Models, Success(m), UNCHANGED <<trippedAt, base>> PROVE BurstInv'
  <2>1. \A n \in Models : breaker'[n] = breaker[n] \/ breaker'[n] = NoEntry
    BY <1>2 DEF Success, BreakerInv
  <2>2. ~NoEntry.live
    BY NewEntryGood
  <2> QED
    BY <1>2, <2>1, <2>2 DEF BurstInv, TripHistory
<1> QED
  BY <1>1, <1>2, RecordKeepsHistory DEF AuditNext, Tick, auditVars

\* If n windows fit into x ticks, the quotient says so.
LEMMA Windows ==
  ASSUME NEW x \in Nat, NEW w \in Nat \ {0}, NEW n \in Nat, n * w =< x
  PROVE  x \div w \in Nat /\ n =< x \div w
<1> DEFINE q == x \div w
<1>1. q \in Nat /\ q * w =< x /\ x < (q + 1) * w
  OBVIOUS
<1> HIDE DEF q
<1>2. SUFFICES ASSUME q + 1 =< n PROVE FALSE
  BY <1>1 DEF q
<1>3. (q + 1) * w =< n * w
  BY <1>1, <1>2, Products
<1> QED
  BY <1>1, <1>3

\* breakerWindow: "a burst of concurrent single-attempt 429s doesn't jump
\* straight to the cap".  However many 429s arrive, and in whatever order
\* their readings are, the backoff doubles at most once per Window.
THEOREM BurstsDoNotCompound == AuditSpec => []BurstDoesNotCompound
<1>1. AuditInit => BurstInv
  <2> SUFFICES ASSUME AuditInit PROVE BurstInv
    OBVIOUS
  <2>1. \A m \in Models : ~breaker[m].live
    BY NewEntryGood DEF AuditInit, Init
  <2> QED
    BY <2>1 DEF AuditInit, BurstInv, TripHistory
<1>2. BreakerInv /\ BurstInv => BurstDoesNotCompound
  <2> SUFFICES ASSUME BreakerInv, BurstInv, NEW m \in Models,
                      breaker[m].live, breaker[m].tripped
               PROVE  breaker[m].backoff =<
                        base[m] * Doubled[(breaker[m].grownAt - trippedAt[m]) \div Window]
    BY DEF BurstDoesNotCompound
  <2> DEFINE e == breaker[m]
             q == (e.grownAt - trippedAt[m]) \div Window
  <2>1. PICK n \in Nat : trippedAt[m] + n * Window =< e.grownAt
                         /\ e.backoff =< base[m] * Doubled[n]
    BY DEF BurstInv, TripHistory
  <2>2. /\ e.grownAt \in Nat /\ e.backoff \in Nat
        /\ trippedAt[m] \in Nat /\ base[m] \in Nat /\ Window \in Nat \ {0}
    BY BreakerAssumption DEF BreakerInv, GoodEntry, ModelBreaker, BurstInv
  <2>3. n * Window \in Nat
    BY <2>2, Products
  <2>4. e.grownAt - trippedAt[m] \in Nat /\ n * Window =< e.grownAt - trippedAt[m]
    BY <2>1, <2>2, <2>3
  <2>5. q \in Nat /\ n =< q
    BY <2>2, <2>4, Windows
  <2> HIDE DEF q
  <2>6. Doubled[n] =< Doubled[q] /\ Doubled[n] \in Nat /\ Doubled[q] \in Nat
    BY <2>5, DoubledGrows
  <2>7. /\ base[m] * Doubled[n] =< base[m] * Doubled[q]
        /\ base[m] * Doubled[n] \in Nat /\ base[m] * Doubled[q] \in Nat
    <3>1. /\ Doubled[n] * base[m] =< Doubled[q] * base[m]
          /\ Doubled[n] * base[m] \in Nat /\ Doubled[q] * base[m] \in Nat
      BY <2>2, <2>6, Products
    <3> QED
      BY <2>2, <2>6, <3>1
  <2>8. e.backoff =< base[m] * Doubled[q]
    BY <2>1, <2>2, <2>7
  <2> QED
    BY <2>8 DEF q
<1> QED
  BY <1>1, <1>2, AlwaysGood, StepKeepsHistory, PTL DEF AuditSpec

-----------------------------------------------------------------------------
(***************************************************************************)
(* The breaker implements its policy.                                      *)
(***************************************************************************)
\* The refinement mapping, for one entry: the 429s of e that may still count
\* at time n, and the end of its single-attempt mode.
Counts(e, n) ==
  {<<h, e.hits[h]>> : h \in {k \in HitKeys(e.hits) : n =< e.hits[k] + Window + ClockLag}}
Ending(e, n) ==
  IF e.live /\ e.tripped /\ n < e.openUntil + ClockLag THEN e.openUntil ELSE 0

recent == [m \in Models |-> Counts(breaker[m], now)]
until == [m \in Models |-> Ending(breaker[m], now)]

\* An entry without hits counts no key.
LEMMA NoHitsCountNothing ==
  ASSUME NEW e, e.hits = NoHits, NEW n
  PROVE  Counts(e, n) = {}
<1>1. \A k \in KeyHashes : NoHits[k] = 0
  BY DEF NoHits
<1>2. HitKeys(e.hits) = {}
  BY <1>1 DEF HitKeys
<1> QED
  BY <1>2 DEF Counts

\* Dropping an idle entry forgets no 429 that counts and no running trip.
LEMMA PruningIsSilent ==
  ASSUME NEW n \in Nat, NEW e, GoodEntry(e, n), NEW t \in Nat, t =< n, n =< t + ClockLag
  PROVE  /\ Counts(Pruned(e, t), n) = Counts(e, n)
         /\ \/ Ending(Pruned(e, t), n) = Ending(e, n)
            \/ Ending(e, n) =< n /\ Ending(Pruned(e, t), n) = 0
<1>0. /\ e.touched \in Nat /\ e.openUntil \in Nat /\ e.hits \in [KeyHashes -> Nat]
      /\ Idle \in Nat /\ Window \in Nat /\ ClockLag \in Nat /\ Window + 2 * ClockLag =< Idle
  BY BreakerAssumption DEF GoodEntry, ModelBreaker
<1>1. CASE Pruned(e, t) = e
  BY <1>1
<1>2. CASE Pruned(e, t) # e
  <2>1. /\ Pruned(e, t) = NoEntry /\ t > e.touched + Idle
        /\ ~e.tripped \/ e.openUntil =< t
    BY <1>2 DEF Pruned
  <2>2. ~NoEntry.live /\ NoEntry.hits = NoHits
    BY DEF NoEntry, NewEntry
  <2>3. Counts(NoEntry, n) = {} /\ Ending(NoEntry, n) = 0
    BY <2>2, NoHitsCountNothing DEF Ending
  <2>4. ASSUME NEW k \in KeyHashes PROVE ~(n =< e.hits[k] + Window + ClockLag)
    <3>1. e.hits[k] \in Nat /\ e.hits[k] =< e.touched + ClockLag
      BY <1>0 DEF GoodEntry
    <3> QED
      BY <1>0, <2>1, <3>1
  <2>5. Counts(e, n) = {}
    BY <2>4 DEF Counts, HitKeys
  <2>6. Ending(e, n) =< n
    BY <1>0, <2>1 DEF Ending
  <2> QED
    BY <2>1, <2>3, <2>5, <2>6
<1> QED
  BY <1>1, <1>2

\* Outside single-attempt mode, the hits record429 keeps are those of the
\* window that the policy counts, one for each key.
LEMMA HitsAreCounted ==
  ASSUME NEW n \in Nat, NEW e, GoodEntry(e, n), NEW h \in KeyHashes,
         NEW t \in Nat \ {0}, t =< n, n =< t + ClockLag, ~Open(e, t)
  PROVE  LET hits == RecentHits(Current(e, t), h, t)
             pairs == {<<k, hits[k]>> : k \in {k \in HitKeys(hits) : n =< hits[k] + Window + ClockLag}}
         IN  /\ pairs = {r \in Counts(e, n) : r[1] # h /\ t =< r[2] + Window} \cup {<<h, t>>}
             /\ Cardinality(pairs) = Cardinality(HitKeys(hits))
<1> DEFINE cur == Current(e, t)
           hits == RecentHits(cur, h, t)
           pairs == {<<k, hits[k]>> : k \in {k \in HitKeys(hits) : n =< hits[k] + Window + ClockLag}}
           counted == {r \in Counts(e, n) : r[1] # h /\ t =< r[2] + Window} \cup {<<h, t>>}
<1>0. /\ e.hits \in [KeyHashes -> Nat] /\ e.touched \in Nat /\ e.openUntil \in Nat
      /\ Idle \in Nat /\ Window \in Nat /\ ClockLag \in Nat /\ Window + 2 * ClockLag =< Idle
  BY BreakerAssumption DEF GoodEntry, ModelBreaker
<1>1. \* what the entry still holds of the window is what it held
      ASSUME NEW k \in KeyHashes
      PROVE  /\ cur.hits[k] \in Nat
             /\ cur.hits[k] > 0 => cur.hits[k] = e.hits[k]
             /\ e.hits[k] > 0 /\ t =< e.hits[k] + Window => cur.hits[k] = e.hits[k]
  <2>1. e.hits[k] \in Nat /\ e.hits[k] =< e.touched + ClockLag
    BY <1>0 DEF GoodEntry
  <2>2. CASE cur = e
    BY <2>1, <2>2
  <2>3. CASE cur # e
    <3>1. cur = NewEntry /\ NewEntry.hits[k] = 0
      <4>1. cur = NewEntry
        BY <2>3, NewEntryGood DEF Current, Pruned
      <4>2. NewEntry.hits = NoHits /\ NoHits[k] = 0
        BY DEF NewEntry, NoHits
      <4> QED
        BY <4>1, <4>2
    <3>2. \/ ~e.live \/ e.tripped \/ t > e.touched + Idle
      BY <2>3 DEF Current, Pruned
    <3>3. ~(e.hits[k] > 0 /\ t =< e.hits[k] + Window)
      <4>1. CASE ~e.live \/ e.tripped
        <5>1. e.hits = NoHits
          BY <4>1 DEF GoodEntry, NoEntry, NewEntry
        <5> QED
          BY <5>1 DEF NoHits
      <4>2. CASE t > e.touched + Idle
        BY <1>0, <2>1, <4>2
      <4> QED
        BY <3>2, <4>1, <4>2
    <3> QED
      BY <3>1, <3>3
  <2> QED
    BY <2>2, <2>3
<1>2. \A k \in KeyHashes : hits[k] = IF k = h THEN t
                                     ELSE IF t =< cur.hits[k] + Window THEN cur.hits[k] ELSE 0
  BY DEF RecentHits
<1> HIDE DEF cur, hits
<1>3. ASSUME NEW k \in KeyHashes, hits[k] > 0
      PROVE  n =< hits[k] + Window + ClockLag
  BY <1>0, <1>1, <1>2, <1>3
<1>4. \A k \in KeyHashes :
        hits[k] > 0 <=> k = h \/ (e.hits[k] > 0 /\ t =< e.hits[k] + Window)
  BY <1>0, <1>1, <1>2
<1>5. \A k \in KeyHashes : k # h /\ hits[k] > 0 => hits[k] = e.hits[k]
  BY <1>0, <1>1, <1>2
<1>6. hits[h] = t
  BY <1>2
<1>7. pairs = {<<k, hits[k]>> : k \in HitKeys(hits)}
  BY <1>3 DEF HitKeys
<1>8. pairs = counted
  <2>1. ASSUME NEW r \in pairs PROVE r \in counted
    <3>1. PICK k \in KeyHashes : hits[k] > 0 /\ r = <<k, hits[k]>> /\ n =< hits[k] + Window + ClockLag
      BY <2>1 DEF HitKeys
    <3>2. CASE k = h
      BY <1>6, <3>1, <3>2
    <3>3. CASE k # h
      <4>1. hits[k] = e.hits[k] /\ e.hits[k] > 0 /\ t =< e.hits[k] + Window
        BY <1>4, <1>5, <3>1, <3>3
      <4>2. r \in Counts(e, n)
        BY <3>1, <4>1 DEF Counts, HitKeys
      <4> QED
        BY <3>1, <3>3, <4>1, <4>2
    <3> QED
      BY <3>2, <3>3
  <2>2. ASSUME NEW r \in counted PROVE r \in pairs
    <3>1. CASE r = <<h, t>>
      BY <1>6, <1>7, <3>1 DEF HitKeys
    <3>2. CASE r \in Counts(e, n) /\ r[1] # h /\ t =< r[2] + Window
      <4>1. PICK k \in KeyHashes : e.hits[k] > 0 /\ r = <<k, e.hits[k]>>
        BY <3>2 DEF Counts, HitKeys
      <4>2. k # h /\ hits[k] > 0 /\ hits[k] = e.hits[k]
        BY <1>4, <1>5, <3>2, <4>1
      <4> QED
        BY <1>7, <4>1, <4>2 DEF HitKeys
    <3> QED
      BY <2>2, <3>1, <3>2
  <2> QED
    BY <2>1, <2>2
<1>9. Cardinality(pairs) = Cardinality(HitKeys(hits))
  <2> DEFINE S == HitKeys(hits)
             f == [k \in S |-> <<k, hits[k]>>]
  <2>1. IsFiniteSet(S)
    BY FS_Subset, BreakerAssumption DEF HitKeys
  <2>2. f \in [S -> pairs]
    BY <1>7
  <2>3. \A a, b \in S : f[a] = f[b] => a = b
    OBVIOUS
  <2>4. \A r \in pairs : \E a \in S : f[a] = r
    BY <1>7
  <2> HIDE DEF f, S, pairs
  <2>5. f \in Bijection(S, pairs)
    BY <2>2, <2>3, <2>4, Fun_IsBij
  <2> QED
    BY <2>1, <2>5, FS_Bijection DEF ExistsBijection, S
<1> QED
  BY <1>8, <1>9 DEF cur, hits

\* The breaker starts as the policy does.
LEMMA InitImplements == AuditInit => Policy!Init
<1> SUFFICES ASSUME AuditInit PROVE Policy!Init
  OBVIOUS
<1>1. now = 1 /\ breaker = [m \in Models |-> NoEntry]
  BY DEF AuditInit, Init
<1>2. NoEntry.hits = NoHits /\ ~NoEntry.live
  BY DEF NoEntry, NewEntry
<1>3. \A n : Counts(NoEntry, n) = {} /\ Ending(NoEntry, n) = 0
  BY <1>2, NoHitsCountNothing DEF Ending
<1>4. recent = [m \in Models |-> {}] /\ until = [m \in Models |-> 0]
  BY <1>1, <1>3 DEF recent, until
<1> QED
  BY <1>1, <1>4 DEF Policy!Init, recent, until, Counts, Ending

\* Time passes for the entry as it does for the policy.
LEMMA TickImplements ==
  ASSUME BreakerInv, Tick
  PROVE  Policy!Pass
<1>0. now \in Nat \ {0} /\ now' = now + 1 /\ now < MaxNow /\ breaker' = breaker
  BY DEF BreakerInv, Tick
<1>1. ASSUME NEW m \in Models
      PROVE  /\ Counts(breaker[m], now + 1) =
                  {r \in Counts(breaker[m], now) : now + 1 =< r[2] + Window + ClockLag}
             /\ Ending(breaker[m], now + 1) =
                  IF now + 1 < Ending(breaker[m], now) + ClockLag THEN Ending(breaker[m], now) ELSE 0
  <2>1. /\ breaker[m].hits \in [KeyHashes -> Nat] /\ breaker[m].openUntil \in Nat
        /\ Window \in Nat /\ ClockLag \in Nat
    BY BreakerAssumption DEF BreakerInv, GoodEntry, ModelBreaker
  <2> DEFINE e == breaker[m]
  <2>2. \A k \in HitKeys(e.hits) : e.hits[k] \in Nat
    BY <2>1 DEF HitKeys
  <2>3. Counts(e, now + 1) = {r \in Counts(e, now) : now + 1 =< r[2] + Window + ClockLag}
    <3>1. \A k \in HitKeys(e.hits) :
            now + 1 =< e.hits[k] + Window + ClockLag => now =< e.hits[k] + Window + ClockLag
      BY <1>0, <2>1, <2>2
    <3> QED
      BY <3>1 DEF Counts
  <2>4. Ending(e, now + 1) = IF now + 1 < Ending(e, now) + ClockLag THEN Ending(e, now) ELSE 0
    BY <1>0, <2>1 DEF Ending
  <2> QED
    BY <2>3, <2>4
<1>2. /\ recent' = [m \in Models |-> {r \in recent[m] : now' =< r[2] + Window + ClockLag}]
      /\ until' = [m \in Models |-> IF now' < until[m] + ClockLag THEN until[m] ELSE 0]
  BY <1>0, <1>1 DEF recent, until
<1> QED
  BY <1>0, <1>2 DEF Policy!Pass, recent, until, Counts, Ending

\* The policy's instance counts as FiniteSets does.
LEMMA SameCardinality == \A S : Policy!Cardinality(S) = Cardinality(S)
<1>1. \A S : Policy!IsFiniteSet(S) <=> IsFiniteSet(S)
  BY DEF Policy!IsFiniteSet, IsFiniteSet
<1> QED
  BY <1>1 DEF Policy!Cardinality, Cardinality, Policy!IsFiniteSet, IsFiniteSet

\* A 429 prolongs a trip that is running for its reading, and else counts or
\* trips as in the policy.
LEMMA RecordImplements ==
  ASSUME BreakerInv, NEW m \in Models, NEW h \in KeyHashes, NEW cool \in Cools,
         NEW floor \in Floors, NEW t \in Reading, Record429(m, h, cool, floor, t)
  PROVE  Policy!Prolong(m, h, t) \/ Policy!Count(m, h, t) \/ Policy!Trip(m, h, t)
<1> DEFINE e == breaker[m]
           cur == Current(e, t)
           f == Filed(e, h, cool, floor, t)
           hits == RecentHits(cur, h, t)
           counted == {r \in recent[m] : r[1] # h /\ t =< r[2] + Window} \cup {<<h, t>>}
<1>0. /\ now \in Nat \ {0} /\ now' = now /\ cool \in Nat /\ floor \in Nat
      /\ t \in Nat \ {0} /\ t =< now /\ now =< t + ClockLag
      /\ GoodEntry(e, now) /\ GoodEntry(cur, now) /\ cur.live
      /\ ClockLag \in Nat /\ MinBackoff \in Nat \ {0} /\ MaxBackoff \in Nat
      /\ e.openUntil \in Nat /\ e.backoff \in 0 .. MaxBackoff
  <2>1. now \in Nat \ {0} /\ GoodEntry(e, now) /\ cool \in Nat /\ floor \in Nat /\ now' = now
    BY BreakerAssumption DEF BreakerInv, Record429
  <2>2. GoodEntry(cur, now) /\ cur.live
    BY <2>1, CurrentGood
  <2> HIDE DEF cur
  <2> QED
    BY <2>1, <2>2, BreakerAssumption, ReadingIsRecent DEF GoodEntry, ModelBreaker
<1>1. /\ breaker'[m] = f
      /\ \A n \in Models : n # m => breaker'[n] = Pruned(breaker[n], t)
  BY DEF Record429
<1>2. f = IF cur.tripped THEN Extended(cur, cool, t) ELSE Counted(cur, h, cool, floor, t)
  BY DEF Filed, Current
<1>3. ~NewEntry.tripped /\ ~NoEntry.live
  BY NewEntryGood DEF NewEntry
<1>4. cur.tripped => cur = e /\ Open(e, t)
  BY <1>0, <1>3 DEF Current, Pruned, Open, GoodEntry, ModelBreaker
<1>5. ~cur.tripped => ~Open(e, t)
  BY <1>0, <1>3 DEF Current, Pruned, Open, GoodEntry, ModelBreaker
<1>6. \A n \in Models \ {m} :
        /\ recent'[n] = recent[n]
        /\ until'[n] = until[n] \/ (until[n] =< now /\ until'[n] = 0)
  BY <1>0, <1>1, PruningIsSilent DEF BreakerInv, recent, until
<1>7. /\ recent[m] = Counts(e, now) /\ until[m] = Ending(e, now)
      /\ recent'[m] = Counts(f, now) /\ until'[m] = Ending(f, now)
  BY <1>0, <1>1 DEF recent, until
<1>8. recent = [n \in Models |-> recent[n]] /\ recent' = [n \in Models |-> recent'[n]]
  BY DEF recent
<1>9. CASE cur.tripped
  <2>1. cur = e /\ Open(e, t) /\ e.live /\ e.tripped /\ t < e.openUntil
    BY <1>4, <1>9 DEF Open
  <2>2. until[m] = e.openUntil
    BY <1>0, <1>7, <2>1 DEF Ending
  <2>3. f = Extended(e, cool, t)
    BY <1>2, <1>9, <2>1
  <2> HIDE DEF f, cur
  <2>4. /\ f.live /\ f.tripped /\ f.hits = NoHits /\ f.backoff \in 0 .. MaxBackoff
        /\ f.openUntil = Larger(e.openUntil, t + f.backoff)
    <3>1. GoodEntry(f, now) /\ f.live /\ f.tripped /\ f.hits = NoHits
          /\ f.openUntil = Larger(e.openUntil, t + f.backoff)
      <4>1. /\ GoodEntry(e, now) /\ now \in Nat /\ e.live /\ e.tripped
            /\ cool \in Nat /\ t \in Nat /\ t =< now /\ now =< t + ClockLag
        BY <1>0, <2>1
      <4> HIDE DEF e
      <4> QED
        BY <2>3, <4>1, ExtendedIs
    <3> QED
      BY <3>1 DEF GoodEntry, ModelBreaker
  <2>5. f.openUntil \in e.openUntil .. Larger(e.openUntil, t + MaxBackoff)
    BY <1>0, <2>4 DEF Larger
  <2>6. until'[m] = f.openUntil
    BY <1>0, <1>7, <2>1, <2>4, <2>5 DEF Ending, Larger
  <2>7. recent'[m] = recent[m]
    BY <1>0, <1>7, <2>1, <2>4, NoHitsCountNothing DEF GoodEntry
  <2>8. recent' = recent
    BY <1>6, <1>8, <2>7
  <2>9. /\ t < until[m]
        /\ until'[m] \in until[m] .. Larger(until[m], t + MaxBackoff)
        /\ \A n \in Models \ {m} : until'[n] = until[n] \/ (until[n] =< now /\ until'[n] = 0)
    BY <1>6, <2>1, <2>2, <2>5, <2>6
  <2>10. Policy!Prolong(m, h, t)
    BY <1>0, <2>8, <2>9
    DEF Policy!Prolong, Policy!Ends, Policy!Later, Larger, recent, until, Counts, Ending
  <2> QED
    BY <2>10
<1>10. CASE ~cur.tripped
  <2>1. until[m] =< t
    BY <1>0, <1>5, <1>7, <1>10 DEF Open, Ending
  <2>2. f = Counted(cur, h, cool, floor, t)
    BY <1>2, <1>10
  <2> DEFINE pairs == {<<k, hits[k]>> : k \in {k \in HitKeys(hits) : now =< hits[k] + Window + ClockLag}}
  <2>3. pairs = counted /\ Cardinality(counted) = Cardinality(HitKeys(hits))
    <3>1. /\ GoodEntry(e, now) /\ now \in Nat /\ t \in Nat \ {0} /\ t =< now
          /\ now =< t + ClockLag /\ ~Open(e, t)
      BY <1>0, <1>5, <1>10
    <3>2. /\ pairs = {r \in Counts(e, now) : r[1] # h /\ t =< r[2] + Window} \cup {<<h, t>>}
          /\ Cardinality(pairs) = Cardinality(HitKeys(hits))
      <4> HIDE DEF e
      <4> QED
        BY <3>1, HitsAreCounted
    <3>3. counted = {r \in Counts(e, now) : r[1] # h /\ t =< r[2] + Window} \cup {<<h, t>>}
      BY <1>7
    <3> HIDE DEF pairs, counted
    <3> QED
      BY <3>2, <3>3
  <2>4. /\ \A n \in Models \ {m} : recent'[n] = recent[n]
        /\ \A n \in Models \ {m} : until'[n] = until[n] \/ (until[n] =< now /\ until'[n] = 0)
    BY <1>6
  <2>a. /\ GoodEntry(cur, now) /\ now \in Nat /\ cur.live /\ ~cur.tripped
        /\ cool \in Nat /\ floor \in Nat /\ t \in Nat \ {0} /\ t =< now /\ now =< t + ClockLag
    BY <1>0, <1>10
  <2>b. \A ends : Policy!Ends(m, ends) <=>
          /\ until'[m] \in ends
          /\ \A n \in Models \ {m} : until'[n] = until[n] \/ (until[n] =< now /\ until'[n] = 0)
    BY DEF Policy!Ends, until, Ending
  <2>c. Policy!Count(m, h, t) <=>
          /\ until[m] =< t /\ Cardinality(counted) < DistinctKeys
          /\ recent' = [recent EXCEPT ![m] = counted] /\ Policy!Ends(m, {0}) /\ now' = now
    BY SameCardinality DEF Policy!Count, Policy!Counted, recent, until, Counts, Ending
  <2>d. Policy!Trip(m, h, t) <=>
          /\ until[m] =< t /\ Cardinality(counted) >= DistinctKeys
          /\ recent' = [recent EXCEPT ![m] = {}]
          /\ Policy!Ends(m, (t + MinBackoff) .. (t + MaxBackoff)) /\ now' = now
    BY SameCardinality DEF Policy!Trip, Policy!Counted, recent, until, Counts, Ending
  <2> HIDE DEF f, cur, counted, pairs
  <2>5. CASE Cardinality(HitKeys(hits)) < DistinctKeys
    <3>1. ~f.tripped /\ f.hits = hits
      BY <2>a, <2>2, <2>5, CountedIs
    <3>2. until'[m] = 0 /\ recent'[m] = counted
      BY <1>7, <2>3, <3>1 DEF Ending, Counts, pairs
    <3>3. recent' = [recent EXCEPT ![m] = counted]
      BY <1>8, <2>4, <3>2
    <3>4. Cardinality(counted) < DistinctKeys
      BY <2>3, <2>5
    <3>5. Policy!Count(m, h, t)
      BY <1>0, <2>b, <2>c, <2>1, <2>4, <3>2, <3>3, <3>4
    <3> QED
      BY <3>5
  <2>6. CASE ~(Cardinality(HitKeys(hits)) < DistinctKeys)
    <3>1. /\ f.live /\ f.tripped /\ f.hits = NoHits
          /\ f.backoff \in MinBackoff .. MaxBackoff /\ f.openUntil = t + f.backoff
      BY <2>a, <2>2, <2>6, CountedIs
    <3>2. until'[m] = f.openUntil /\ f.openUntil \in (t + MinBackoff) .. (t + MaxBackoff)
      BY <1>0, <1>7, <3>1 DEF Ending
    <3>3. recent'[m] = {}
      BY <1>7, <3>1, NoHitsCountNothing
    <3>4. recent' = [recent EXCEPT ![m] = {}]
      BY <1>8, <2>4, <3>3
    <3>5. Cardinality(counted) >= DistinctKeys
      <4>1. IsFiniteSet(HitKeys(hits))
        BY FS_Subset, BreakerAssumption DEF HitKeys
      <4>2. Cardinality(HitKeys(hits)) \in Nat
        BY <4>1, FS_CardinalityType
      <4> QED
        BY <2>3, <2>6, <4>2, BreakerAssumption
    <3>6. Policy!Trip(m, h, t)
      BY <1>0, <2>b, <2>d, <2>1, <2>4, <3>2, <3>4, <3>5
    <3> QED
      BY <3>6
  <2> QED
    BY <2>5, <2>6
<1> QED
  BY <1>9, <1>10

\* A success is the policy's recovery.
LEMMA SuccessImplements ==
  ASSUME BreakerInv, NEW m \in Models, Success(m)
  PROVE  Policy!Recover(m)
<1>1. now' = now /\ breaker' = [breaker EXCEPT ![m] = NoEntry]
  BY DEF Success
<1>2. NoEntry.hits = NoHits /\ ~NoEntry.live
  BY DEF NoEntry, NewEntry
<1>3. Counts(NoEntry, now) = {} /\ Ending(NoEntry, now) = 0
  BY <1>2, NoHitsCountNothing DEF Ending
<1>4. recent' = [recent EXCEPT ![m] = {}] /\ until' = [until EXCEPT ![m] = 0]
  BY <1>1, <1>3 DEF recent, until, BreakerInv
<1> QED
  BY <1>1, <1>4 DEF Policy!Recover, recent, until, Counts, Ending

\* Every step of the breaker is a step of the policy, or a stutter.
LEMMA StepImplements ==
  BreakerInv /\ [AuditNext]_auditVars => [Policy!Next]_(Policy!policyVars)
<1> SUFFICES ASSUME BreakerInv, [AuditNext]_auditVars
             PROVE  [Policy!Next]_(Policy!policyVars)
  OBVIOUS
<1>1. CASE Tick
  BY <1>1, TickImplements DEF Policy!Next
<1>2. ASSUME NEW m \in Models, NEW h \in KeyHashes, NEW cool \in Cools, NEW floor \in Floors,
             NEW t \in Reading, AuditRecord429(m, h, cool, floor, t)
      PROVE  Policy!Next
  <2>1. t \in Policy!Reading
    BY DEF Reading, Policy!Reading
  <2>2. Policy!Prolong(m, h, t) \/ Policy!Count(m, h, t) \/ Policy!Trip(m, h, t)
    BY <1>2, RecordImplements DEF AuditRecord429
  <2> QED
    BY <2>1, <2>2 DEF Policy!Next
<1>3. ASSUME NEW m \in Models, Success(m) PROVE Policy!Next
  BY <1>3, SuccessImplements DEF Policy!Next
<1>4. CASE UNCHANGED auditVars
  BY <1>4 DEF auditVars, Policy!policyVars
<1> QED
  BY <1>1, <1>2, <1>3, <1>4 DEF AuditNext

\* The package comment of ratelimit.go: two distinct keys that answer 429
\* within breakerWindow put the model into single-attempt mode, a 200 takes it
\* out.  Windows kept per key, lazy expiry and pruning implement that: no 429
\* that counts is forgotten, none that does not is remembered, whatever order
\* the readings of the clock arrive in.
THEOREM BreakerImplementsPolicy == AuditSpec => ImplementsPolicy
  BY InitImplements, StepImplements, AlwaysGood, PTL
  DEF AuditSpec, ImplementsPolicy, Policy!Spec

=============================================================================
