--------------------------- MODULE RotationProofs ---------------------------
(***************************************************************************)
(* Theorems about the way of a request: of the rotation loops, for any     *)
(* pool, breaker, budget, loops and number of requests and whatever the    *)
(* upstream answers; and of the stream its client gets, for any            *)
(* conversation and wherever the stream is cut.                            *)
(***************************************************************************)
EXTENDS RotationAudit, ExchangeAudit, FiniteSetTheorems, WellFoundedInduction, TLAPS

\* A walk has contacted each key it excludes once and no other, counts them,
\* and holds one of them while a call is out.
Walk(q) ==
  /\ q \in Request
  /\ \A i \in Slot : q.contacted[i] = IF i \in q.exclude THEN 1 ELSE 0
  /\ q.picked = Cardinality(q.exclude)
  /\ q.pc \in {"call", "file"} =>
       q.key \in q.exclude /\ q.key \in Slot /\ q.attempt < MaxKeysPerRequest
  /\ q.pc = "idle" => ~q.cancelled

TablesInv ==
  /\ typ \in ProviderTypes
  /\ Pool!TypeOK /\ Breaker!TypeOK
  /\ learned \in [Models -> Surfaces \cup {""}]

\* Only zen has loops that retry a key, and those never pass it over.
LoopFits(q) == typ = "zen" /\ q.pc # "idle" => q.loop.flip # "next"

WalksInv ==
  /\ req \in [Requests -> Request]
  /\ \A r \in Requests : Walk(req[r]) /\ LoopFits(req[r])

RotationInv == TablesInv /\ WalksInv

\* What FailoverReachesGoodKey supposes.
Promised ==
  /\ ReliableKeys # {} /\ DailyCap = 0 /\ NumKeys =< MaxKeysPerRequest
  /\ \A s \in Requests : ~req[s].cancelled

\* Nothing was ever filed against the key.
Unblemished(k) ==
  ~k.disabled /\ k.cooldownUntil = 0 /\ \A m \in Models : k.modelCooldown[m] = 0

\* A walk passes no good key over: as long as it goes on it excludes none but
\* the one it is calling, and it spends its budget on keys it excludes.
Fair(q) ==
  /\ q.pc = "next" => q.exclude \cap ReliableKeys = {} /\ q.attempt =< q.picked
  /\ q.pc = "call" => q.exclude \cap ReliableKeys \subseteq {q.key} /\ q.attempt < q.picked
  /\ q.pc = "file" => q.exclude \cap ReliableKeys = {} /\ q.attempt < q.picked
  /\ q.pc = "exhausted" \/ q.end = "exhausted" => q.single \/ q.limited

FailoverInv ==
  Promised =>
    /\ \A i \in ReliableKeys : Unblemished(keys[i])
    /\ \A r \in Requests : Fair(req[r])

-----------------------------------------------------------------------------
(***************************************************************************)
(* The pool and the breaker keep their types.                              *)
(***************************************************************************)
\* A set of naturals that is not empty has a least member.
LEMMA NatHasLeast ==
  ASSUME NEW T, T \subseteq Nat, T # {}
  PROVE  \E n \in T : \A k \in T : n =< k
<1>1. PICK n \in T : \A k \in T : ~(<<k, n>> \in OpToRel(<, Nat))
  BY WFMin, NatLessThanWellFounded
<1>2. ASSUME NEW k \in T PROVE n =< k
  <2>1. ~(k < n)
    BY <1>1 DEF OpToRel
  <2> QED
    BY <2>1
<1> QED
  BY <1>2

\* Days are numbered from 1, and midnights are instants.
LEMMA Midnights ==
  ASSUME NEW t \in Nat
  PROVE  Pool!DayOf(t) \in Nat \ {0} /\ Pool!NextMidnight(t) \in Nat
<1>1. t \div DayLen \in Nat
  BY RotationAssumption
<1> QED
  BY <1>1, RotationAssumption DEF Pool!DayOf, Pool!NextMidnight

\* A key that is picked was not at its cap, so it stays well formed.
LEMMA ServedTyped ==
  ASSUME NEW k \in Pool!KeyState, NEW t \in Nat, ~Pool!Capped(k, t)
  PROVE  Pool!Served(k, t) \in Pool!KeyState
<1>1. Pool!DayOf(t) \in Nat /\ Pool!NextMidnight(t) \in Nat
  BY Midnights
<1> DEFINE count == IF k.dayStamp = Pool!DayOf(t) THEN k.dayCount + 1 ELSE 1
<1>2. DailyCap # 0 => count \in 0 .. DailyCap
  BY RotationAssumption DEF Pool!Capped, Pool!KeyState
<1>3. CASE DailyCap = 0
  BY <1>3 DEF Pool!Served, Pool!KeyState
<1>4. CASE DailyCap # 0
  <2> HIDE DEF count
  <2>1. Pool!Served(k, t) =
          [k EXCEPT !.lastUsed = t, !.dayStamp = Pool!DayOf(t), !.dayCount = count,
                    !.cooldownUntil = IF count = DailyCap
                                      THEN Pool!NextMidnight(t) ELSE @,
                    !.rateLimited = IF count = DailyCap THEN FALSE ELSE @]
    BY <1>4 DEF Pool!Served, count
  <2> QED
    BY <1>1, <1>2, <1>4, <2>1 DEF Pool!KeyState
<1> QED
  BY <1>3, <1>4

\* A reading of the clock is an instant of the past.
LEMMA ReadingNat ==
  ASSUME Pool!TypeOK, NEW t \in Pool!Reading
  PROVE  t \in Nat \ {0}
  BY DEF Pool!TypeOK, Pool!Reading

\* The key next() chooses is a key of the pool that nothing blocks.
LEMMA ChoiceIsFree ==
  ASSUME NEW exclude, NEW m, NEW t, NEW i \in Pool!Choice(exclude, m, t)
  PROVE  i \in Slot /\ i \notin exclude /\ ~Pool!Capped(keys[i], t) /\ ~keys[i].disabled
  BY DEF Pool!Choice, Pool!Available, Pool!Blocked, Pool!Slot, Slot

\* What each operation of the pool leaves is well formed.
LEMMA PickTyped ==
  ASSUME Pool!TypeOK, NEW t \in Pool!Reading, NEW exclude, NEW m, NEW i,
         Pool!Pick(i, exclude, m, t)
  PROVE  Pool!TypeOK' /\ now' = now
<1>1. i \in Pool!Slot /\ ~Pool!Capped(keys[i], t) /\ t \in Nat
  BY ChoiceIsFree, ReadingNat DEF Pool!Pick, Slot, Pool!Slot
<1>2. keys' = [keys EXCEPT ![i] = Pool!Served(keys[i], t)] /\ now' = now
  BY DEF Pool!Pick
<1>3. keys[i] \in Pool!KeyState
  BY <1>1 DEF Pool!TypeOK
<1>4. Pool!Served(keys[i], t) \in Pool!KeyState
  BY <1>1, <1>3, ServedTyped
<1> QED
  BY <1>1, <1>2, <1>4 DEF Pool!TypeOK

\* A cooldown, with or without a rate limit, keeps the pool well formed.
LEMMA CoolingTyped ==
  ASSUME Pool!TypeOK, NEW i \in Slot, NEW d \in Nat,
         Pool!Cooldown(i, d) \/ Pool!CooldownAccount(i, d)
  PROVE  Pool!TypeOK' /\ now' = now
<1>1. keys[i] \in Pool!KeyState /\ now + d \in Nat /\ i \in Pool!Slot
  BY DEF Pool!TypeOK, Slot, Pool!Slot
<1>2. ASSUME NEW limited \in BOOLEAN
      PROVE  [keys[i] EXCEPT !.cooldownUntil = now + d, !.rateLimited = limited] \in Pool!KeyState
  BY <1>1 DEF Pool!KeyState
<1>3. PICK limited \in BOOLEAN :
        /\ keys' = [keys EXCEPT ![i] = [keys[i] EXCEPT !.cooldownUntil = now + d,
                                                      !.rateLimited = limited]]
        /\ now' = now
  <2>1. CASE Pool!Cooldown(i, d)
    <3>1. /\ keys' = [keys EXCEPT ![i] = [keys[i] EXCEPT !.cooldownUntil = now + d,
                                                        !.rateLimited = FALSE]]
          /\ now' = now
      BY <2>1 DEF Pool!Cooldown, Pool!TypeOK
    <3> QED
      BY <3>1
  <2>2. CASE Pool!CooldownAccount(i, d)
    <3>1. /\ keys' = [keys EXCEPT ![i] = [keys[i] EXCEPT !.cooldownUntil = now + d,
                                                        !.rateLimited = TRUE]]
          /\ now' = now
      BY <2>2 DEF Pool!CooldownAccount, Pool!TypeOK
    <3> QED
      BY <3>1
  <2> QED
    BY <2>1, <2>2
<1> QED
  BY <1>1, <1>2, <1>3 DEF Pool!TypeOK

\* So does a cooldown of one model.
LEMMA ModelCoolingTyped ==
  ASSUME Pool!TypeOK, NEW i \in Slot, NEW m \in Models, NEW d \in Nat, NEW t \in Nat,
         Pool!CooldownModel(i, m, d, t)
  PROVE  Pool!TypeOK' /\ now' = now
<1> DEFINE cooled == [n \in Models |->
                        CASE n = m -> t + d
                          [] n # m /\ t < keys[i].modelCooldown[n]
                               -> keys[i].modelCooldown[n]
                          [] OTHER -> 0]
<1>1. keys[i] \in Pool!KeyState /\ i \in Pool!Slot
  BY DEF Pool!TypeOK, Slot, Pool!Slot
<1>2. cooled \in [Models -> Nat]
  BY <1>1 DEF Pool!KeyState
<1>3. keys' = [keys EXCEPT ![i] = [keys[i] EXCEPT !.modelCooldown = cooled]] /\ now' = now
  BY <1>1 DEF Pool!CooldownModel, Pool!TypeOK
<1> HIDE DEF cooled
<1>4. [keys[i] EXCEPT !.modelCooldown = cooled] \in Pool!KeyState
  BY <1>1, <1>2 DEF Pool!KeyState
<1> QED
  BY <1>1, <1>3, <1>4 DEF Pool!TypeOK

\* So does a key's rejection.
LEMMA DisableTyped ==
  ASSUME Pool!TypeOK, NEW i \in Slot, Pool!Disable(i)
  PROVE  Pool!TypeOK' /\ now' = now
<1>1. keys[i] \in Pool!KeyState /\ i \in Pool!Slot
  BY DEF Pool!TypeOK, Slot, Pool!Slot
<1>2. keys' = [keys EXCEPT ![i] = [keys[i] EXCEPT !.disabled = TRUE]] /\ now' = now
  BY DEF Pool!Disable
<1>3. [keys[i] EXCEPT !.disabled = TRUE] \in Pool!KeyState
  BY <1>1 DEF Pool!KeyState
<1> QED
  BY <1>1, <1>2, <1>3 DEF Pool!TypeOK

\* The wait rateLimitedFor announces is a number of ticks.
LEMMA WaitNat ==
  ASSUME Pool!TypeOK, NEW t \in Pool!Reading, NEW m \in Models, Pool!RateLimited(m, t)
  PROVE  Pool!RetryWait(m, t) \in Nat
<1> DEFINE times == {Pool!FreeAt(keys[i], m, t) : i \in Pool!Enabled}
<1>1. t \in Nat
  BY ReadingNat
<1>2. ASSUME NEW i \in Pool!Enabled
      PROVE  Pool!FreeAt(keys[i], m, t) \in Nat /\ t < Pool!FreeAt(keys[i], m, t)
  <2>1. keys[i] \in Pool!KeyState
    BY DEF Pool!Enabled, Pool!TypeOK
  <2>2. /\ keys[i].modelCooldown[m] \in Nat /\ keys[i].cooldownUntil \in Nat
        /\ keys[i].rateLimited \in BOOLEAN
    BY <2>1 DEF Pool!KeyState
  <2>3. Pool!NextMidnight(t) \in Nat
    BY <1>1, Midnights
  <2>4. t < Pool!LimitedUntil(keys[i], m)
    BY DEF Pool!RateLimited
  <2> QED
    BY <1>1, <2>2, <2>3, <2>4 DEF Pool!FreeAt, Pool!LimitedUntil, Pool!Later
<1>3. times \subseteq Nat /\ times # {}
  BY <1>2 DEF Pool!RateLimited
<1>4. PICK n \in times : \A k \in times : n =< k
  BY <1>3, NatHasLeast
<1>5. Pool!Min(times) \in times
  BY <1>4 DEF Pool!Min
<1>6. Pool!Min(times) \in Nat /\ t < Pool!Min(times)
  BY <1>2, <1>5
<1>7. Pool!RetryWait(m, t) = Pool!Min(times) - t
  BY DEF Pool!RetryWait
<1> HIDE DEF times
<1> QED
  BY <1>1, <1>6, <1>7

\* Entries are well formed when they are made, and when they are pruned.
LEMMA EntriesTyped ==
  /\ Breaker!NewEntry \in Breaker!ModelBreaker /\ Breaker!NoEntry \in Breaker!ModelBreaker
  /\ \A e \in Breaker!ModelBreaker : \A t : Breaker!Pruned(e, t) \in Breaker!ModelBreaker
<1>1. Breaker!NoHits \in [Slot -> Nat]
  BY DEF Breaker!NoHits, Slot
<1>2. 0 \in 0 .. MaxBackoff /\ 0 \in Nat
  BY RotationAssumption
<1>3. Breaker!NewEntry \in Breaker!ModelBreaker
  BY <1>1, <1>2 DEF Breaker!NewEntry, Breaker!ModelBreaker, Slot
<1>4. Breaker!NoEntry \in Breaker!ModelBreaker
  BY <1>3 DEF Breaker!NoEntry, Breaker!ModelBreaker
<1> QED
  BY <1>3, <1>4 DEF Breaker!Pruned

\* A 429 leaves a well-formed entry: no backoff exceeds the cap.
LEMMA ExtendedTyped ==
  ASSUME NEW e \in Breaker!ModelBreaker, NEW cool \in Nat, NEW t \in Nat
  PROVE  Breaker!Extended(e, cool, t) \in Breaker!ModelBreaker
<1> DEFINE grows == t >= e.grownAt + Window
           backoff == IF grows
                      THEN Breaker!Smaller(Breaker!Larger(2 * e.backoff, cool), MaxBackoff)
                      ELSE e.backoff
           f == Breaker!Extended(e, cool, t)
<1>1. e.backoff \in 0 .. MaxBackoff /\ e.openUntil \in Nat /\ e.grownAt \in Nat
  BY DEF Breaker!ModelBreaker
<1>2. backoff \in 0 .. MaxBackoff /\ backoff \in Nat
  BY <1>1, RotationAssumption DEF Breaker!Smaller, Breaker!Larger
<1>3. f = [e EXCEPT !.touched = t, !.backoff = backoff,
                    !.grownAt = IF grows THEN t ELSE @,
                    !.openUntil = Breaker!Larger(@, t + backoff)]
  BY DEF Breaker!Extended
<1>4. Breaker!Larger(e.openUntil, t + backoff) \in Nat
  BY <1>1, <1>2 DEF Breaker!Larger
<1> HIDE DEF f, backoff
<1>5. f \in Breaker!ModelBreaker
  BY <1>1, <1>2, <1>3, <1>4 DEF Breaker!ModelBreaker
<1> QED
  BY <1>5 DEF f

\* A 429 outside a trip leaves a well-formed entry too.
LEMMA CountedTyped ==
  ASSUME NEW e \in Breaker!ModelBreaker, NEW h \in Slot, NEW cool \in Nat,
         NEW floor \in Nat, NEW t \in Nat
  PROVE  Breaker!Counted(e, h, cool, floor, t) \in Breaker!ModelBreaker
<1> DEFINE hits == Breaker!RecentHits(e, h, t)
           longest == Breaker!LongestCool(e, h, cool, t)
           backoff == Breaker!Smaller(Breaker!Larger(Breaker!Larger(longest, floor),
                                                     MinBackoff), MaxBackoff)
           few == Breaker!Cardinality(Breaker!HitKeys(hits)) < DistinctKeys
           f == Breaker!Counted(e, h, cool, floor, t)
<1>1. e.maxCool \in Nat /\ e.hits \in [1 .. NumKeys -> Nat]
  BY DEF Breaker!ModelBreaker
<1>2. longest \in Nat
  BY <1>1 DEF Breaker!LongestCool, Breaker!Larger
<1>3. backoff \in 0 .. MaxBackoff /\ backoff \in Nat
  <2> HIDE DEF longest
  <2> QED
    BY <1>2, RotationAssumption DEF Breaker!Smaller, Breaker!Larger
<1>4. hits \in [1 .. NumKeys -> Nat]
  BY <1>1 DEF Breaker!RecentHits
<1>5. Breaker!NoHits \in [1 .. NumKeys -> Nat]
  BY DEF Breaker!NoHits
<1>6. f = IF few
          THEN [e EXCEPT !.touched = t, !.hits = hits, !.maxCool = longest]
          ELSE [e EXCEPT !.touched = t, !.hits = Breaker!NoHits, !.maxCool = 0,
                         !.tripped = TRUE, !.backoff = backoff,
                         !.openUntil = t + backoff, !.grownAt = t]
  BY DEF Breaker!Counted
<1> HIDE DEF f, hits, longest, backoff
<1>7. CASE few
  <2>1. f = [e EXCEPT !.touched = t, !.hits = hits, !.maxCool = longest]
    BY <1>6, <1>7
  <2>2. f \in Breaker!ModelBreaker
    BY <1>2, <1>4, <2>1 DEF Breaker!ModelBreaker
  <2> QED
    BY <2>2 DEF f
<1>8. CASE ~few
  <2>1. f = [e EXCEPT !.touched = t, !.hits = Breaker!NoHits, !.maxCool = 0,
                      !.tripped = TRUE, !.backoff = backoff,
                      !.openUntil = t + backoff, !.grownAt = t]
    BY <1>6, <1>8
  <2>2. t + backoff \in Nat /\ 0 \in Nat
    BY <1>3
  <2>3. f \in Breaker!ModelBreaker
    BY <1>3, <1>5, <2>1, <2>2 DEF Breaker!ModelBreaker
  <2> QED
    BY <2>3 DEF f
<1> QED
  BY <1>7, <1>8

\* Filing a 429 and clearing an entry keep the breaker well formed.
LEMMA RecordTyped ==
  ASSUME Breaker!TypeOK, NEW m \in Models, NEW h \in Slot, NEW cool \in Nat,
         NEW floor \in Nat, NEW t \in Nat, Breaker!Record429(m, h, cool, floor, t)
  PROVE  Breaker!TypeOK' /\ now' = now
<1>1. ASSUME NEW e \in Breaker!ModelBreaker
      PROVE  Breaker!Filed(e, h, cool, floor, t) \in Breaker!ModelBreaker
  <2> DEFINE old == Breaker!Pruned(e, t)
             cur == IF ~old.live \/ (old.tripped /\ old.openUntil =< t)
                    THEN Breaker!NewEntry ELSE old
  <2>1. cur \in Breaker!ModelBreaker
    BY EntriesTyped
  <2>2. Breaker!Filed(e, h, cool, floor, t) =
          IF cur.tripped THEN Breaker!Extended(cur, cool, t)
                         ELSE Breaker!Counted(cur, h, cool, floor, t)
    BY DEF Breaker!Filed
  <2> HIDE DEF cur
  <2> QED
    BY <2>1, <2>2, ExtendedTyped, CountedTyped
<1>2. /\ now' = now
      /\ breaker' = [n \in Models |->
                      IF n = m THEN Breaker!Filed(breaker[n], h, cool, floor, t)
                               ELSE Breaker!Pruned(breaker[n], t)]
  BY DEF Breaker!Record429
<1>3. \A n \in Models : breaker[n] \in Breaker!ModelBreaker
  BY DEF Breaker!TypeOK
<1> QED
  BY <1>1, <1>2, <1>3, EntriesTyped DEF Breaker!TypeOK

\* A success keeps the breaker well formed.
LEMMA SuccessTyped ==
  ASSUME Breaker!TypeOK, NEW m \in Models, Breaker!Success(m)
  PROVE  Breaker!TypeOK' /\ now' = now
  BY EntriesTyped DEF Breaker!TypeOK, Breaker!Success

-----------------------------------------------------------------------------
(***************************************************************************)
(* One step of a walk.  Each lemma takes the record q a step starts from,  *)
(* and says what holds of the record it leaves.                            *)
(***************************************************************************)
\* q may become c: the walk stays well formed, on a loop that fits, and a
\* client that left stays away.
Keeps(q, c) ==
  /\ Walk(c)
  /\ LoopFits(q) => LoopFits(c)
  /\ q.cancelled => c.cancelled

\* The sizes of the pool and of the budget, apart from the other parameters.
LEMMA Sizes ==
  /\ NumKeys \in Nat /\ MaxKeysPerRequest \in Nat \ {0} /\ ReliableKeys \subseteq Slot
  /\ 0 \in 0 .. NumKeys /\ 0 \in 0 .. MaxKeysPerRequest
<1>1. NumKeys \in Nat /\ MaxKeysPerRequest \in Nat \ {0} /\ ReliableKeys \subseteq Slot
  BY RotationAssumption DEF Slot
<1> QED
  BY <1>1

\* A set of keys is finite and no larger than the pool.
LEMMA KeySets ==
  ASSUME NEW S \in SUBSET Slot
  PROVE  /\ IsFiniteSet(S) /\ Cardinality(S) \in 0 .. NumKeys
         /\ Cardinality(S) = NumKeys => S = Slot
<1>1. IsFiniteSet(Slot) /\ Cardinality(Slot) = NumKeys
  <2>1. 1 \in Int /\ NumKeys \in Int /\ NumKeys \in Nat
    BY Sizes
  <2>2. /\ IsFiniteSet(1 .. NumKeys)
        /\ Cardinality(1 .. NumKeys) = IF 1 > NumKeys THEN 0 ELSE NumKeys - 1 + 1
    BY <2>1, FS_Interval
  <2> QED
    BY <2>1, <2>2 DEF Slot
<1>2. /\ IsFiniteSet(S) /\ Cardinality(S) =< Cardinality(Slot)
      /\ Cardinality(S) = Cardinality(Slot) => S = Slot
  BY <1>1, FS_Subset
<1>3. Cardinality(S) \in Nat
  BY <1>2, FS_CardinalityType
<1> QED
  BY <1>1, <1>2, <1>3

\* Request again, with a name for the set of each field: the provers need not
\* look into those sets to see that an update stays in the record set.
Pcs == {"idle", "next", "call", "file", "exhausted", "done"}
Loops == [flip : {"retry", "fail", "next"}, decodes : BOOLEAN]
Count(n) == 0 .. n
KeySet == SUBSET Slot
Ups == {"none", "key", "request"}
Contacts == [Slot -> Nat]
Statuses == {0, 200, 400, 429, 503}
Ends == {"", "served", "failfast", "exhausted"}

Row ==
  [ pc : Pcs, model : Models, loop : Loops, surface : Surfaces, key : Count(NumKeys),
    exclude : KeySet, attempt : Count(MaxKeysPerRequest), picked : Count(NumKeys),
    cool : Nat, single : BOOLEAN, limited : BOOLEAN, keyLost : BOOLEAN, lastUp : Ups,
    cancelled : BOOLEAN, contacted : Contacts, status : Statuses, retryAfter : Nat,
    end : Ends ]

\* The two record sets are one; what the steps write is in the fields' sets.
LEMMA Rows ==
  /\ Request = Row
  /\ \A pc \in {"idle", "next", "call", "file", "exhausted", "done"} : pc \in Pcs
  /\ 0 \in Count(NumKeys) /\ 0 \in Count(MaxKeysPerRequest)
<1>1. Request = Row
  BY DEF Request, Row, Pcs, Loops, Count, KeySet, Ups, Contacts, Statuses, Ends
<1> QED
  BY <1>1, Sizes DEF Pcs, Count

\* The fields of a walk have their types.
LEMMA WalkFields ==
  ASSUME NEW q, Walk(q)
  PROVE  /\ q.pc \in {"idle", "next", "call", "file", "exhausted", "done"}
         /\ q.model \in Models /\ q.surface \in Surfaces /\ q.exclude \in SUBSET Slot
         /\ q.attempt \in 0 .. MaxKeysPerRequest /\ q.picked \in 0 .. NumKeys
         /\ q.attempt \in Nat /\ q.picked \in Nat /\ q.cool \in Nat
         /\ q.contacted \in [Slot -> Nat] /\ IsFiniteSet(q.exclude)
         /\ q.picked = Cardinality(q.exclude)
         /\ q.loop \in [flip : {"retry", "fail", "next"}, decodes : BOOLEAN]
         /\ q.cancelled \in BOOLEAN
<1>1. q \in Request /\ q.picked = Cardinality(q.exclude)
  BY DEF Walk
<1>2. q.exclude \in SUBSET Slot
  BY <1>1 DEF Request
<1>3. IsFiniteSet(q.exclude)
  BY <1>2, KeySets
<1>4. q.pc \in {"idle", "next", "call", "file", "exhausted", "done"}
  BY <1>1 DEF Request
<1>5. q.model \in Models /\ q.surface \in Surfaces
  BY <1>1 DEF Request
<1>6. q.attempt \in 0 .. MaxKeysPerRequest /\ q.picked \in 0 .. NumKeys /\ q.cool \in Nat
  BY <1>1 DEF Request
<1>7. q.contacted \in Contacts /\ q.cancelled \in BOOLEAN /\ q.loop \in Loops
  BY <1>1, Rows DEF Row
<1>8. /\ q.contacted \in [Slot -> Nat]
      /\ q.loop \in [flip : {"retry", "fail", "next"}, decodes : BOOLEAN]
  BY <1>7 DEF Contacts, Loops
<1> QED
  BY <1>1, <1>2, <1>3, <1>4, <1>5, <1>6, <1>7, <1>8

\* A failure other than the client's costs one attempt of the budget; it is
\* fair unless a good key is given up.
LEMMA ContinueKeeps ==
  ASSUME NEW q, Walk(q), q.pc \in {"call", "file"}, NEW lastUp \in {"none", "key", "request"}
  PROVE  LET c == Continue(q, lastUp)
         IN  /\ Keeps(q, c) /\ c.pc = "next"
             /\ Fair(q) /\ (q.pc = "call" => q.key \notin ReliableKeys) => Fair(c)
<1> DEFINE c == Continue(q, lastUp)
<1>0. q \in Request /\ q.attempt < MaxKeysPerRequest /\ q.attempt \in Nat
  BY WalkFields DEF Walk
<1>1. c = [q EXCEPT !.pc = "next", !.attempt = q.attempt + 1, !.key = 0, !.lastUp = lastUp]
  BY <1>0 DEF Continue, Request
<1>2. q.attempt + 1 \in 0 .. MaxKeysPerRequest /\ 0 \in 0 .. NumKeys
  BY <1>0, RotationAssumption
<1> HIDE DEF c
<1>3. c \in Request
  <2>1. q.attempt + 1 \in Count(MaxKeysPerRequest) /\ lastUp \in Ups
    BY <1>2 DEF Count, Ups
  <2> QED
    BY <1>0, <1>1, <2>1, Rows DEF Row
<1>4. /\ c.pc = "next" /\ c.attempt = q.attempt + 1 /\ c.exclude = q.exclude
      /\ c.picked = q.picked /\ c.contacted = q.contacted /\ c.loop = q.loop
      /\ c.single = q.single /\ c.limited = q.limited /\ c.end = q.end
      /\ c.cancelled = q.cancelled
  BY <1>0, <1>1, Rows DEF Row
<1>5. Keeps(q, c)
  BY <1>3, <1>4 DEF Keeps, Walk, LoopFits
<1>6. ASSUME Fair(q), q.pc = "call" => q.key \notin ReliableKeys PROVE Fair(c)
  <2>1. q.exclude \cap ReliableKeys = {} /\ q.attempt < q.picked
    BY <1>6 DEF Fair
  <2>2. q.attempt + 1 =< q.picked
    BY <2>1, WalkFields
  <2> QED
    BY <1>4, <1>6, <2>1, <2>2 DEF Fair
<1> QED
  BY <1>4, <1>5, <1>6 DEF c

\* The walk ends with an answer; only exhausted() needs a reason.
LEMMA DoneKeeps ==
  ASSUME NEW q, Walk(q), q.pc # "idle", NEW status \in {0, 200, 400, 429, 503},
         NEW retryAfter \in Nat, NEW end \in {"served", "failfast", "exhausted"},
         end = "exhausted" => q.pc = "exhausted"
  PROVE  LET c == Done(q, status, retryAfter, end)
         IN  Keeps(q, c) /\ (Fair(q) => Fair(c))
<1> DEFINE c == Done(q, status, retryAfter, end)
<1>0. q \in Request
  BY DEF Walk
<1>1. c = [q EXCEPT !.pc = "done", !.status = status, !.retryAfter = retryAfter, !.end = end]
  BY DEF Done
<1> HIDE DEF c
<1>2. c \in Request
  <2>1. status \in Statuses /\ end \in Ends
    BY DEF Statuses, Ends
  <2> QED
    BY <1>0, <1>1, <2>1, Rows DEF Row
<1>3. /\ c.pc = "done" /\ c.exclude = q.exclude /\ c.attempt = q.attempt
      /\ c.picked = q.picked /\ c.contacted = q.contacted /\ c.loop = q.loop
      /\ c.single = q.single /\ c.limited = q.limited /\ c.end = end
      /\ c.cancelled = q.cancelled
  BY <1>0, <1>1, Rows DEF Row
<1>4. Keeps(q, c)
  BY <1>2, <1>3 DEF Keeps, Walk, LoopFits
<1>5. Fair(q) => Fair(c)
  BY <1>3 DEF Fair
<1> QED
  BY <1>4, <1>5 DEF c

\* Whether the key was lost, and what the upstream last said, is no part of
\* the walk.
LEMMA NoteKeeps ==
  ASSUME NEW q, Walk(q), NEW lost \in BOOLEAN, NEW lastUp \in {"none", "key", "request"}
  PROVE  /\ LET c == [q EXCEPT !.keyLost = lost]
            IN  /\ Keeps(q, c) /\ c.pc = q.pc /\ c.key = q.key /\ (Fair(q) => Fair(c))
         /\ LET c == [q EXCEPT !.keyLost = lost, !.lastUp = lastUp]
            IN  /\ Keeps(q, c) /\ c.pc = q.pc /\ c.key = q.key /\ (Fair(q) => Fair(c))
                /\ c.loop = q.loop /\ c.model = q.model
<1>0. q \in Request
  BY DEF Walk
<1>1. ASSUME NEW c \in {[q EXCEPT !.keyLost = lost], [q EXCEPT !.keyLost = lost, !.lastUp = lastUp]}
      PROVE  /\ Keeps(q, c) /\ c.pc = q.pc /\ c.key = q.key /\ (Fair(q) => Fair(c))
             /\ c.loop = q.loop /\ c.model = q.model
  <2>1. c \in Request
    <3>1. lastUp \in Ups
      BY DEF Ups
    <3>2. CASE c = [q EXCEPT !.keyLost = lost]
      BY <1>0, <3>2, Rows DEF Row
    <3>3. CASE c = [q EXCEPT !.keyLost = lost, !.lastUp = lastUp]
      BY <1>0, <3>1, <3>3, Rows DEF Row
    <3> QED
      BY <1>1, <3>2, <3>3
  <2>2. /\ c.pc = q.pc /\ c.exclude = q.exclude /\ c.attempt = q.attempt
        /\ c.picked = q.picked /\ c.contacted = q.contacted /\ c.loop = q.loop
        /\ c.single = q.single /\ c.limited = q.limited /\ c.end = q.end
        /\ c.cancelled = q.cancelled /\ c.key = q.key /\ c.model = q.model
    BY <1>0, <1>1, Rows DEF Row
  <2>3. Keeps(q, c)
    BY <2>1, <2>2 DEF Keeps, Walk, LoopFits
  <2>4. Fair(q) => Fair(c)
    BY <2>2 DEF Fair
  <2> QED
    BY <2>2, <2>3, <2>4
<1> QED
  BY <1>1

\* The loops a handler may choose: only a provider that is not zen has loops
\* that go on with the next key after "flipsurface".
LEMMA LoopsFit ==
  ASSUME typ \in ProviderTypes, NEW m, NEW loop \in LoopsFor(m)
  PROVE  loop \in Loops /\ (typ = "zen" => loop.flip # "next")
<1>1. \A flip \in {"retry", "fail", "next"}, decodes \in BOOLEAN :
        [flip |-> flip, decodes |-> decodes] \in Loops
  BY DEF Loops
<1>2. /\ ProxyZen \in Loops /\ MessagesViaZen \in Loops /\ ProxyZenResponses \in Loops
      /\ ProxyOpenAI \in Loops /\ MessagesViaOpenAI \in Loops
      /\ MessagesViaAnthropic \in Loops /\ ChatViaAnthropic \in Loops
  BY <1>1 DEF ProxyZen, MessagesViaZen, ProxyZenResponses, ProxyOpenAI, MessagesViaOpenAI,
              MessagesViaAnthropic, ChatViaAnthropic
<1>a. ProxyZen.flip # "next" /\ MessagesViaZen.flip # "next" /\ ProxyZenResponses.flip # "next"
  BY DEF ProxyZen, MessagesViaZen, ProxyZenResponses
<1>3. ASSUME loop \in HandleChat PROVE loop \in Loops /\ (typ = "zen" => loop.flip # "next")
  <2>1. CASE typ = "zen"
    BY <1>2, <1>a, <1>3, <2>1 DEF HandleChat
  <2>2. CASE typ = "anthropic"
    BY <1>2, <1>3, <2>2 DEF HandleChat
  <2>3. CASE typ # "zen" /\ typ # "anthropic"
    BY <1>2, <1>3, <2>3 DEF HandleChat
  <2> QED
    BY <2>1, <2>2, <2>3
<1>4. ASSUME loop \in HandleMessages PROVE loop \in Loops /\ (typ = "zen" => loop.flip # "next")
  <2>1. CASE typ = "zen"
    BY <1>2, <1>a, <1>4, <2>1 DEF HandleMessages
  <2>2. CASE typ = "openai"
    BY <1>2, <1>4, <2>2 DEF HandleMessages
  <2>3. CASE typ # "zen" /\ typ # "openai"
    BY <1>2, <1>4, <2>3 DEF HandleMessages
  <2> QED
    BY <2>1, <2>2, <2>3
<1>5. ASSUME loop \in HandleResponses(m)
      PROVE  loop \in Loops /\ (typ = "zen" => loop.flip # "next")
  BY <1>2, <1>a, <1>5 DEF HandleResponses
<1> QED
  BY <1>3, <1>4, <1>5 DEF LoopsFor

\* A model is asked on one of the two surfaces.
LEMMA SurfacesTyped ==
  ASSUME learned \in [Models -> Surfaces \cup {""}], NEW m \in Models
  PROVE  SurfaceFor(m) \in Surfaces
<1>1. DefaultSurface \in Surfaces
  BY RotationAssumption DEF Surfaces
<1> QED
  BY Zenon, <1>1 DEF SurfaceFor

\* A request that starts has tried no key.
LEMMA NewKeeps ==
  ASSUME NEW m \in Models, SurfaceFor(m) \in Surfaces,
         NEW loop \in Loops, NEW single \in BOOLEAN
  PROVE  LET c == NewRequest(m, loop, single)
         IN  /\ Walk(c) /\ Fair(c) /\ ~c.cancelled /\ c.loop = loop
             /\ c \in Request /\ c.pc = "next"
<1> DEFINE c == NewRequest(m, loop, single)
           surface == SurfaceFor(m)
           contacted == [i \in Slot |-> 0]
<1>1. surface \in Surfaces
  OBVIOUS
<1>2. /\ contacted \in Contacts /\ {} \in KeySet /\ "none" \in Ups /\ 0 \in Statuses
      /\ "" \in Ends /\ Cardinality({}) = 0
  BY FS_EmptySet DEF Contacts, KeySet, Ups, Statuses, Ends
<1>3. c = [ pc |-> "next", model |-> m, loop |-> loop, surface |-> surface,
            key |-> 0, exclude |-> {}, attempt |-> 0, picked |-> 0, cool |-> 0,
            single |-> single, limited |-> FALSE, keyLost |-> FALSE,
            lastUp |-> "none", cancelled |-> FALSE, contacted |-> contacted,
            status |-> 0, retryAfter |-> 0, end |-> "" ]
  BY DEF NewRequest
<1>4. \A i \in Slot : contacted[i] = 0
  OBVIOUS
<1> HIDE DEF c, surface, contacted
<1>5. c \in Row
  BY <1>1, <1>2, <1>3, Rows DEF Row
<1>6. /\ c.pc = "next" /\ c.exclude = {} /\ c.attempt = 0 /\ c.picked = 0 /\ c.end # "exhausted"
      /\ c.contacted = contacted /\ ~c.cancelled /\ c.loop = loop
  BY <1>3
<1>7. Walk(c)
  BY <1>2, <1>4, <1>5, <1>6, Rows DEF Walk
<1>8. Fair(c)
  BY <1>6 DEF Fair
<1> QED
  BY <1>5, <1>6, <1>7, <1>8, Rows DEF c

\* next() takes a key the walk does not exclude, and excludes it.
LEMMA PickKeeps ==
  ASSUME NEW q, Walk(q), q.pc = "next", q.attempt < MaxKeysPerRequest,
         NEW i \in Slot, i \notin q.exclude
  PROVE  LET c == [q EXCEPT !.pc = "call", !.key = i, !.exclude = @ \cup {i},
                            !.picked = @ + 1, !.contacted[i] = @ + 1]
         IN  Keeps(q, c) /\ (Fair(q) => Fair(c))
<1> DEFINE excluded == q.exclude \cup {i}
           contacted == [q.contacted EXCEPT ![i] = @ + 1]
           c == [q EXCEPT !.pc = "call", !.key = i, !.exclude = excluded,
                          !.picked = q.picked + 1, !.contacted = contacted]
<1>0. q \in Row /\ \A k \in Slot : q.contacted[k] = IF k \in q.exclude THEN 1 ELSE 0
  BY Rows DEF Walk
<1>1. /\ q.exclude \in SUBSET Slot /\ q.picked = Cardinality(q.exclude) /\ IsFiniteSet(q.exclude)
      /\ q.contacted \in [Slot -> Nat] /\ q.picked \in Nat /\ q.attempt \in Nat
  BY WalkFields
<1>2. c = [q EXCEPT !.pc = "call", !.key = i, !.exclude = @ \cup {i},
                    !.picked = @ + 1, !.contacted[i] = @ + 1]
  BY <1>0, <1>1 DEF Row
<1>3. Cardinality(excluded) = q.picked + 1 /\ excluded \in SUBSET Slot
  BY <1>1, FS_AddElement
<1>4. q.picked + 1 \in Count(NumKeys)
  BY <1>3, KeySets DEF Count
<1>5. contacted \in Contacts /\ \A k \in Slot : contacted[k] = IF k \in excluded THEN 1 ELSE 0
  BY <1>0, <1>1 DEF Contacts
<1>6. excluded \in KeySet /\ i \in Count(NumKeys) /\ i \in excluded
  BY <1>3, Sizes DEF KeySet, Count, Slot
<1>7. excluded \cap ReliableKeys \subseteq (q.exclude \cap ReliableKeys) \cup {i}
  OBVIOUS
<1> HIDE DEF c, excluded, contacted
<1>8. c \in Row
  BY <1>0, <1>4, <1>5, <1>6, Rows DEF c, Row
<1>9. /\ c.pc = "call" /\ c.key = i /\ c.exclude = excluded /\ c.picked = q.picked + 1
      /\ c.contacted = contacted /\ c.attempt = q.attempt /\ c.loop = q.loop
      /\ c.single = q.single /\ c.limited = q.limited /\ c.end = q.end
      /\ c.cancelled = q.cancelled
  BY <1>0 DEF c, Row
<1>10. Walk(c)
  BY <1>3, <1>5, <1>6, <1>8, <1>9, Rows DEF Walk
<1>11. Keeps(q, c)
  BY <1>9, <1>10 DEF Keeps, LoopFits
<1>12. ASSUME Fair(q) PROVE Fair(c)
  <2>1. q.exclude \cap ReliableKeys = {} /\ q.attempt =< q.picked
    BY <1>12 DEF Fair
  <2>2. q.attempt < q.picked + 1
    BY <1>1, <2>1
  <2> QED
    BY <1>7, <1>9, <1>12, <2>1, <2>2 DEF Fair
<1> QED
  BY <1>2, <1>11, <1>12

\* The retry on the other surface gives the attempt and the key back.
LEMMA RetryKeeps ==
  ASSUME NEW q, Walk(q), q.pc = "call", NEW surface \in Surfaces
  PROVE  LET c == [q EXCEPT !.pc = "next", !.key = 0, !.surface = surface,
                            !.exclude = @ \ {q.key}, !.picked = @ - 1,
                            !.contacted[q.key] = @ - 1]
         IN  Keeps(q, c) /\ (Fair(q) => Fair(c))
<1> DEFINE excluded == q.exclude \ {q.key}
           contacted == [q.contacted EXCEPT ![q.key] = @ - 1]
           c == [q EXCEPT !.pc = "next", !.key = 0, !.surface = surface, !.exclude = excluded,
                          !.picked = q.picked - 1, !.contacted = contacted]
<1>0. /\ q \in Row /\ q.key \in q.exclude /\ q.key \in Slot
      /\ \A k \in Slot : q.contacted[k] = IF k \in q.exclude THEN 1 ELSE 0
  BY Rows DEF Walk
<1>1. /\ q.exclude \in SUBSET Slot /\ q.picked = Cardinality(q.exclude) /\ IsFiniteSet(q.exclude)
      /\ q.contacted \in [Slot -> Nat] /\ q.picked \in Nat /\ q.attempt \in Nat
  BY WalkFields
<1>2. c = [q EXCEPT !.pc = "next", !.key = 0, !.surface = surface,
                    !.exclude = @ \ {q.key}, !.picked = @ - 1, !.contacted[q.key] = @ - 1]
  BY <1>0, <1>1 DEF Row
<1>3. Cardinality(excluded) = q.picked - 1 /\ excluded \in SUBSET Slot
  <2>1. Cardinality(q.exclude \ {q.key}) = Cardinality(q.exclude) - 1
    BY <1>0, <1>1, FS_RemoveElement
  <2> QED
    BY <1>1, <2>1
<1>4. q.picked - 1 \in Count(NumKeys)
  BY <1>3, KeySets DEF Count
<1>5. contacted \in Contacts /\ \A k \in Slot : contacted[k] = IF k \in excluded THEN 1 ELSE 0
  BY <1>0, <1>1 DEF Contacts
<1>6. excluded \in KeySet
  BY <1>3 DEF KeySet
<1> HIDE DEF c, contacted
<1>7. excluded \cap ReliableKeys = (q.exclude \cap ReliableKeys) \ {q.key}
  OBVIOUS
<1> HIDE DEF excluded
<1>8. c \in Row
  BY <1>0, <1>4, <1>5, <1>6, Rows DEF c, Row
<1>9. /\ c.pc = "next" /\ c.exclude = excluded /\ c.picked = q.picked - 1
      /\ c.contacted = contacted /\ c.attempt = q.attempt /\ c.loop = q.loop
      /\ c.single = q.single /\ c.limited = q.limited /\ c.end = q.end
      /\ c.cancelled = q.cancelled
  BY <1>0 DEF c, Row
<1>10. Walk(c)
  BY <1>3, <1>5, <1>8, <1>9, Rows DEF Walk
<1>11. Keeps(q, c)
  BY <1>9, <1>10 DEF Keeps, LoopFits
<1>12. ASSUME Fair(q) PROVE Fair(c)
  <2>1. q.exclude \cap ReliableKeys \subseteq {q.key} /\ q.attempt < q.picked
    BY <1>12 DEF Fair
  <2>2. q.attempt =< q.picked - 1
    BY <1>1, <2>1
  <2> QED
    BY <1>7, <1>9, <1>12, <2>1, <2>2 DEF Fair
<1> QED
  BY <1>2, <1>11, <1>12

\* A 429 is filed in a step of its own; the walk may stop there.
LEMMA LimitKeeps ==
  ASSUME NEW q, Walk(q), q.pc = "call", NEW d \in Nat
  PROVE  LET c == [q EXCEPT !.pc = "file", !.cool = d, !.keyLost = FALSE]
         IN  Keeps(q, c) /\ (Fair(q) /\ q.key \notin ReliableKeys => Fair(c))
<1> DEFINE c == [q EXCEPT !.pc = "file", !.cool = d, !.keyLost = FALSE]
<1>0. q \in Row
  BY Rows DEF Walk
<1>1. c \in Row
  BY <1>0, Rows DEF Row
<1>2. /\ c.pc = "file" /\ c.limited = q.limited /\ c.cancelled = q.cancelled
      /\ c.exclude = q.exclude /\ c.picked = q.picked
      /\ c.contacted = q.contacted /\ c.attempt = q.attempt /\ c.loop = q.loop
      /\ c.single = q.single /\ c.end = q.end /\ c.key = q.key
  BY <1>0 DEF Row
<1> HIDE DEF c
<1>3. Keeps(q, c)
  BY <1>1, <1>2, Rows DEF Keeps, Walk, LoopFits
<1>4. Fair(q) /\ q.key \notin ReliableKeys => Fair(c)
  BY <1>2 DEF Fair
<1> QED
  BY <1>3, <1>4 DEF c

\* Once the 429 is filed the walk goes on, stopped if the breaker has tripped.
LEMMA FiledKeeps ==
  ASSUME NEW q, Walk(q), q.pc = "file", NEW tripped \in BOOLEAN
  PROVE  LET c == [Continue(q, "key") EXCEPT !.cool = 0, !.limited = @ \/ tripped]
         IN  Keeps(q, c) /\ (Fair(q) => Fair(c))
<1> DEFINE g == Continue(q, "key")
           c == [g EXCEPT !.cool = 0, !.limited = g.limited \/ tripped]
<1>0. Keeps(q, g) /\ g.pc = "next" /\ (Fair(q) => Fair(g))
  BY ContinueKeeps
<1> HIDE DEF g
<1>1. g \in Row /\ g.limited \in BOOLEAN
  BY <1>0, Rows DEF Keeps, Walk, Row
<1>a. c = [g EXCEPT !.cool = 0, !.limited = @ \/ tripped]
  BY <1>1 DEF Row
<1>2. c \in Row
  BY <1>1 DEF Row
<1>3. /\ c.pc = "next" /\ c.limited = (g.limited \/ tripped) /\ c.cancelled = g.cancelled
      /\ c.exclude = g.exclude /\ c.picked = g.picked
      /\ c.contacted = g.contacted /\ c.attempt = g.attempt /\ c.loop = g.loop
      /\ c.single = g.single /\ c.end = g.end /\ c.key = g.key
  BY <1>0, <1>1 DEF Row
<1> HIDE DEF c
<1>4. Keeps(q, c)
  BY <1>0, <1>2, <1>3, Rows DEF Keeps, Walk, LoopFits
<1>5. Fair(g) => Fair(c)
  BY <1>0, <1>3 DEF Fair
<1> QED
  BY <1>0, <1>4, <1>5, <1>a DEF g

\* The walk ends without an answer; a client leaves.
LEMMA StopKeeps ==
  ASSUME NEW q, Walk(q), q.pc = "next"
  PROVE  LET c == [q EXCEPT !.pc = "exhausted"]
         IN  Keeps(q, c) /\ (Fair(q) /\ (q.single \/ q.limited) => Fair(c))
<1> DEFINE c == [q EXCEPT !.pc = "exhausted"]
<1>0. q \in Row
  BY Rows DEF Walk
<1>1. c \in Row
  BY <1>0, Rows DEF Row
<1>2. /\ c.pc = "exhausted" /\ c.limited = q.limited /\ c.cancelled = q.cancelled
      /\ c.exclude = q.exclude /\ c.picked = q.picked
      /\ c.contacted = q.contacted /\ c.attempt = q.attempt /\ c.loop = q.loop
      /\ c.single = q.single /\ c.end = q.end /\ c.key = q.key
  BY <1>0 DEF Row
<1> HIDE DEF c
<1>3. Keeps(q, c)
  BY <1>1, <1>2, Rows DEF Keeps, Walk, LoopFits
<1>4. Fair(q) /\ (q.single \/ q.limited) => Fair(c)
  BY <1>2 DEF Fair
<1> QED
  BY <1>3, <1>4 DEF c

\* A client that leaves changes nothing of the walk.
LEMMA LeaveKeeps ==
  ASSUME NEW q, Walk(q), q.pc # "idle"
  PROVE  LET c == [q EXCEPT !.cancelled = TRUE] IN Keeps(q, c) /\ c.cancelled
<1> DEFINE c == [q EXCEPT !.cancelled = TRUE]
<1>0. q \in Row
  BY Rows DEF Walk
<1>1. c \in Row
  BY <1>0 DEF Row
<1>2. /\ c.pc = q.pc /\ c.limited = q.limited /\ c.cancelled = TRUE
      /\ c.exclude = q.exclude /\ c.picked = q.picked
      /\ c.contacted = q.contacted /\ c.attempt = q.attempt /\ c.loop = q.loop
      /\ c.single = q.single /\ c.end = q.end /\ c.key = q.key
  BY <1>0 DEF Row
<1> HIDE DEF c
<1>3. Keeps(q, c)
  BY <1>1, <1>2, Rows DEF Keeps, Walk, LoopFits
<1> QED
  BY <1>2, <1>3 DEF c

\* A request that has not started has no walk behind it.
LEMMA IdleWalks ==
  ASSUME \A m \in Models : SurfaceFor(m) \in Surfaces
  PROVE  Walk(IdleRequest) /\ IdleRequest.pc = "idle" /\ Fair(IdleRequest)
<1> DEFINE m0 == CHOOSE m \in Models : TRUE
           g == NewRequest(m0, ProxyOpenAI, FALSE)
           c == [g EXCEPT !.pc = "idle", !.surface = DefaultSurface]
<1>1. m0 \in Models /\ DefaultSurface \in Surfaces
  BY RotationAssumption DEF Surfaces
<1>2. ProxyOpenAI \in Loops
  BY DEF ProxyOpenAI, Loops
<1> HIDE DEF m0
<1>3. Walk(g) /\ Fair(g) /\ ~g.cancelled /\ g \in Request /\ g.pc = "next"
  BY <1>1, <1>2, NewKeeps
<1>4. IdleRequest = c
  BY DEF IdleRequest, m0
<1> HIDE DEF g
<1>5. g \in Row
  BY <1>3, Rows
<1>6. c \in Row
  BY <1>1, <1>5, Rows DEF Row
<1>7. /\ c.pc = "idle" /\ c.limited = g.limited /\ c.cancelled = g.cancelled
      /\ c.exclude = g.exclude /\ c.picked = g.picked
      /\ c.contacted = g.contacted /\ c.attempt = g.attempt /\ c.loop = g.loop
      /\ c.single = g.single /\ c.end = g.end /\ c.key = g.key
  BY <1>5 DEF Row
<1> HIDE DEF c
<1>8. Walk(c)
  BY <1>3, <1>6, <1>7, Rows DEF Walk
<1>9. Fair(c)
  BY <1>3, <1>7 DEF Fair
<1> QED
  BY <1>4, <1>7, <1>8, <1>9

-----------------------------------------------------------------------------
(***************************************************************************)
(* Steps of the system.                                                    *)
(***************************************************************************)
\* The invariants are kept by a step that takes one request's walk from q to
\* c, and leaves the tables well formed and the good keys without blemish.
LEMMA Moves ==
  ASSUME RotationInv, FailoverInv, NEW r \in Requests, NEW q, NEW c, q = req[r],
         Keeps(q, c), Becomes(r, c), TablesInv',
         Promised /\ ~c.cancelled /\ Fair(q) /\ (\A i \in ReliableKeys : Unblemished(keys[i])) =>
           Fair(c) /\ \A i \in ReliableKeys : Unblemished(keys'[i])
  PROVE  RotationInv' /\ FailoverInv'
<1>1. typ' = typ /\ req' = [req EXCEPT ![r] = c] /\ req \in [Requests -> Request]
  BY DEF Becomes, RotationInv, WalksInv
<1>2. req'[r] = c /\ \A s \in Requests : s # r => req'[s] = req[s]
  BY <1>1
<1>3. Walk(c) /\ LoopFits(c) /\ c \in Request /\ (q.cancelled => c.cancelled)
  BY DEF RotationInv, WalksInv, Keeps, Walk
<1>4. \A s \in Requests : Walk(req'[s]) /\ LoopFits(req'[s])
  BY <1>2, <1>3 DEF RotationInv, WalksInv
<1>5. WalksInv'
  BY <1>1, <1>3, <1>4 DEF WalksInv, LoopFits
<1>6. ASSUME Promised'
      PROVE  /\ \A i \in ReliableKeys : Unblemished(keys'[i])
             /\ \A s \in Requests : Fair(req'[s])
  <2>1. ~c.cancelled /\ \A s \in Requests : ~req[s].cancelled
    BY <1>2, <1>3, <1>6 DEF Promised
  <2>2. Promised
    BY <1>6, <2>1 DEF Promised
  <2>3. /\ \A i \in ReliableKeys : Unblemished(keys[i])
        /\ \A s \in Requests : Fair(req[s])
    BY <2>2 DEF FailoverInv
  <2>4. Fair(c) /\ \A i \in ReliableKeys : Unblemished(keys'[i])
    BY <2>1, <2>2, <2>3
  <2> QED
    BY <1>2, <2>3, <2>4
<1>7. FailoverInv'
  BY <1>6 DEF FailoverInv
<1> QED
  BY <1>5, <1>7 DEF RotationInv

\* The tables stay well formed when each of them does.
LEMMA TablesKept ==
  ASSUME TablesInv, typ' = typ, now' = now, keys' = keys \/ Pool!TypeOK',
         breaker' = breaker \/ Breaker!TypeOK',
         learned' = learned \/ learned' \in [Models -> Surfaces \cup {""}]
  PROVE  TablesInv'
<1>1. Pool!TypeOK'
  BY DEF TablesInv, Pool!TypeOK
<1>2. Breaker!TypeOK'
  BY DEF TablesInv, Breaker!TypeOK
<1> QED
  BY Zenon, <1>1, <1>2 DEF TablesInv

\* A key the upstream always serves is answered with a 200, or with the wish
\* for the other surface.
LEMMA GoodKeysAreServed ==
  ASSUME NEW r, ~req[r].cancelled, NEW v \in Answers(r), req[r].key \in ReliableKeys
  PROVE  v = "ok" \/ (v = "flip" /\ typ = "zen")
  BY DEF Answers, WrongSurface

\* What is filed against a key says nothing about the others.
LEMMA OthersUntouched ==
  ASSUME Pool!TypeOK, NEW i \in Slot, NEW d, NEW m, NEW t,
         \/ Pool!Cooldown(i, d) \/ Pool!CooldownAccount(i, d)
         \/ Pool!CooldownModel(i, m, d, t) \/ Pool!Disable(i),
         NEW j \in Slot, j # i
  PROVE  keys'[j] = keys[j]
<1>1. j \in DOMAIN keys
  BY DEF Pool!TypeOK, Pool!Slot, Slot
<1>2. CASE Pool!Cooldown(i, d)
  BY <1>1, <1>2 DEF Pool!Cooldown
<1>3. CASE Pool!CooldownAccount(i, d)
  BY <1>1, <1>3 DEF Pool!CooldownAccount
<1>4. CASE Pool!CooldownModel(i, m, d, t)
  BY <1>1, <1>4 DEF Pool!CooldownModel
<1>5. CASE Pool!Disable(i)
  BY <1>1, <1>5 DEF Pool!Disable
<1> QED
  BY <1>2, <1>3, <1>4, <1>5

\* Without a daily cap a pick leaves no blemish.
LEMMA PicksLeaveNoBlemish ==
  ASSUME Pool!TypeOK, DailyCap = 0, NEW t, NEW exclude, NEW m, NEW i,
         Pool!Pick(i, exclude, m, t), NEW j \in Slot, Unblemished(keys[j])
  PROVE  Unblemished(keys'[j])
<1>1. keys' = [keys EXCEPT ![i] = [keys[i] EXCEPT !.lastUsed = t]]
  BY DEF Pool!Pick, Pool!Served
<1>2. keys[j] \in Pool!KeyState /\ j \in DOMAIN keys
  BY DEF Pool!TypeOK, Pool!Slot, Slot
<1>3. /\ keys'[j].disabled = keys[j].disabled
      /\ keys'[j].cooldownUntil = keys[j].cooldownUntil
      /\ keys'[j].modelCooldown = keys[j].modelCooldown
  BY <1>1, <1>2 DEF Pool!KeyState
<1> QED
  BY <1>3 DEF Unblemished

\* If some key is free, pickAt finds one: there is a first in any order.
LEMMA ChoiceExists ==
  ASSUME Pool!TypeOK, NEW t \in Pool!Reading, NEW exclude, NEW m,
         Pool!Available(exclude, m, t) # {}
  PROVE  Pool!Choice(exclude, m, t) # {}
<1> DEFINE free == Pool!Available(exclude, m, t)
<1>1. free \subseteq Slot /\ free # {} /\ t \in Nat
  BY ReadingNat DEF Pool!Available, Pool!Slot, Slot
<1>2. \A i \in free : keys[i].lastUsed \in Nat /\ i \in Nat
  BY <1>1 DEF Pool!TypeOK, Pool!Slot, Slot, Pool!KeyState
<1>3. PICK i \in free : \A j \in free : Pool!Precedes(i, j, t)
  <2>1. CASE Mode = "lru"
    <3> DEFINE times == {keys[i].lastUsed : i \in free}
    <3>1. times \subseteq Nat /\ times # {}
      BY <1>1, <1>2
    <3>2. PICK u \in times : \A v \in times : u =< v
      BY <3>1, NatHasLeast
    <3> DEFINE oldest == {i \in free : keys[i].lastUsed = u}
    <3>3. oldest \subseteq Nat /\ oldest # {}
      BY <1>2, <3>2
    <3>4. PICK i \in oldest : \A j \in oldest : i =< j
      BY <3>3, NatHasLeast
    <3>5. ASSUME NEW j \in free PROVE Pool!Precedes(i, j, t)
      <4>1. u =< keys[j].lastUsed /\ keys[j].lastUsed \in Nat /\ u \in Nat
        BY <1>2, <3>1, <3>2
      <4>2. keys[j].lastUsed = u => i =< j
        BY <3>4
      <4> QED
        BY <2>1, <3>4, <4>1, <4>2 DEF Pool!Precedes
    <3> QED
      BY <3>4, <3>5
  <2>2. CASE Mode # "lru"
    <3>1. ASSUME NEW i \in Slot PROVE Pool!Distance(i, t) \in Nat
      <4>1. NumKeys \in Nat \ {0} /\ i \in 1 .. NumKeys /\ Pool!DayOf(t) \in Nat
        BY <1>1, Sizes, Midnights DEF Slot
      <4>2. Pool!DailyOffset(t) \in 0 .. NumKeys - 1
        BY <4>1 DEF Pool!DailyOffset
      <4>3. i - 1 + NumKeys - Pool!DailyOffset(t) \in Nat
        BY <4>1, <4>2
      <4> QED
        BY <4>1, <4>3 DEF Pool!Distance
    <3> DEFINE far == {Pool!Distance(i, t) : i \in free}
    <3>2. far \subseteq Nat /\ far # {}
      BY <1>1, <3>1
    <3>3. PICK u \in far : \A v \in far : u =< v
      BY <3>2, NatHasLeast
    <3>4. PICK i \in free : Pool!Distance(i, t) = u
      BY <3>3
    <3>5. ASSUME NEW j \in free PROVE Pool!Precedes(i, j, t)
      BY <2>2, <3>3, <3>4 DEF Pool!Precedes
    <3> QED
      BY <3>4, <3>5
  <2> QED
    BY <2>1, <2>2
<1> QED
  BY <1>3 DEF Pool!Choice

\* A fair walk that finds no key, or has spent its budget, was stopped by a
\* rate limit: the good keys are neither blocked nor tried.
LEMMA GoodKeysAreFound ==
  ASSUME Pool!TypeOK, Promised, \A i \in ReliableKeys : Unblemished(keys[i]),
         NEW q, Walk(q), Fair(q), q.pc = "next", NEW t \in Pool!Reading,
         MayPick(q) => Pool!Choice(q.exclude, q.model, t) = {}
  PROVE  q.single \/ q.limited
<1>1. PICK i \in ReliableKeys : i \in Slot
  BY Sizes DEF Promised
<1>2. /\ q.exclude \cap ReliableKeys = {} /\ q.attempt =< q.picked
      /\ q.exclude \in SUBSET Slot /\ q.picked = Cardinality(q.exclude)
      /\ q.attempt \in Nat /\ q.picked \in 0 .. NumKeys /\ q.model \in Models
  BY WalkFields DEF Fair
<1>3. SUFFICES ASSUME ~q.single, ~q.limited PROVE FALSE
  OBVIOUS
<1>4. CASE q.attempt < MaxKeysPerRequest
  <2>1. Pool!Choice(q.exclude, q.model, t) = {}
    BY <1>3, <1>4 DEF MayPick
  <2>2. /\ ~keys[i].disabled /\ keys[i].cooldownUntil = 0
        /\ keys[i].modelCooldown[q.model] = 0 /\ DailyCap = 0 /\ t \in Nat
    BY <1>1, <1>2, ReadingNat DEF Unblemished, Promised
  <2>3. ~Pool!Blocked(i, q.exclude, q.model, t)
    BY <1>1, <1>2, <2>2 DEF Pool!Blocked, Pool!Capped
  <2>4. i \in Pool!Available(q.exclude, q.model, t)
    BY <1>1, <2>3 DEF Pool!Available, Pool!Slot, Slot
  <2> QED
    BY <2>1, <2>4, ChoiceExists
<1>5. CASE ~(q.attempt < MaxKeysPerRequest)
  <2>1. NumKeys =< q.picked
    BY <1>2, <1>5, Sizes DEF Promised
  <2>2. q.exclude = Slot
    BY <1>2, <2>1, KeySets, Sizes
  <2> QED
    BY <1>1, <1>2, <2>2
<1> QED
  BY <1>4, <1>5

-----------------------------------------------------------------------------
(***************************************************************************)
(* One lemma per step.                                                     *)
(***************************************************************************)
\* Both invariants.
BothInv == RotationInv /\ FailoverInv

\* What a lemma about request r's step starts from.
LEMMA Before ==
  ASSUME BothInv, NEW r \in Requests
  PROVE  /\ TablesInv /\ Pool!TypeOK /\ Breaker!TypeOK /\ typ \in ProviderTypes
         /\ RotationInv /\ FailoverInv
         /\ Walk(req[r]) /\ LoopFits(req[r]) /\ req[r].model \in Models
         /\ req[r].pc \in {"call", "file"} => req[r].key \in Slot
         /\ \A m \in Models : SurfaceFor(m) \in Surfaces
<1>1. Walk(req[r]) /\ LoopFits(req[r]) /\ TablesInv
  BY DEF BothInv, RotationInv, WalksInv
<1>2. req[r].model \in Models
  BY <1>1, WalkFields
<1>3. \A m \in Models : SurfaceFor(m) \in Surfaces
  <2>1. learned \in [Models -> Surfaces \cup {""}]
    BY Zenon, <1>1 DEF TablesInv
  <2> QED
    BY Zenon, <2>1, SurfacesTyped
<1>4. Pool!TypeOK /\ Breaker!TypeOK /\ typ \in ProviderTypes
  BY Zenon, <1>1 DEF TablesInv
<1>5. req[r].pc \in {"call", "file"} => req[r].key \in Slot
  BY <1>1 DEF Walk
<1> QED
  BY <1>1, <1>2, <1>3, <1>4, <1>5 DEF BothInv

\* The clock's tick moves no walk.
LEMMA TickHolds ==
  ASSUME BothInv, Tick
  PROVE  BothInv'
<1>1. /\ now' = now + 1 /\ keys' = keys /\ typ' = typ /\ breaker' = breaker
      /\ learned' = learned /\ req' = req
  BY DEF Tick, Pool!Tick
<1>2. now \in Nat \ {0} => now + 1 \in Nat \ {0}
  OBVIOUS
<1>3. TablesInv'
  <2>1. Pool!TypeOK' /\ Breaker!TypeOK'
    BY <1>1, <1>2 DEF BothInv, RotationInv, TablesInv, Pool!TypeOK, Breaker!TypeOK
  <2> QED
    BY Zenon, <1>1, <2>1 DEF BothInv, RotationInv, TablesInv
<1>4. WalksInv'
  BY Zenon, <1>1 DEF BothInv, RotationInv, WalksInv, LoopFits
<1>5. FailoverInv'
  BY Zenon, <1>1 DEF BothInv, FailoverInv, Promised
<1> QED
  BY <1>3, <1>4, <1>5 DEF BothInv, RotationInv

\* A step that leaves the tables as they were keeps the invariants if the
\* walk does.
LEMMA QuietMoves ==
  ASSUME BothInv, NEW r \in Requests, NEW q, NEW c, q = req[r], Keeps(q, c), Becomes(r, c),
         UNCHANGED <<now, keys, breaker>>,
         learned' = learned \/ learned' \in [Models -> Surfaces \cup {""}],
         /\ Promised /\ ~c.cancelled /\ Fair(q) /\ (\A i \in ReliableKeys : Unblemished(keys[i]))
         => Fair(c)
  PROVE  BothInv'
<1>1. TablesInv /\ RotationInv /\ FailoverInv
  BY Before
<1>2. TablesInv'
  BY Zenon, <1>1, TablesKept DEF Becomes
<1>3. keys' = keys
  OBVIOUS
<1>4. RotationInv' /\ FailoverInv'
  BY Zenon, <1>1, <1>2, <1>3, Moves
<1> QED
  BY <1>4 DEF BothInv

\* A request starts with no key tried, on a loop that fits the provider.
LEMMA StartHolds ==
  ASSUME BothInv, NEW r \in Requests, NEW m \in Models, NEW t, NEW loop \in LoopsFor(m),
         Start(r, m, loop, t)
  PROVE  BothInv'
<1>0. PICK q : q = req[r]
  OBVIOUS
<1> DEFINE single == Breaker!Tripped(m, t)
<1>1. /\ q.pc = "idle" /\ Becomes(r, NewRequest(m, loop, single))
      /\ UNCHANGED <<now, keys, breaker, learned>>
  BY <1>0 DEF Start
<1>2. single \in BOOLEAN
  BY DEF Breaker!Tripped, Breaker!Open
<1> HIDE DEF single
<1>3. PICK b \in BOOLEAN : b = single
  BY <1>2
<1>4. PICK c : c = NewRequest(m, loop, b)
  OBVIOUS
<1>5. loop \in Loops /\ (typ = "zen" => loop.flip # "next")
  BY LoopsFit, Before
<1>6. Walk(c) /\ Fair(c) /\ ~c.cancelled /\ c.loop = loop
  <2>1. SurfaceFor(m) \in Surfaces
    BY Before
  <2> QED
    BY <1>4, <1>5, <2>1, NewKeeps
<1>7. Walk(q)
  BY <1>0, Before
<1>8. ~q.cancelled
  BY <1>1, <1>7 DEF Walk
<1>9. Keeps(q, c)
  BY <1>5, <1>6, <1>8 DEF Keeps, LoopFits
<1> QED
  BY Zenon, <1>0, <1>1, <1>3, <1>4, <1>6, <1>9, QuietMoves

\* A client's leaving voids the promise of failover.
LEMMA DisconnectHolds ==
  ASSUME BothInv, NEW r \in Requests, Disconnect(r)
  PROVE  BothInv'
<1>0. PICK q : q = req[r]
  OBVIOUS
<1>1. PICK c : c = [q EXCEPT !.cancelled = TRUE]
  OBVIOUS
<1>2. /\ q.pc # "idle" /\ Becomes(r, c) /\ UNCHANGED <<now, keys, breaker, learned>>
  BY <1>0, <1>1 DEF Disconnect
<1>3. Keeps(q, c) /\ c.cancelled
  BY <1>0, <1>1, <1>2, Before, LeaveKeeps
<1> QED
  BY Zenon, <1>0, <1>2, <1>3, QuietMoves

\* The key that next() picks is new to the walk.
LEMMA NextKeyHolds ==
  ASSUME BothInv, NEW r \in Requests, NEW i \in Slot, NEW t \in Pool!Reading, NextKey(r, i, t)
  PROVE  BothInv'
<1>0. PICK q : q = req[r]
  OBVIOUS
<1>1. PICK c : c = [q EXCEPT !.pc = "call", !.key = i, !.exclude = @ \cup {i},
                             !.picked = @ + 1, !.contacted[i] = @ + 1]
  OBVIOUS
<1>2. /\ q.pc = "next" /\ MayPick(q) /\ Pool!Pick(i, q.exclude, q.model, t)
      /\ Becomes(r, c) /\ UNCHANGED <<breaker, learned>>
  BY <1>0, <1>1 DEF NextKey
<1>3. Walk(q) /\ TablesInv /\ Pool!TypeOK /\ RotationInv /\ FailoverInv
  BY <1>0, Before
<1>4. i \notin q.exclude /\ q.attempt < MaxKeysPerRequest
  BY <1>2, ChoiceIsFree DEF Pool!Pick, MayPick
<1>5. Keeps(q, c) /\ (Fair(q) => Fair(c))
  BY <1>1, <1>2, <1>3, <1>4, PickKeeps
<1>6. Pool!TypeOK' /\ now' = now
  BY <1>2, <1>3, PickTyped
<1>7. TablesInv'
  BY Zenon, <1>2, <1>3, <1>6, TablesKept DEF Becomes
<1>8. ASSUME Promised, \A j \in ReliableKeys : Unblemished(keys[j])
      PROVE  \A j \in ReliableKeys : Unblemished(keys'[j])
  BY <1>2, <1>3, <1>8, Sizes, PicksLeaveNoBlemish DEF Promised
<1> QED
  BY Zenon, <1>0, <1>2, <1>3, <1>5, <1>7, <1>8, Moves DEF BothInv

\* A walk that gives up did so for a rate limit, or the promise is void.
LEMMA NoKeyHolds ==
  ASSUME BothInv, NEW r \in Requests, NEW t \in Pool!Reading, NoKey(r, t)
  PROVE  BothInv'
<1>0. PICK q : q = req[r]
  OBVIOUS
<1>1. PICK c : c = [q EXCEPT !.pc = "exhausted"]
  OBVIOUS
<1>2. /\ q.pc = "next" /\ (MayPick(q) => Pool!Choice(q.exclude, q.model, t) = {})
      /\ Becomes(r, c) /\ UNCHANGED <<now, keys, breaker, learned>>
  BY <1>0, <1>1 DEF NoKey
<1>3. Walk(q) /\ Pool!TypeOK
  BY <1>0, Before
<1>4. Keeps(q, c) /\ (Fair(q) /\ (q.single \/ q.limited) => Fair(c))
  BY <1>1, <1>2, <1>3, StopKeeps
<1>5. Promised /\ Fair(q) /\ (\A i \in ReliableKeys : Unblemished(keys[i])) => Fair(c)
  BY <1>2, <1>3, <1>4, GoodKeysAreFound
<1> QED
  BY Zenon, <1>0, <1>2, <1>4, <1>5, QuietMoves

\* A failure is filed against the key that was called, never against a good
\* one; the walk goes on.
LEMMA FailureMoves ==
  ASSUME BothInv, NEW r \in Requests, NEW q, NEW c, q = req[r], Keeps(q, c), Becomes(r, c),
         Fair(q) /\ q.key \notin ReliableKeys => Fair(c),
         NEW v \in Answers(r), v # "ok", v # "flip",
         Pool!TypeOK', now' = now, \A j \in Slot : j # q.key => keys'[j] = keys[j],
         UNCHANGED <<breaker, learned>>
  PROVE  BothInv'
<1>1. TablesInv /\ RotationInv /\ FailoverInv
  BY Before
<1>2. TablesInv'
  BY Zenon, <1>1, TablesKept DEF Becomes
<1>3. ASSUME Promised, Fair(q), \A i \in ReliableKeys : Unblemished(keys[i])
      PROVE  Fair(c) /\ \A i \in ReliableKeys : Unblemished(keys'[i])
  <2>1. q.key \notin ReliableKeys
    BY <1>3, GoodKeysAreServed DEF Promised
  <2>2. \A i \in ReliableKeys : keys'[i] = keys[i]
    BY <2>1, Sizes
  <2> QED
    BY <1>3, <2>1, <2>2
<1>4. RotationInv' /\ FailoverInv'
  BY Zenon, <1>1, <1>2, <1>3, Moves
<1> QED
  BY <1>4 DEF BothInv

\* A network error is filed against the key called.
LEMMA NetworkHolds ==
  ASSUME BothInv, NEW r \in Requests, AnswerNetwork(r)
  PROVE  BothInv'
<1>0. PICK q : q = req[r]
  OBVIOUS
<1>1. PICK c : c = Continue(q, "none")
  OBVIOUS
<1>2. /\ q.pc = "call" /\ "network" \in Answers(r) /\ Pool!Cooldown(q.key, FaultCooldown)
      /\ Becomes(r, c) /\ UNCHANGED <<breaker, learned>>
  BY <1>0, <1>1 DEF AnswerNetwork
<1>3. Walk(q) /\ Pool!TypeOK /\ q.key \in Slot
  BY <1>0, <1>2, Before
<1>9. Keeps(q, c) /\ (Fair(q) /\ q.key \notin ReliableKeys => Fair(c))
  BY <1>1, <1>2, <1>3, ContinueKeeps
<1>10. Pool!TypeOK' /\ now' = now
  BY <1>2, <1>3, RotationAssumption, CoolingTyped
<1>11. \A j \in Slot : j # q.key => keys'[j] = keys[j]
  BY <1>2, <1>3, OthersUntouched
<1> QED
  BY <1>0, <1>2, <1>9, <1>10, <1>11, FailureMoves

\* So is an upstream fault.
LEMMA FaultHolds ==
  ASSUME BothInv, NEW r \in Requests, AnswerFault(r)
  PROVE  BothInv'
<1>0. PICK q : q = req[r]
  OBVIOUS
<1>1. PICK c : c = Continue([q EXCEPT !.keyLost = FALSE], "key")
  OBVIOUS
<1>2. /\ q.pc = "call" /\ "fault" \in Answers(r) /\ Pool!Cooldown(q.key, FaultCooldown)
      /\ Becomes(r, c) /\ UNCHANGED <<breaker, learned>>
  BY <1>0, <1>1 DEF AnswerFault
<1>3. Walk(q) /\ Pool!TypeOK /\ q.key \in Slot
  BY <1>0, <1>2, Before
<1>4. PICK n : n = [q EXCEPT !.keyLost = FALSE]
  OBVIOUS
<1>5. Keeps(q, n) /\ n.pc = q.pc /\ n.key = q.key /\ (Fair(q) => Fair(n))
  BY <1>3, <1>4, NoteKeeps
<1>6. Walk(n)
  BY <1>5 DEF Keeps
<1>7. c = Continue(n, "key")
  BY <1>1, <1>4
<1>8. Keeps(n, c) /\ (Fair(n) /\ n.key \notin ReliableKeys => Fair(c))
  BY <1>2, <1>5, <1>6, <1>7, ContinueKeeps
<1>9. Keeps(q, c) /\ (Fair(q) /\ q.key \notin ReliableKeys => Fair(c))
  BY <1>5, <1>8 DEF Keeps
<1>10. Pool!TypeOK' /\ now' = now
  BY <1>2, <1>3, RotationAssumption, CoolingTyped
<1>11. \A j \in Slot : j # q.key => keys'[j] = keys[j]
  BY <1>2, <1>3, OthersUntouched
<1> QED
  BY <1>0, <1>2, <1>9, <1>10, <1>11, FailureMoves

\* A rejected key is disabled.
LEMMA DeadHolds ==
  ASSUME BothInv, NEW r \in Requests, AnswerDead(r)
  PROVE  BothInv'
<1>0. PICK q : q = req[r]
  OBVIOUS
<1>1. PICK c : c = Continue([q EXCEPT !.keyLost = TRUE], "key")
  OBVIOUS
<1>2. /\ q.pc = "call" /\ "dead" \in Answers(r) /\ Pool!Disable(q.key)
      /\ Becomes(r, c) /\ UNCHANGED <<breaker, learned>>
  BY <1>0, <1>1 DEF AnswerDead
<1>3. Walk(q) /\ Pool!TypeOK /\ q.key \in Slot
  BY <1>0, <1>2, Before
<1>4. PICK n : n = [q EXCEPT !.keyLost = TRUE]
  OBVIOUS
<1>5. Keeps(q, n) /\ n.pc = q.pc /\ n.key = q.key /\ (Fair(q) => Fair(n))
  BY <1>3, <1>4, NoteKeeps
<1>6. Walk(n)
  BY <1>5 DEF Keeps
<1>7. c = Continue(n, "key")
  BY <1>1, <1>4
<1>8. Keeps(n, c) /\ (Fair(n) /\ n.key \notin ReliableKeys => Fair(c))
  BY <1>2, <1>5, <1>6, <1>7, ContinueKeeps
<1>9. Keeps(q, c) /\ (Fair(q) /\ q.key \notin ReliableKeys => Fair(c))
  BY <1>5, <1>8 DEF Keeps
<1>10. Pool!TypeOK' /\ now' = now
  BY <1>2, <1>3, DisableTyped
<1>11. \A j \in Slot : j # q.key => keys'[j] = keys[j]
  BY <1>2, <1>3, OthersUntouched
<1> QED
  BY <1>0, <1>2, <1>9, <1>10, <1>11, FailureMoves

\* An account's rate limit is filed against the key called.
LEMMA AccountHolds ==
  ASSUME BothInv, NEW r \in Requests, NEW d \in RetryAfters, AnswerAccount(r, d)
  PROVE  BothInv'
<1>0. PICK q : q = req[r]
  OBVIOUS
<1>1. PICK c : c = Continue([q EXCEPT !.keyLost = FALSE], "key")
  OBVIOUS
<1>2. /\ q.pc = "call" /\ "account" \in Answers(r) /\ Pool!CooldownAccount(q.key, d)
      /\ Becomes(r, c) /\ UNCHANGED <<breaker, learned>>
  BY <1>0, <1>1 DEF AnswerAccount
<1>3. Walk(q) /\ Pool!TypeOK /\ q.key \in Slot
  BY <1>0, <1>2, Before
<1>4. PICK n : n = [q EXCEPT !.keyLost = FALSE]
  OBVIOUS
<1>5. Keeps(q, n) /\ n.pc = q.pc /\ n.key = q.key /\ (Fair(q) => Fair(n))
  BY <1>3, <1>4, NoteKeeps
<1>6. Walk(n)
  BY <1>5 DEF Keeps
<1>7. c = Continue(n, "key")
  BY <1>1, <1>4
<1>8. Keeps(n, c) /\ (Fair(n) /\ n.key \notin ReliableKeys => Fair(c))
  BY <1>2, <1>5, <1>6, <1>7, ContinueKeeps
<1>9. Keeps(q, c) /\ (Fair(q) /\ q.key \notin ReliableKeys => Fair(c))
  BY <1>5, <1>8 DEF Keeps
<1>10. Pool!TypeOK' /\ now' = now
  BY <1>2, <1>3, RotationAssumption, CoolingTyped
<1>11. \A j \in Slot : j # q.key => keys'[j] = keys[j]
  BY <1>2, <1>3, OthersUntouched
<1> QED
  BY <1>0, <1>2, <1>9, <1>10, <1>11, FailureMoves

\* A model's rate limit is filed against the key called, if for that model.
LEMMA LimitHolds ==
  ASSUME BothInv, NEW r \in Requests, NEW d \in RetryAfters \cup {CooldownSeconds},
         NEW t \in Pool!Reading, AnswerLimit(r, d, t)
  PROVE  BothInv'
<1>0. PICK q : q = req[r]
  OBVIOUS
<1>1. PICK c : c = [q EXCEPT !.pc = "file", !.cool = d, !.keyLost = FALSE]
  OBVIOUS
<1>2. /\ q.pc = "call" /\ "limit" \in Answers(r)
      /\ Pool!CooldownModel(q.key, q.model, d, t) \/ (now' = now /\ keys' = keys)
      /\ Becomes(r, c) /\ UNCHANGED <<breaker, learned>>
  BY <1>0, <1>1 DEF AnswerLimit
<1>3. /\ Walk(q) /\ Pool!TypeOK /\ q.key \in Slot /\ q.model \in Models /\ d \in Nat /\ t \in Nat
  BY <1>0, <1>2, Before, ReadingNat, RotationAssumption
<1>4. Keeps(q, c) /\ (Fair(q) /\ q.key \notin ReliableKeys => Fair(c))
  BY <1>1, <1>2, <1>3, LimitKeeps
<1>5. Pool!TypeOK' /\ now' = now /\ \A j \in Slot : j # q.key => keys'[j] = keys[j]
  <2>1. CASE Pool!CooldownModel(q.key, q.model, d, t)
    BY <1>3, <2>1, ModelCoolingTyped, OthersUntouched
  <2>2. CASE now' = now /\ keys' = keys
    BY <1>3, <2>2 DEF Pool!TypeOK
  <2> QED
    BY <1>2, <2>1, <2>2
<1> QED
  BY <1>0, <1>2, <1>4, <1>5, FailureMoves

\* Feeding the breaker concerns no key of the pool.
LEMMA FileHolds ==
  ASSUME BothInv, NEW r \in Requests, NEW t \in Pool!Reading, File429(r, t)
  PROVE  BothInv'
<1>0. PICK q : q = req[r]
  OBVIOUS
<1>1. PICK tripped : tripped = breaker'[q.model].tripped
  OBVIOUS
<1>2. PICK c : c = [Continue(q, "key") EXCEPT !.cool = 0, !.limited = @ \/ tripped]
  OBVIOUS
<1>3. /\ q.pc = "file" /\ Breaker!Record429(q.model, q.key, q.cool, CooldownSeconds, t)
      /\ Becomes(r, c) /\ UNCHANGED <<keys, learned>>
  BY <1>0, <1>1, <1>2 DEF File429
<1>4. Walk(q) /\ Pool!TypeOK /\ Breaker!TypeOK /\ q.key \in Slot /\ q.model \in Models
  BY <1>0, <1>3, Before
<1>5. q.cool \in Nat /\ CooldownSeconds \in Nat /\ t \in Nat
  BY <1>4, WalkFields, ReadingNat, RotationAssumption
<1>6. Breaker!TypeOK' /\ now' = now
  BY <1>3, <1>4, <1>5, RecordTyped
<1>7. tripped \in BOOLEAN
  BY <1>1, <1>4, <1>6 DEF Breaker!TypeOK, Breaker!ModelBreaker
<1>8. Keeps(q, c) /\ (Fair(q) => Fair(c))
  BY <1>2, <1>3, <1>4, <1>7, FiledKeeps
<1>9. TablesInv /\ RotationInv /\ FailoverInv
  BY Before
<1>10. TablesInv'
  BY Zenon, <1>3, <1>6, <1>9, TablesKept DEF Becomes
<1>11. RotationInv' /\ FailoverInv'
  BY Zenon, <1>0, <1>3, <1>8, <1>9, <1>10, Moves
<1> QED
  BY <1>11 DEF BothInv

\* A request the upstream refuses ends.
LEMMA FailFastHolds ==
  ASSUME BothInv, NEW r \in Requests, AnswerFailFast(r)
  PROVE  BothInv'
<1>0. PICK q : q = req[r]
  OBVIOUS
<1>1. q.pc = "call" /\ UNCHANGED <<now, keys, breaker, learned>>
  BY <1>0 DEF AnswerFailFast
<1>2. PICK status \in {0, 200, 400, 429, 503} : Becomes(r, Done(q, status, 0, "failfast"))
  BY <1>0 DEF AnswerFailFast
<1>3. PICK c : c = Done(q, status, 0, "failfast") /\ Becomes(r, c)
  BY Zenon, <1>2
<1>4. Keeps(q, c) /\ (Fair(q) => Fair(c))
  BY <1>0, <1>1, <1>3, Before, DoneKeeps
<1> QED
  BY <1>0, <1>1, <1>3, <1>4, QuietMoves

\* A 200 ends the request and clears the breaker.
LEMMA OKHolds ==
  ASSUME BothInv, NEW r \in Requests, AnswerOK(r)
  PROVE  BothInv'
<1>0. PICK q : q = req[r]
  OBVIOUS
<1>1. q.pc = "call" /\ Breaker!Success(q.model) /\ UNCHANGED <<keys, learned>>
  BY <1>0 DEF AnswerOK
<1>2. PICK status \in {0, 200, 400, 429, 503}, end \in {"served", "failfast", "exhausted"} :
        end # "exhausted" /\ Becomes(r, Done(q, status, 0, end))
  BY <1>0 DEF AnswerOK
<1>3. PICK c : c = Done(q, status, 0, end) /\ Becomes(r, c)
  BY Zenon, <1>2
<1>4. TablesInv /\ RotationInv /\ FailoverInv /\ Breaker!TypeOK /\ q.model \in Models /\ Walk(q)
  BY <1>0, Before
<1>5. Keeps(q, c) /\ (Fair(q) => Fair(c))
  BY <1>1, <1>2, <1>3, <1>4, DoneKeeps
<1>6. Breaker!TypeOK' /\ now' = now
  BY <1>1, <1>4, SuccessTyped
<1>7. TablesInv'
  BY Zenon, <1>1, <1>2, <1>4, <1>6, TablesKept DEF Becomes
<1>8. RotationInv' /\ FailoverInv'
  BY <1>0, <1>1, <1>3, <1>4, <1>5, <1>7, Moves
<1> QED
  BY <1>8 DEF BothInv

\* On "flipsurface" the walk retries, fails or goes on; it never goes on past
\* a good key.
LEMMA FlipHolds ==
  ASSUME BothInv, NEW r \in Requests, NEW lastUp \in {"key", "request"}, AnswerFlip(r, lastUp)
  PROVE  BothInv'
<1>0. PICK p : p = req[r]
  OBVIOUS
<1>1. PICK q : q = [p EXCEPT !.keyLost = FALSE, !.lastUp = lastUp]
  OBVIOUS
<1>2. q = Flipped(r, lastUp)
  BY <1>0, <1>1 DEF Flipped
<1>3. Walk(p) /\ LoopFits(p) /\ p.model \in Models
  BY <1>0, Before
<1>4. /\ Keeps(p, q) /\ q.pc = p.pc /\ q.key = p.key /\ (Fair(p) => Fair(q))
      /\ q.loop = p.loop /\ q.model = p.model
  BY <1>1, <1>3, NoteKeeps
<1>5. Walk(q) /\ q.surface \in Surfaces /\ Other(q.surface) \in Surfaces
  BY <1>4, WalkFields DEF Keeps, Surfaces, Other
<1>6. q.pc = "call" /\ "flip" \in Answers(r) /\ UNCHANGED <<now, keys, breaker>>
  BY <1>2 DEF AnswerFlip
<1>7. ASSUME NEW c, Keeps(q, c), Becomes(r, c),
             learned' = learned \/ learned' \in [Models -> Surfaces \cup {""}],
             Promised /\ Fair(q) => Fair(c)
      PROVE  BothInv'
  <2>1. Keeps(p, c)
    BY <1>4, <1>7 DEF Keeps
  <2> QED
    BY Zenon, <1>0, <1>4, <1>6, <1>7, <2>1, QuietMoves
<1>8. CASE q.loop.flip = "retry" /\ FlipAndRetry(r, lastUp)
  <2>1. PICK c : c = [q EXCEPT !.pc = "next", !.key = 0, !.surface = Other(q.surface),
                               !.exclude = @ \ {q.key}, !.picked = @ - 1,
                               !.contacted[q.key] = @ - 1]
    OBVIOUS
  <2>2. Becomes(r, c) /\ learned' = [learned EXCEPT ![q.model] = Other(q.surface)]
    <3>1. q \in Row
      BY <1>5, Rows DEF Walk
    <3>2. c = [q EXCEPT !.pc = "next", !.key = 0, !.surface = Other(@),
                        !.exclude = @ \ {q.key}, !.picked = @ - 1,
                        !.contacted[q.key] = @ - 1]
      BY <2>1, <3>1 DEF Row
    <3> QED
      BY Zenon, <1>2, <1>8, <3>2 DEF FlipAndRetry
  <2>3. learned \in [Models -> Surfaces \cup {""}]
    BY Zenon, Before DEF TablesInv
  <2>4. learned' \in [Models -> Surfaces \cup {""}]
    <3>1. ASSUME NEW S, learned \in [Models -> S], Surfaces \subseteq S
          PROVE  learned' \in [Models -> S]
      BY <1>5, <2>2, <3>1
    <3> QED
      BY Zenon, <2>3, <3>1
  <2>5. Keeps(q, c) /\ (Fair(q) => Fair(c))
    BY <1>5, <1>6, <2>1, RetryKeeps
  <2> QED
    BY Zenon, <1>7, <2>2, <2>4, <2>5
<1>9. CASE q.loop.flip = "fail" /\ learned' = learned
           /\ Becomes(r, Done(q, IF lastUp = "request" THEN 400 ELSE 503, 0, "failfast"))
  <2>1. PICK status \in {0, 200, 400, 429, 503} : status = IF lastUp = "request" THEN 400 ELSE 503
    OBVIOUS
  <2>2. PICK c : c = Done(q, status, 0, "failfast")
    OBVIOUS
  <2>3. Becomes(r, c)
    BY Zenon, <1>9, <2>1, <2>2
  <2>4. Keeps(q, c) /\ (Fair(q) => Fair(c))
    <3>1. q.pc # "idle" /\ 0 \in Nat
      BY <1>6
    <3>2. ASSUME NEW end \in {"failfast"}
          PROVE  Keeps(q, Done(q, status, 0, end)) /\ (Fair(q) => Fair(Done(q, status, 0, end)))
      BY <1>5, <3>1, DoneKeeps
    <3> QED
      BY <2>2, <3>2
  <2>5. learned' = learned
    BY <1>9
  <2> QED
    BY Zenon, <1>7, <2>3, <2>4, <2>5
<1>10. CASE q.loop.flip = "next" /\ learned' = learned /\ Becomes(r, Continue(q, lastUp))
  <2>1. PICK c : c = Continue(q, lastUp)
    OBVIOUS
  <2>2. Keeps(q, c) /\ (Fair(q) /\ q.key \notin ReliableKeys => Fair(c))
    BY <1>5, <1>6, <2>1, ContinueKeeps
  <2>3. typ # "zen"
    BY <1>3, <1>4, <1>6, <1>10 DEF LoopFits
  <2>4. Promised => q.key \notin ReliableKeys
    BY <1>0, <1>4, <1>6, <2>3, GoodKeysAreServed DEF Promised
  <2> QED
    BY Zenon, <1>7, <1>10, <2>1, <2>2, <2>4
<1> QED
  BY Zenon, <1>2, <1>8, <1>9, <1>10 DEF AnswerFlip

\* exhausted() answers with a status the proxy sends, and a wait in ticks.
LEMMA ExhaustedHolds ==
  ASSUME BothInv, NEW r \in Requests, NEW t \in Pool!Reading, Exhausted(r, t)
  PROVE  BothInv'
<1>0. PICK q : q = req[r]
  OBVIOUS
<1>1. q.pc = "exhausted" /\ UNCHANGED <<now, keys, breaker, learned>>
  BY <1>0 DEF Exhausted
<1>2. Walk(q) /\ Pool!TypeOK /\ q.model \in Models
  BY <1>0, Before
<1>3. PICK status \in {0, 200, 400, 429, 503}, wait \in Nat :
        Becomes(r, Done(q, status, wait, "exhausted"))
  <2> DEFINE derived == IF q.lastUp = "request" /\ ~q.keyLost THEN 400 ELSE 503
  <2>1. Becomes(r, CASE Pool!RateLimited(q.model, t) ->
                          Done(q, 429, Pool!RetryWait(q.model, t), "exhausted")
                     [] ~Pool!RateLimited(q.model, t) /\ q.limited ->
                          Done(q, 429, 1, "exhausted")
                     [] OTHER -> Done(q, derived, 0, "exhausted"))
    BY <1>0 DEF Exhausted
  <2>2. derived \in {0, 200, 400, 429, 503}
    OBVIOUS
  <2> HIDE DEF derived
  <2>3. CASE Pool!RateLimited(q.model, t)
    <3>1. Pool!RetryWait(q.model, t) \in Nat
      BY <1>2, <2>3, WaitNat
    <3> QED
      BY <2>1, <2>3, <3>1
  <2>4. CASE ~Pool!RateLimited(q.model, t) /\ q.limited
    BY <2>1, <2>4
  <2>5. CASE ~Pool!RateLimited(q.model, t) /\ ~q.limited
    BY <2>1, <2>2, <2>5
  <2> QED
    BY <2>3, <2>4, <2>5
<1>4. PICK c : c = Done(q, status, wait, "exhausted") /\ Becomes(r, c)
  BY Zenon, <1>3
<1>5. Keeps(q, c) /\ (Fair(q) => Fair(c))
  BY <1>1, <1>2, <1>4, DoneKeeps
<1> QED
  BY <1>0, <1>1, <1>4, <1>5, QuietMoves

\* Every step a request takes by itself keeps the invariants.
LEMMA RunHolds ==
  ASSUME BothInv, NEW r \in Requests, Run(r)
  PROVE  BothInv'
<1>1. CASE \E t \in Pool!Reading, i \in Slot : NextKey(r, i, t)
  BY <1>1, NextKeyHolds
<1>2. CASE \E t \in Pool!Reading : NoKey(r, t)
  BY <1>2, NoKeyHolds
<1>3. CASE AnswerNetwork(r)
  BY <1>3, NetworkHolds
<1>4. CASE AnswerFault(r)
  BY <1>4, FaultHolds
<1>5. CASE AnswerDead(r)
  BY <1>5, DeadHolds
<1>6. CASE \E d \in RetryAfters : AnswerAccount(r, d)
  BY <1>6, AccountHolds
<1>7. CASE \E d \in RetryAfters \cup {CooldownSeconds}, t \in Pool!Reading : AnswerLimit(r, d, t)
  BY <1>7, LimitHolds
<1>8. CASE \E t \in Pool!Reading : File429(r, t)
  BY <1>8, FileHolds
<1>9. CASE AnswerFailFast(r)
  BY <1>9, FailFastHolds
<1>10. CASE \E lastUp \in {"key", "request"} : AnswerFlip(r, lastUp)
  BY <1>10, FlipHolds
<1>11. CASE AnswerOK(r)
  BY <1>11, OKHolds
<1>12. CASE \E t \in Pool!Reading : Exhausted(r, t)
  BY <1>12, ExhaustedHolds
<1> QED
  BY Zenon, <1>1, <1>2, <1>3, <1>4, <1>5, <1>6, <1>7, <1>8, <1>9, <1>10, <1>11, <1>12 DEF Run

\* The invariants hold initially.
LEMMA InitHolds == Init => BothInv
<1> SUFFICES ASSUME Init PROVE BothInv
  OBVIOUS
<1>1. /\ typ \in ProviderTypes /\ Pool!Init /\ Breaker!Init
      /\ learned = [m \in Models |-> ""] /\ req = [r \in Requests |-> IdleRequest]
  BY Zenon DEF Init
<1>a. Pool!Init
  BY Zenon, <1>1
<1>b. Breaker!Init
  BY Zenon, <1>1
<1>2. Pool!TypeOK
  BY <1>a, RotationAssumption DEF Pool!Init, Pool!TypeOK, Pool!FreshKey, Pool!KeyState
<1>3. Breaker!TypeOK
  BY <1>b, EntriesTyped DEF Breaker!Init, Breaker!TypeOK
<1>4. learned \in [Models -> Surfaces \cup {""}]
  BY Zenon, <1>1
<1>5. TablesInv
  BY Zenon, <1>1, <1>2, <1>3, <1>4 DEF TablesInv
<1>6. \A m \in Models : SurfaceFor(m) \in Surfaces
  BY Zenon, <1>4, SurfacesTyped
<1>7. Walk(IdleRequest) /\ IdleRequest.pc = "idle" /\ Fair(IdleRequest)
  BY <1>6, IdleWalks
<1>8. IdleRequest \in Request /\ LoopFits(IdleRequest)
  BY <1>7 DEF Walk, LoopFits
<1>9. \A r \in Requests : req[r] = IdleRequest
  BY Zenon, <1>1
<1>10. req \in [Requests -> Request]
  BY Zenon, <1>1, <1>8
<1>11. WalksInv
  BY Zenon, <1>7, <1>8, <1>9, <1>10 DEF WalksInv
<1>12. \A i \in ReliableKeys : Unblemished(keys[i])
  BY <1>a, Sizes DEF Pool!Init, Pool!FreshKey, Unblemished, Pool!Slot, Slot
<1>13. FailoverInv
  BY Zenon, <1>7, <1>9, <1>12 DEF FailoverInv
<1> QED
  BY Zenon, <1>5, <1>11, <1>13 DEF BothInv, RotationInv

\* Every step keeps the invariants.
LEMMA StepHolds == BothInv /\ [Next]_vars => BothInv'
<1> SUFFICES ASSUME BothInv, [Next]_vars PROVE BothInv'
  OBVIOUS
<1>1. CASE Tick
  BY <1>1, TickHolds
<1>2. CASE \E r \in Requests, m \in Models, t \in Pool!Reading :
             \E loop \in LoopsFor(m) : Start(r, m, loop, t)
  BY <1>2, StartHolds
<1>3. CASE \E r \in Requests : Disconnect(r)
  BY <1>3, DisconnectHolds
<1>4. CASE \E r \in Requests : Run(r)
  BY <1>4, RunHolds
<1>5. CASE UNCHANGED vars
  <2>1. UNCHANGED <<typ, now, keys, breaker, learned, req>>
    BY <1>5 DEF vars
  <2>2. TablesInv'
    <3>1. TablesInv
      BY Zenon DEF BothInv, RotationInv
    <3> QED
      BY Zenon, <2>1, <3>1, TablesKept
  <2>3. WalksInv' /\ FailoverInv'
    BY Zenon, <2>1 DEF BothInv, RotationInv, WalksInv, LoopFits, FailoverInv, Promised
  <2> QED
    BY Zenon, <2>2, <2>3 DEF BothInv, RotationInv
<1> QED
  BY Zenon, <1>1, <1>2, <1>3, <1>4, <1>5 DEF Next

\* The two invariants hold in every reachable state.
LEMMA AlwaysHolds == Spec => []BothInv
<1>1. Init => BothInv
  BY InitHolds
<1>2. BothInv /\ [Next]_vars => BothInv'
  BY StepHolds
<1> QED
  BY <1>1, <1>2, PTL DEF Spec

-----------------------------------------------------------------------------
(***************************************************************************)
(* The theorems.                                                           *)
(***************************************************************************)
\* Pool, breaker and requests stay in their domains: no walk counts past the
\* budget or the pool, and no answer has a status the proxy never sends.
THEOREM RotationTypeCorrect == Spec => []TypeOK
<1>1. BothInv => TypeOK
  BY Zenon DEF BothInv, RotationInv, TablesInv, WalksInv, TypeOK
<1> QED
  BY <1>1, AlwaysHolds, PTL

\* Whatever other requests do to the pool, a walk presents no key twice: what
\* it has contacted is what it excludes.
THEOREM KeysAreTriedOnce == Spec => []NoKeyTriedTwice
<1>1. BothInv => NoKeyTriedTwice
  <2> SUFFICES ASSUME BothInv, NEW r \in Requests, NEW i \in Slot
               PROVE  req[r].contacted[i] =< 1
    BY DEF NoKeyTriedTwice
  <2>1. req[r].contacted[i] = IF i \in req[r].exclude THEN 1 ELSE 0
    BY Before DEF Walk
  <2> QED
    BY <2>1
<1> QED
  BY <1>1, AlwaysHolds, PTL

\* Failover works for every pool size, selection mode, breaker setting and
\* interleaving of requests: a walk that a rate limit does not stop ends at a
\* good key, if there is one and the budget covers the pool.
THEOREM FailoverWorks == Spec => []FailoverReachesGoodKey
<1>1. BothInv => FailoverReachesGoodKey
  <2> SUFFICES ASSUME BothInv, NEW r \in Requests,
                      ReliableKeys # {}, DailyCap = 0, NumKeys =< MaxKeysPerRequest,
                      \A s \in Requests : ~req[s].cancelled, req[r].end = "exhausted"
               PROVE  req[r].single \/ req[r].limited
    BY Zenon DEF FailoverReachesGoodKey
  <2>1. Promised
    BY DEF Promised
  <2>2. Fair(req[r])
    BY <2>1 DEF BothInv, FailoverInv
  <2> QED
    BY <2>2 DEF Fair
<1> QED
  BY <1>1, AlwaysHolds, PTL

-----------------------------------------------------------------------------
(***************************************************************************)
(* Folds over a sequence that grows.                                       *)
(***************************************************************************)
\* What is folded here: a client's parser over events, or the calls held back.
Step(which, x, y) == IF which = "parse" THEN Parsed(x, y) ELSE EmitToolCall(x, y)

\* The library's fold is a table over the sets of positions, from the last one.
Folding(it, which, base, s) ==
  it = [x \in SUBSET (DOMAIN s) |->
          IF x = {} THEN base ELSE Step(which, it[x \ {Max(x)}], s[Max(x)])]

\* The last of the first positions.
LEMMA MaxOfFirst ==
  ASSUME NEW n \in Nat
  PROVE  /\ Max(1 .. n + 1) = n + 1 /\ (1 .. n + 1) \ {n + 1} = 1 .. n
         /\ 1 .. 0 = {} /\ 1 .. n + 1 # {}
<1>1. n + 1 \in 1 .. n + 1 /\ \A k \in 1 .. n + 1 : n + 1 >= k
  OBVIOUS
<1>2. \A m \in 1 .. n + 1 : (\A k \in 1 .. n + 1 : m >= k) => m = n + 1
  OBVIOUS
<1>3. Max(1 .. n + 1) = n + 1
  BY <1>1, <1>2 DEF Max
<1> QED
  BY <1>3

\* So is that of any set below a bound it reaches.
LEMMA MaxReached ==
  ASSUME NEW n \in Nat, NEW x, x \subseteq 1 .. n + 1, n + 1 \in x
  PROVE  Max(x) = n + 1 /\ x \ {n + 1} \subseteq 1 .. n
<1>1. \A k \in x : n + 1 >= k /\ k \in Nat
  OBVIOUS
<1>2. \A m \in x : (\A k \in x : m >= k) => m = n + 1
  BY <1>1
<1>3. Max(x) = n + 1
  BY <1>1, <1>2 DEF Max
<1> QED
  BY <1>3

\* There is such a table: it grows by one position at a time.
LEMMA FoldExists ==
  ASSUME NEW which, NEW base, NEW s, NEW n \in Nat, DOMAIN s = 1 .. n
  PROVE  \E it : Folding(it, which, base, s)
<1> DEFINE Partial(it, k) ==
             it = [x \in SUBSET (1 .. k) |->
                     IF x = {} THEN base ELSE Step(which, it[x \ {Max(x)}], s[Max(x)])]
           Bad == {k \in Nat : ~\E it : Partial(it, k)}
<1>1. 0 \notin Bad
  <2>1. PICK it : it = [x \in SUBSET (1 .. 0) |-> base]
    OBVIOUS
  <2>2. \A x \in SUBSET (1 .. 0) : x = {}
    OBVIOUS
  <2>3. Partial(it, 0)
    BY <2>1, <2>2
  <2> QED
    BY <2>3
<1>2. ASSUME NEW k \in Nat, k \notin Bad PROVE k + 1 \notin Bad
  <2>1. PICK it : Partial(it, k)
    BY <1>2
  <2>2. PICK jt : jt = [x \in SUBSET (1 .. k + 1) |->
                          IF k + 1 \in x THEN Step(which, it[x \ {k + 1}], s[k + 1]) ELSE it[x]]
    OBVIOUS
  <2>3. ASSUME NEW x \in SUBSET (1 .. k)
        PROVE  /\ it[x] = IF x = {} THEN base ELSE Step(which, it[x \ {Max(x)}], s[Max(x)])
               /\ jt[x] = it[x] /\ jt[x \ {Max(x)}] = it[x \ {Max(x)}]
    <3>1. x \in SUBSET (1 .. k + 1) /\ k + 1 \notin x
      OBVIOUS
    <3>2. x \ {Max(x)} \in SUBSET (1 .. k + 1) /\ k + 1 \notin x \ {Max(x)}
      BY <3>1
    <3>3. it[x] = IF x = {} THEN base ELSE Step(which, it[x \ {Max(x)}], s[Max(x)])
      BY <2>1
    <3> QED
      BY <2>2, <3>1, <3>2, <3>3
  <2>4. ASSUME NEW x \in SUBSET (1 .. k + 1), k + 1 \in x
        PROVE  jt[x] = Step(which, jt[x \ {Max(x)}], s[Max(x)])
    <3>1. Max(x) = k + 1 /\ x \ {k + 1} \in SUBSET (1 .. k)
      BY <2>4, MaxReached
    <3>2. jt[x] = Step(which, it[x \ {k + 1}], s[k + 1])
      BY <2>2, <2>4
    <3> QED
      BY <2>3, <3>1, <3>2
  <2>5. \A x \in SUBSET (1 .. k + 1) : k + 1 \notin x => x \in SUBSET (1 .. k)
    OBVIOUS
  <2>6. \A x \in SUBSET (1 .. k + 1) :
          jt[x] = IF x = {} THEN base ELSE Step(which, jt[x \ {Max(x)}], s[Max(x)])
    BY <2>3, <2>4, <2>5
  <2>7. Partial(jt, k + 1)
    BY <2>2, <2>6
  <2> QED
    BY <2>7
<1>3. ASSUME Bad # {} PROVE FALSE
  <2>1. PICK k \in Bad : \A j \in Bad : k =< j
    BY <1>3, NatHasLeast
  <2> HIDE DEF Bad
  <2>2. k \in Nat /\ k # 0
    BY <1>1 DEF Bad
  <2>3. k - 1 \in Nat /\ k - 1 \notin Bad /\ k - 1 + 1 = k
    BY <2>1, <2>2
  <2> QED
    BY <1>2, <2>3
<1>4. n \notin Bad
  BY <1>3
<1> QED
  BY <1>4 DEF Folding

\* The fold over one more element is a step further.
LEMMA FoldGrows ==
  ASSUME NEW which, NEW base, NEW s, NEW t, NEW n \in Nat, DOMAIN s = 1 .. n, DOMAIN t = 1 .. n + 1,
         \A i \in 1 .. n : t[i] = s[i],
         NEW it, Folding(it, which, base, s), NEW jt, Folding(jt, which, base, t)
  PROVE  jt[DOMAIN t] = Step(which, it[DOMAIN s], t[n + 1])
<1> DEFINE Bad == {k \in Nat : k =< n /\ jt[1 .. k] # it[1 .. k]}
<1>1. \A x \in SUBSET (1 .. n) :
        it[x] = IF x = {} THEN base ELSE Step(which, it[x \ {Max(x)}], s[Max(x)])
  BY DEF Folding
<1>2. \A x \in SUBSET (1 .. n + 1) :
        jt[x] = IF x = {} THEN base ELSE Step(which, jt[x \ {Max(x)}], t[Max(x)])
  BY DEF Folding
<1>3. jt[1 .. 0] = it[1 .. 0]
  <2>1. 1 .. 0 = {} /\ {} \in SUBSET (1 .. n) /\ {} \in SUBSET (1 .. n + 1)
    OBVIOUS
  <2>2. it[{}] = base
    BY <1>1, <2>1
  <2>3. jt[{}] = base
    BY <1>2, <2>1
  <2> QED
    BY <2>1, <2>2, <2>3
<1>4. ASSUME NEW k \in Nat, k < n, jt[1 .. k] = it[1 .. k] PROVE jt[1 .. k + 1] = it[1 .. k + 1]
  <2>1. 1 .. k + 1 \in SUBSET (1 .. n) /\ 1 .. k + 1 \in SUBSET (1 .. n + 1) /\ k + 1 \in 1 .. n
    BY <1>4
  <2>2. /\ 1 .. k + 1 # {} /\ Max(1 .. k + 1) = k + 1
        /\ (1 .. k + 1) \ {k + 1} = 1 .. k
    BY MaxOfFirst
  <2>3. it[1 .. k + 1] = Step(which, it[1 .. k], s[k + 1])
    BY <1>1, <2>1, <2>2
  <2>4. jt[1 .. k + 1] = Step(which, jt[1 .. k], t[k + 1])
    BY <1>2, <2>1, <2>2
  <2> QED
    BY <1>4, <2>1, <2>3, <2>4
<1>5. ASSUME Bad # {} PROVE FALSE
  <2>1. PICK k \in Bad : \A j \in Bad : k =< j
    BY <1>5, NatHasLeast
  <2>2. k \in Nat /\ k =< n /\ k # 0 /\ jt[1 .. k] # it[1 .. k]
    BY <1>3
  <2>3. k - 1 \in Nat /\ k - 1 < n /\ k - 1 + 1 = k /\ k - 1 \notin Bad
    BY <2>1, <2>2
  <2>4. jt[1 .. k - 1] = it[1 .. k - 1]
    BY <2>3
  <2> QED
    BY <1>4, <2>2, <2>3, <2>4
<1>6. jt[1 .. n] = it[1 .. n]
  BY <1>5
<1>7. 1 .. n + 1 \in SUBSET (1 .. n + 1)
  OBVIOUS
<1>8. jt[1 .. n + 1] = Step(which, jt[1 .. n], t[n + 1])
  <2>1. /\ 1 .. n + 1 # {} /\ Max(1 .. n + 1) = n + 1
        /\ (1 .. n + 1) \ {n + 1} = 1 .. n
    BY MaxOfFirst
  <2> QED
    BY <1>2, <1>7, <2>1
<1> QED
  BY <1>6, <1>8

\* The library's folds are these tables.
LEMMA FoldsAre ==
  ASSUME NEW s, NEW n \in Nat, DOMAIN s = 1 .. n, NEW base
  PROVE  /\ \E it : Folding(it, "parse", base, s) /\ FoldLeft(Parsed, base, s) = it[DOMAIN s]
         /\ \E it : Folding(it, "emit", base, s) /\ FoldLeft(EmitToolCall, base, s) = it[DOMAIN s]
<1> DEFINE P(it) == it = [x \in SUBSET (DOMAIN s) |->
                            IF x = {} THEN base ELSE Parsed(it[x \ {Max(x)}], s[Max(x)])]
           E(it) == it = [x \in SUBSET (DOMAIN s) |->
                            IF x = {} THEN base ELSE EmitToolCall(it[x \ {Max(x)}], s[Max(x)])]
<1>1. \A it : Folding(it, "parse", base, s) <=> P(it)
  BY Zenon DEF Folding, Step
<1>2. \A it : Folding(it, "emit", base, s) <=> E(it)
  <2>1. "emit" # "parse"
    OBVIOUS
  <2> QED
    BY <2>1, Zenon DEF Folding, Step
<1>3. FoldLeft(Parsed, base, s) = (CHOOSE it : P(it))[DOMAIN s]
  BY DEF FoldLeft, MapThenFoldSet
<1>4. FoldLeft(EmitToolCall, base, s) = (CHOOSE it : E(it))[DOMAIN s]
  BY DEF FoldLeft, MapThenFoldSet
<1>5. (\E it : P(it)) /\ (\E it : E(it))
  BY <1>1, <1>2, FoldExists
<1> QED
  BY <1>1, <1>2, <1>3, <1>4, <1>5

\* A sequence, of whatever elements.
Sequence(s) == \E S : s \in Seq(S)

LEMMA SequenceAppends ==
  ASSUME NEW s, Sequence(s), NEW e
  PROVE  /\ Len(s) \in Nat /\ DOMAIN s = 1 .. Len(s)
         /\ Sequence(Append(s, e)) /\ DOMAIN Append(s, e) = 1 .. Len(s) + 1
         /\ \A i \in 1 .. Len(s) : Append(s, e)[i] = s[i]
         /\ Append(s, e)[Len(s) + 1] = e
         /\ s \o <<e>> = Append(s, e)
<1>1. PICK S : s \in Seq(S)
  BY DEF Sequence
<1>2. PICK T : T = S \cup {e}
  OBVIOUS
<1>3. s \in Seq(T) /\ e \in T
  BY <1>1, <1>2
<1>4. Append(s, e) \in Seq(T)
  BY <1>3
<1>5. Sequence(Append(s, e))
  BY <1>4, Zenon DEF Sequence
<1> QED
  BY <1>3, <1>4, <1>5

\* One more element is one more step.
LEMMA FoldAppends ==
  ASSUME NEW s, Sequence(s), NEW e, NEW base
  PROVE  /\ FoldLeft(Parsed, base, Append(s, e)) = Parsed(FoldLeft(Parsed, base, s), e)
         /\ FoldLeft(EmitToolCall, base, Append(s, e)) = EmitToolCall(FoldLeft(EmitToolCall, base, s), e)
<1>1. PICK n : n = Len(s)
  OBVIOUS
<1>2. PICK t : t = Append(s, e)
  OBVIOUS
<1>3. PICK m : m = n + 1
  OBVIOUS
<1>4. /\ n \in Nat /\ m \in Nat
      /\ DOMAIN s = 1 .. n /\ DOMAIN t = 1 .. m /\ DOMAIN t = 1 .. n + 1
      /\ \A i \in 1 .. n : t[i] = s[i]
      /\ t[n + 1] = e
  BY <1>1, <1>2, <1>3, SequenceAppends
<1>5. PICK it : Folding(it, "parse", base, s) /\ FoldLeft(Parsed, base, s) = it[DOMAIN s]
  BY <1>4, FoldsAre
<1>6. PICK jt : Folding(jt, "parse", base, t) /\ FoldLeft(Parsed, base, t) = jt[DOMAIN t]
  BY <1>4, FoldsAre
<1>7. jt[DOMAIN t] = Step("parse", it[DOMAIN s], e)
  BY <1>4, <1>5, <1>6, FoldGrows
<1>8. PICK kt : Folding(kt, "emit", base, s) /\ FoldLeft(EmitToolCall, base, s) = kt[DOMAIN s]
  BY <1>4, FoldsAre
<1>9. PICK lt : Folding(lt, "emit", base, t) /\ FoldLeft(EmitToolCall, base, t) = lt[DOMAIN t]
  BY <1>4, FoldsAre
<1>10. lt[DOMAIN t] = Step("emit", kt[DOMAIN s], e)
  BY <1>4, <1>8, <1>9, FoldGrows
<1>11. \A x : Step("parse", x, e) = Parsed(x, e) /\ Step("emit", x, e) = EmitToolCall(x, e)
  <2>1. "emit" # "parse"
    OBVIOUS
  <2> QED
    BY <2>1, Zenon DEF Step
<1> QED
  BY <1>2, <1>5, <1>6, <1>7, <1>8, <1>9, <1>10, <1>11, Zenon

\* The positions of a fold, one after the other.
Emitting(it, base, s, n) ==
  /\ it[1 .. 0] = base
  /\ \A k \in Nat : k < n => it[1 .. k + 1] = EmitToolCall(it[1 .. k], s[k + 1])

LEMMA FoldSteps ==
  ASSUME NEW base, NEW s, NEW n \in Nat, DOMAIN s = 1 .. n, NEW it, Folding(it, "emit", base, s)
  PROVE  Emitting(it, base, s, n)
<1>1. \A x \in SUBSET (1 .. n) :
        it[x] = IF x = {} THEN base ELSE EmitToolCall(it[x \ {Max(x)}], s[Max(x)])
  <2>1. "emit" # "parse"
    OBVIOUS
  <2>2. \A x, y : Step("emit", x, y) = EmitToolCall(x, y)
    BY <2>1, Zenon DEF Step
  <2>3. \A x \in SUBSET (1 .. n) :
          it[x] = IF x = {} THEN base ELSE Step("emit", it[x \ {Max(x)}], s[Max(x)])
    BY DEF Folding
  <2> QED
    BY <2>2, <2>3
<1>2. it[1 .. 0] = base
  <2>1. 1 .. 0 = {} /\ {} \in SUBSET (1 .. n)
    OBVIOUS
  <2> QED
    BY <1>1, <2>1
<1>3. ASSUME NEW k \in Nat, k < n PROVE it[1 .. k + 1] = EmitToolCall(it[1 .. k], s[k + 1])
  <2>1. 1 .. k + 1 \in SUBSET (1 .. n)
    BY <1>3
  <2>2. /\ 1 .. k + 1 # {} /\ Max(1 .. k + 1) = k + 1
        /\ (1 .. k + 1) \ {k + 1} = 1 .. k
    BY <2>1, MaxOfFirst
  <2> QED
    BY <1>1, <2>1, <2>2
<1> QED
  BY <1>2, <1>3 DEF Emitting

-----------------------------------------------------------------------------
(***************************************************************************)
(* What a strict client has made of a writer's events.                     *)
(***************************************************************************)
Unread == [ok |-> TRUE, at |-> "before", next |-> 0]

\* A valid beginning: the client stands there, and next is the next index.
Stands(s, at, next) ==
  DOMAIN s = {"ok", "at", "next"} /\ s.ok /\ s.at = at /\ s.next = next

\* The translator's variables agree with what the client read: it is in a text
\* block where the writer thinks one is open, and expects the writer's index.
WriterShape(v) ==
  /\ DOMAIN v = {"text", "open", "block", "pending", "sawTools", "finish", "out"}
  /\ v.block \in Nat /\ v.open \in BOOLEAN
  /\ Sequence(v.out) /\ Sequence(v.pending)

InStep(v) ==
  /\ WriterShape(v)
  /\ v.open => Stands(FoldLeft(Parsed, Unread, v.out), "block", v.block + 1)
  /\ ~v.open => Stands(FoldLeft(Parsed, Unread, v.out), "between", v.block)

\* How the client moves on at every event a writer writes.
LEMMA ClientMoves ==
  ASSUME NEW s, NEW n \in Nat
  PROVE  /\ Stands(s, "before", n) => Stands(Parsed(s, MessageStart), "between", n)
         /\ \A kind, id : Stands(s, "between", n) => Stands(Parsed(s, BlockStart(n, kind, id)), "block", n + 1)
         /\ \A body : Stands(s, "block", n + 1) => Stands(Parsed(s, BlockDelta(n, body)), "block", n + 1)
         /\ Stands(s, "block", n + 1) => Stands(Parsed(s, BlockStop(n)), "between", n + 1)
         /\ \A stop : Stands(s, "between", n) => Stands(Parsed(s, MessageDelta(stop)), "ending", n)
         /\ Stands(s, "ending", n) => Stands(Parsed(s, MessageStop), "after", n)
<1>1. Stands(s, "before", n) => Stands(Parsed(s, MessageStart), "between", n)
  BY DEF Stands, Parsed, MessageStart
<1>2. ASSUME NEW kind, NEW id, Stands(s, "between", n)
      PROVE  Stands(Parsed(s, BlockStart(n, kind, id)), "block", n + 1)
  BY <1>2 DEF Stands, Parsed, BlockStart
<1>3. ASSUME NEW body, Stands(s, "block", n + 1)
      PROVE  Stands(Parsed(s, BlockDelta(n, body)), "block", n + 1)
  <2>1. s.next - 1 = n /\ s.at = "block" /\ s.ok /\ DOMAIN s = {"ok", "at", "next"}
    BY <1>3 DEF Stands
  <2>2. PICK e : e = BlockDelta(n, body)
    OBVIOUS
  <2>3. e.type = "delta" /\ e.index = n
    BY <2>2 DEF BlockDelta
  <2>4. Parsed(s, e) = [s EXCEPT !.ok = @ /\ s.at = "block" /\ e.index = s.next - 1]
    BY <2>3 DEF Parsed
  <2>5. Stands(Parsed(s, e), "block", n + 1)
    BY <1>3, <2>1, <2>3, <2>4 DEF Stands
  <2> QED
    BY <2>2, <2>5
<1>4. Stands(s, "block", n + 1) => Stands(Parsed(s, BlockStop(n)), "between", n + 1)
  <2> SUFFICES ASSUME Stands(s, "block", n + 1) PROVE Stands(Parsed(s, BlockStop(n)), "between", n + 1)
    OBVIOUS
  <2>1. s.next - 1 = n /\ s.at = "block" /\ s.ok /\ DOMAIN s = {"ok", "at", "next"}
    BY DEF Stands
  <2>2. PICK e : e = BlockStop(n)
    OBVIOUS
  <2>3. e.type = "stop" /\ e.index = n
    BY <2>2 DEF BlockStop
  <2>4. Parsed(s, e) = [s EXCEPT !.ok = @ /\ s.at = "block" /\ e.index = s.next - 1, !.at = "between"]
    BY <2>3 DEF Parsed
  <2>5. Stands(Parsed(s, e), "between", n + 1)
    BY <2>1, <2>3, <2>4 DEF Stands
  <2> QED
    BY <2>2, <2>5
<1>5. ASSUME NEW stop, Stands(s, "between", n)
      PROVE  Stands(Parsed(s, MessageDelta(stop)), "ending", n)
  BY <1>5 DEF Stands, Parsed, MessageDelta
<1>6. Stands(s, "ending", n) => Stands(Parsed(s, MessageStop), "after", n)
  BY DEF Stands, Parsed, MessageStop
<1> QED
  BY <1>1, <1>2, <1>3, <1>4, <1>5, <1>6

\* One more event written is one more event read.
LEMMA ReadsAppended ==
  ASSUME NEW out, Sequence(out), NEW e
  PROVE  /\ Sequence(out \o <<e>>)
         /\ FoldLeft(Parsed, Unread, out \o <<e>>) = Parsed(FoldLeft(Parsed, Unread, out), e)
<1>1. out \o <<e>> = Append(out, e) /\ Sequence(Append(out, e))
  BY SequenceAppends
<1>2. FoldLeft(Parsed, Unread, Append(out, e)) = Parsed(FoldLeft(Parsed, Unread, out), e)
  BY FoldAppends
<1> QED
  BY <1>1, <1>2, Zenon

\* Two and three events, one after the other.
LEMMA TwoInTurn ==
  ASSUME NEW out, Sequence(out), NEW a, NEW b
  PROVE  out \o <<a, b>> = (out \o <<a>>) \o <<b>>
<1>1. PICK S : out \in Seq(S)
  BY DEF Sequence
<1>2. PICK T : T = S \cup {a, b}
  OBVIOUS
<1>3. out \in Seq(T) /\ a \in T /\ b \in T
  BY <1>1, <1>2
<1>4. ASSUME NEW s \in Seq(T), NEW x \in T, NEW y \in T PROVE s \o <<x, y>> = (s \o <<x>>) \o <<y>>
  <2>1. PICK p, q : p = s \o <<x, y>> /\ q = (s \o <<x>>) \o <<y>>
    OBVIOUS
  <2>2. <<x, y>> \in Seq(T) /\ <<x>> \in Seq(T) /\ <<y>> \in Seq(T) /\ s \o <<x>> \in Seq(T)
    OBVIOUS
  <2>3. p \in Seq(T) /\ q \in Seq(T) /\ Len(p) = Len(s) + 2 /\ Len(q) = Len(s) + 2
    BY <2>1, <2>2
  <2>4. \A i \in 1 .. Len(s) : p[i] = s[i] /\ q[i] = s[i]
    BY <2>1, <2>2
  <2>5. p[Len(s) + 1] = x /\ q[Len(s) + 1] = x
    BY <2>1, <2>2
  <2>6. p[Len(s) + 2] = y /\ q[Len(s) + 2] = y
    BY <2>1, <2>2
  <2>7. Len(s) \in Nat
    OBVIOUS
  <2>8. \A i \in 1 .. Len(s) + 2 : i \in 1 .. Len(s) \/ i = Len(s) + 1 \/ i = Len(s) + 2
    BY <2>7
  <2>9. \A i \in 1 .. Len(s) + 2 : p[i] = q[i]
    BY <2>4, <2>5, <2>6, <2>8
  <2>10. PICK m : m = Len(s) + 2
    OBVIOUS
  <2>11. \A r \in Seq(T) : r = [i \in 1 .. Len(r) |-> r[i]]
    OBVIOUS
  <2>12. p = [i \in 1 .. m |-> p[i]] /\ q = [i \in 1 .. m |-> q[i]]
    BY <2>3, <2>10, <2>11
  <2>13. [i \in 1 .. m |-> p[i]] = [i \in 1 .. m |-> q[i]]
    BY <2>9, <2>10
  <2>14. p = q
    BY <2>12, <2>13, Zenon
  <2> QED
    BY <2>1, <2>14
<1> QED
  BY <1>3, <1>4

LEMMA ThreeInTurn ==
  ASSUME NEW out, Sequence(out), NEW a, NEW b, NEW c
  PROVE  out \o <<a, b, c>> = ((out \o <<a>>) \o <<b>>) \o <<c>>
<1>1. PICK S : out \in Seq(S)
  BY DEF Sequence
<1>2. PICK T : T = S \cup {a, b, c}
  OBVIOUS
<1>3. out \in Seq(T) /\ a \in T /\ b \in T /\ c \in T
  BY <1>1, <1>2
<1>4. out \o <<a, b, c>> = (out \o <<a, b>>) \o <<c>>
  BY <1>3
<1>5. out \o <<a, b>> = (out \o <<a>>) \o <<b>>
  BY TwoInTurn
<1> QED
  BY <1>4, <1>5, Zenon

\* How the client reads what was added to what it had read.
LEMMA ReadsMore ==
  ASSUME NEW out, Sequence(out), NEW n \in Nat, NEW kind, NEW id, NEW body, NEW stop
  PROVE  LET read(o) == FoldLeft(Parsed, Unread, o)
             s == read(out)
         IN  /\ Stands(s, "block", n + 1) =>
                  /\ Sequence(out \o <<BlockDelta(n, body)>>)
                  /\ Stands(read(out \o <<BlockDelta(n, body)>>), "block", n + 1)
                  /\ Sequence(out \o <<BlockStop(n)>>)
                  /\ Stands(read(out \o <<BlockStop(n)>>), "between", n + 1)
             /\ Stands(s, "between", n) =>
                  /\ Sequence(out \o <<BlockStart(n, kind, id), BlockDelta(n, body)>>)
                  /\ Stands(read(out \o <<BlockStart(n, kind, id), BlockDelta(n, body)>>), "block", n + 1)
                  /\ Sequence(out \o <<BlockStart(n, kind, id), BlockDelta(n, body), BlockStop(n)>>)
                  /\ Stands(read(out \o <<BlockStart(n, kind, id), BlockDelta(n, body), BlockStop(n)>>),
                            "between", n + 1)
                  /\ Stands(read(out \o <<MessageDelta(stop), MessageStop>>), "after", n)
<1> DEFINE read(o) == FoldLeft(Parsed, Unread, o)
           s == read(out)
<1>1. ASSUME NEW o, Sequence(o), NEW e
      PROVE  Sequence(o \o <<e>>) /\ read(o \o <<e>>) = Parsed(read(o), e)
  BY <1>1, ReadsAppended, Zenon
<1> HIDE DEF read
<1>2. ASSUME Stands(s, "block", n + 1)
      PROVE  /\ Sequence(out \o <<BlockDelta(n, body)>>)
             /\ Stands(read(out \o <<BlockDelta(n, body)>>), "block", n + 1)
             /\ Sequence(out \o <<BlockStop(n)>>)
             /\ Stands(read(out \o <<BlockStop(n)>>), "between", n + 1)
  BY <1>1, <1>2, ClientMoves, Zenon
<1>3. ASSUME Stands(s, "between", n)
      PROVE  /\ Sequence(out \o <<BlockStart(n, kind, id), BlockDelta(n, body)>>)
             /\ Stands(read(out \o <<BlockStart(n, kind, id), BlockDelta(n, body)>>), "block", n + 1)
             /\ Sequence(out \o <<BlockStart(n, kind, id), BlockDelta(n, body), BlockStop(n)>>)
             /\ Stands(read(out \o <<BlockStart(n, kind, id), BlockDelta(n, body), BlockStop(n)>>),
                       "between", n + 1)
             /\ Stands(read(out \o <<MessageDelta(stop), MessageStop>>), "after", n)
  <2>1. PICK a : a = BlockStart(n, kind, id)
    OBVIOUS
  <2>2. PICK b : b = BlockDelta(n, body)
    OBVIOUS
  <2>3. PICK c : c = BlockStop(n)
    OBVIOUS
  <2>4. PICK d : d = MessageDelta(stop)
    OBVIOUS
  <2>5. PICK e : e = MessageStop
    OBVIOUS
  <2>6. out \o <<a, b, c>> = ((out \o <<a>>) \o <<b>>) \o <<c>>
    BY ThreeInTurn
  <2>15. out \o <<a, b>> = (out \o <<a>>) \o <<b>>
    BY TwoInTurn
  <2>12. out \o <<d, e>> = (out \o <<d>>) \o <<e>>
    BY TwoInTurn
  <2>13. Stands(Parsed(read(out), a), "block", n + 1)
    BY <1>3, <2>1, ClientMoves, Zenon
  <2>7. Sequence(out \o <<a>>) /\ Stands(read(out \o <<a>>), "block", n + 1)
    BY <1>1, <2>13
  <2>8. /\ Sequence((out \o <<a>>) \o <<b>>)
        /\ Stands(read((out \o <<a>>) \o <<b>>), "block", n + 1)
    BY <1>1, <2>2, <2>7, ClientMoves, Zenon
  <2>9. /\ Sequence(((out \o <<a>>) \o <<b>>) \o <<c>>)
        /\ Stands(read(((out \o <<a>>) \o <<b>>) \o <<c>>), "between", n + 1)
    BY <1>1, <2>3, <2>8, ClientMoves, Zenon
  <2>14. Stands(Parsed(read(out), d), "ending", n)
    BY <1>3, <2>4, ClientMoves, Zenon
  <2>10. Sequence(out \o <<d>>) /\ Stands(read(out \o <<d>>), "ending", n)
    BY <1>1, <2>14
  <2>11. Stands(read((out \o <<d>>) \o <<e>>), "after", n)
    BY <1>1, <2>5, <2>10, ClientMoves, Zenon
  <2> QED
    BY <2>1, <2>2, <2>3, <2>4, <2>5, <2>6, <2>8, <2>9, <2>11, <2>12, <2>15, Zenon
<1> QED
  BY <1>2, <1>3, Zenon DEF read

\* A piece of text opens a block where none is.
LEMMA TextDeltaInStep ==
  ASSUME NEW v, InStep(v), NEW piece
  PROVE  InStep(TextDelta(v, piece))
<1>1. WriterShape(v) /\ v.block \in Nat /\ Sequence(v.out)
  BY DEF InStep, WriterShape
<1>2. PICK u : u = TextDelta(v, piece)
  OBVIOUS
<1>3. CASE v.open
  <2>1. u = [[v EXCEPT !.out = @ \o (<<>> \o <<BlockDelta(v.block, <<piece>>)>>)] EXCEPT !.open = TRUE]
    BY <1>2, <1>3 DEF TextDelta, Write
  <2>2. <<>> \o <<BlockDelta(v.block, <<piece>>)>> = <<BlockDelta(v.block, <<piece>>)>>
    OBVIOUS
  <2>3. u = [[v EXCEPT !.out = @ \o <<BlockDelta(v.block, <<piece>>)>>] EXCEPT !.open = TRUE]
    BY <2>1, <2>2, Zenon
  <2>4. /\ DOMAIN u = DOMAIN v /\ u.open /\ u.open = TRUE /\ u.block = v.block /\ u.pending = v.pending
        /\ u.out = v.out \o <<BlockDelta(v.block, <<piece>>)>>
    BY <1>1, <2>3 DEF WriterShape
  <2>5. Stands(FoldLeft(Parsed, Unread, v.out), "block", v.block + 1)
    BY <1>3 DEF InStep
  <2>6. Sequence(u.out) /\ Stands(FoldLeft(Parsed, Unread, u.out), "block", u.block + 1)
    BY <1>1, <2>4, <2>5, ReadsMore
  <2>7. u.open \in BOOLEAN
    BY <2>4
  <2>8. WriterShape(u)
    BY <1>1, <2>4, <2>6, <2>7, Zenon DEF WriterShape
  <2>9. InStep(u)
    BY <2>4, <2>6, <2>8, Zenon DEF InStep
  <2> QED
    BY <1>2, <2>9
<1>4. CASE ~v.open
  <2>1. u = [[v EXCEPT !.out = @ \o (<<BlockStart(v.block, "text", 0)>> \o <<BlockDelta(v.block, <<piece>>)>>)]
               EXCEPT !.open = TRUE]
    BY <1>2, <1>4 DEF TextDelta, Write
  <2>2. PICK a : a = BlockStart(v.block, "text", 0)
    OBVIOUS
  <2>3. PICK b : b = BlockDelta(v.block, <<piece>>)
    OBVIOUS
  <2>4. <<a>> \o <<b>> = <<a, b>>
    <3>1. Sequence(<<>>)
      <4>1. <<>> \in Seq({a})
        OBVIOUS
      <4> QED
        BY <4>1, Zenon DEF Sequence
    <3>2. PICK o : o = <<>>
      OBVIOUS
    <3>3. o \o <<a, b>> = (o \o <<a>>) \o <<b>>
      BY <3>1, <3>2, TwoInTurn
    <3>4. <<>> \o <<a>> = <<a>> /\ <<>> \o <<a, b>> = <<a, b>>
      OBVIOUS
    <3> QED
      BY <3>2, <3>3, <3>4
  <2>5. u = [[v EXCEPT !.out = @ \o <<a, b>>] EXCEPT !.open = TRUE]
    BY <2>1, <2>2, <2>3, <2>4, Zenon
  <2>6. /\ DOMAIN u = DOMAIN v /\ u.open /\ u.open = TRUE /\ u.block = v.block /\ u.pending = v.pending
        /\ u.out = v.out \o <<a, b>>
    BY <1>1, <2>5 DEF WriterShape
  <2>7. Stands(FoldLeft(Parsed, Unread, v.out), "between", v.block)
    BY <1>4 DEF InStep
  <2>12. /\ Sequence(v.out \o <<a, b>>)
         /\ Stands(FoldLeft(Parsed, Unread, v.out \o <<a, b>>), "block", v.block + 1)
    BY <1>1, <2>2, <2>3, <2>7, ReadsMore, Zenon
  <2>8. Sequence(u.out) /\ Stands(FoldLeft(Parsed, Unread, u.out), "block", u.block + 1)
    BY <2>6, <2>12, Zenon
  <2>9. u.open \in BOOLEAN
    BY <2>6
  <2>10. WriterShape(u)
    BY <1>1, <2>6, <2>8, <2>9, Zenon DEF WriterShape
  <2>11. InStep(u)
    BY <2>6, <2>8, <2>10, Zenon DEF InStep
  <2> QED
    BY <1>2, <2>11
<1> QED
  BY <1>3, <1>4

\* An open block is closed under its index, and the next index is taken.
LEMMA CloseTextBlockInStep ==
  ASSUME NEW v, InStep(v)
  PROVE  /\ InStep(CloseTextBlock(v)) /\ ~CloseTextBlock(v).open
         /\ CloseTextBlock(v).pending = v.pending
<1>1. WriterShape(v) /\ v.block \in Nat /\ Sequence(v.out)
  BY DEF InStep, WriterShape
<1>2. PICK u : u = CloseTextBlock(v)
  OBVIOUS
<1>3. CASE v.open
  <2>1. u = [[v EXCEPT !.out = @ \o <<BlockStop(v.block)>>] EXCEPT !.open = FALSE, !.block = @ + 1]
    BY <1>2, <1>3 DEF CloseTextBlock, Write
  <2>2. /\ DOMAIN u = DOMAIN v /\ ~u.open /\ u.open = FALSE /\ u.block = v.block + 1
        /\ u.pending = v.pending /\ u.out = v.out \o <<BlockStop(v.block)>>
    BY <1>1, <2>1 DEF WriterShape
  <2>3. Stands(FoldLeft(Parsed, Unread, v.out), "block", v.block + 1)
    BY <1>3 DEF InStep
  <2>4. Sequence(u.out) /\ Stands(FoldLeft(Parsed, Unread, u.out), "between", u.block)
    BY <1>1, <2>2, <2>3, ReadsMore
  <2>8. u.block \in Nat
    BY <1>1, <2>2
  <2>9. u.open \in BOOLEAN
    BY <2>2
  <2>5. u.open \in BOOLEAN /\ u.block \in Nat
    BY <2>8, <2>9
  <2>6. WriterShape(u)
    BY <1>1, <2>2, <2>4, <2>5, Zenon DEF WriterShape
  <2>7. InStep(u)
    BY <2>2, <2>4, <2>6, Zenon DEF InStep
  <2> QED
    BY <1>2, <2>2, <2>7
<1>4. CASE ~v.open
  BY <1>4 DEF CloseTextBlock
<1> QED
  BY <1>3, <1>4

\* Fragments are held back: nothing is written, and what is held stays a sequence.
LEMMA ToolUseInStep ==
  ASSUME NEW v, InStep(v), NEW key, NEW id, NEW body
  PROVE  InStep(ToolUse(v, key, id, body))
<1>1. WriterShape(v) /\ Sequence(v.pending)
  BY DEF InStep, WriterShape
<1>2. PICK u : u = ToolUse(v, key, id, body)
  OBVIOUS
<1>3. PICK at : at = SelectInSeq(v.pending, LAMBDA p : p.key = key)
  OBVIOUS
<1>4. u = IF at = 0 THEN [v EXCEPT !.pending = Append(@, Call(key, id, body))]
          ELSE [v EXCEPT !.pending[at].body = @ \o body,
                         !.pending[at].id = IF @ = 0 THEN id ELSE @]
  BY <1>2, <1>3 DEF ToolUse
<1>5. /\ DOMAIN u = DOMAIN v /\ u.out = v.out /\ u.block = v.block /\ u.open = v.open
      /\ Sequence(u.pending)
  <2>1. CASE at = 0
    <3>1. u = [v EXCEPT !.pending = Append(@, Call(key, id, body))]
      BY <1>4, <2>1
    <3>2. u.pending = Append(v.pending, Call(key, id, body))
      BY <1>1, <3>1 DEF WriterShape
    <3>3. Sequence(Append(v.pending, Call(key, id, body)))
      BY <1>1, SequenceAppends
    <3>4. DOMAIN u = DOMAIN v /\ u.out = v.out /\ u.block = v.block /\ u.open = v.open
      BY <1>1, <3>1 DEF WriterShape
    <3> QED
      BY <3>2, <3>3, <3>4, Zenon
  <2>2. CASE at # 0
    <3>1. u = [v EXCEPT !.pending[at].body = @ \o body,
                        !.pending[at].id = IF @ = 0 THEN id ELSE @]
      BY <1>4, <2>2
    <3>2. PICK x : x = v.pending
      OBVIOUS
    <3>3. \E y : u.pending = [x EXCEPT ![at] = y]
      <4>1. PICK z : z = [v EXCEPT !.pending[at].body = @ \o body]
        OBVIOUS
      <4>2. u = [z EXCEPT !.pending[at].id = IF @ = 0 THEN id ELSE @]
        BY <3>1, <4>1
      <4>3. PICK y1 : z.pending = [x EXCEPT ![at] = y1]
        BY <1>1, <3>2, <4>1 DEF WriterShape
      <4>4. DOMAIN z = DOMAIN v
        BY <4>1
      <4>5. PICK y2 : u.pending = [z.pending EXCEPT ![at] = y2]
        BY <1>1, <4>2, <4>4 DEF WriterShape
      <4>6. [[x EXCEPT ![at] = y1] EXCEPT ![at] = y2] = [x EXCEPT ![at] = y2]
        OBVIOUS
      <4> QED
        BY <4>3, <4>5, <4>6
    <3>4. PICK y : u.pending = [x EXCEPT ![at] = y]
      BY <3>3
    <3>5. PICK S : x \in Seq(S)
      BY <1>1, <3>2 DEF Sequence
    <3>6. PICK T : T = S \cup {y}
      OBVIOUS
    <3>7. PICK n : n = Len(x)
      OBVIOUS
    <3>8. n \in Nat /\ x \in [1 .. n -> S]
      BY <3>5, <3>7
    <3>9. [x EXCEPT ![at] = y] \in [1 .. n -> T]
      BY <3>6, <3>8
    <3>13. \A f \in [1 .. n -> T] : f \in Seq(T)
      BY <3>8
    <3>10. [x EXCEPT ![at] = y] \in Seq(T)
      BY <3>9, <3>13, Zenon
    <3>11. Sequence(u.pending)
      BY <3>4, <3>10, Zenon DEF Sequence
    <3>12. DOMAIN u = DOMAIN v /\ u.out = v.out /\ u.block = v.block /\ u.open = v.open
      BY <1>1, <3>1 DEF WriterShape
    <3> QED
      BY <3>11, <3>12
  <2> QED
    BY <2>1, <2>2
<1>6. WriterShape(u)
  BY <1>1, <1>5, Zenon DEF WriterShape
<1>7. InStep(u)
  BY <1>5, <1>6, Zenon DEF InStep
<1> QED
  BY <1>2, <1>7

\* What is known of a stream's end is not written before it.
LEMMA FinishReasonInStep ==
  ASSUME NEW v, InStep(v), NEW reason
  PROVE  InStep([v EXCEPT !.finish = reason])
<1>1. PICK u : u = [v EXCEPT !.finish = reason]
  OBVIOUS
<1>2. WriterShape(v)
  BY DEF InStep
<1>3. /\ DOMAIN u = DOMAIN v /\ u.out = v.out /\ u.block = v.block /\ u.open = v.open
      /\ u.pending = v.pending
  BY <1>1, <1>2 DEF WriterShape
<1>4. WriterShape(u)
  BY <1>2, <1>3, Zenon DEF WriterShape
<1>5. InStep(u)
  BY <1>3, <1>4, Zenon DEF InStep
<1> QED
  BY <1>1, <1>5

\* A call held back is written as a block of its own, under the next index.
LEMMA EmitToolCallInStep ==
  ASSUME NEW v, InStep(v), NEW p
  PROVE  InStep(EmitToolCall(v, p)) /\ ~EmitToolCall(v, p).open
<1>1. PICK x : x = CloseTextBlock(v)
  OBVIOUS
<1>2. InStep(x) /\ ~x.open
  BY <1>1, CloseTextBlockInStep
<1>3. WriterShape(x) /\ x.block \in Nat /\ Sequence(x.out)
  BY <1>2 DEF InStep, WriterShape
<1>4. PICK u : u = EmitToolCall(v, p)
  OBVIOUS
<1>5. PICK a : a = BlockStart(x.block, "call", p.id)
  OBVIOUS
<1>6. PICK b : b = BlockDelta(x.block, p.body)
  OBVIOUS
<1>7. PICK c : c = BlockStop(x.block)
  OBVIOUS
<1>8. u = [[x EXCEPT !.out = @ \o <<a, b, c>>] EXCEPT !.block = @ + 1]
  BY <1>1, <1>4, <1>5, <1>6, <1>7 DEF EmitToolCall, Write
<1>9. /\ DOMAIN u = DOMAIN x /\ u.open = x.open /\ u.block = x.block + 1 /\ u.pending = x.pending
      /\ u.out = x.out \o <<a, b, c>>
  BY <1>3, <1>8 DEF WriterShape
<1>10. Stands(FoldLeft(Parsed, Unread, x.out), "between", x.block)
  BY <1>2 DEF InStep
<1>11. /\ Sequence(x.out \o <<a, b, c>>)
       /\ Stands(FoldLeft(Parsed, Unread, x.out \o <<a, b, c>>), "between", x.block + 1)
  BY <1>3, <1>5, <1>6, <1>7, <1>10, ReadsMore, Zenon
<1>12. /\ Sequence(u.out)
       /\ Stands(FoldLeft(Parsed, Unread, u.out), "between", u.block)
  BY <1>9, <1>11, Zenon
<1>13. u.block \in Nat
  BY <1>3, <1>9
<1>14. WriterShape(u)
  BY <1>3, <1>9, <1>12, <1>13, Zenon DEF WriterShape
<1>15. ~u.open
  BY <1>2, <1>9, Zenon
<1>16. InStep(u)
  BY <1>12, <1>14, <1>15, Zenon DEF InStep
<1> QED
  BY <1>4, <1>15, <1>16, Zenon

\* However many calls were held back.
LEMMA EmitsInStep ==
  ASSUME NEW base, InStep(base), ~base.open, NEW s, Sequence(s)
  PROVE  InStep(FoldLeft(EmitToolCall, base, s)) /\ ~FoldLeft(EmitToolCall, base, s).open
<1>1. PICK n : n = Len(s)
  OBVIOUS
<1>2. n \in Nat /\ DOMAIN s = 1 .. n
  BY <1>1 DEF Sequence
<1>3. PICK it : Folding(it, "emit", base, s) /\ FoldLeft(EmitToolCall, base, s) = it[DOMAIN s]
  BY <1>2, FoldsAre
<1>4. /\ it[1 .. 0] = base
      /\ \A k \in Nat : k < n => it[1 .. k + 1] = EmitToolCall(it[1 .. k], s[k + 1])
  <2>1. Folding(it, "emit", base, s)
    BY <1>3
  <2>2. Emitting(it, base, s, n)
    BY <1>2, <2>1, FoldSteps
  <2> QED
    BY <2>2 DEF Emitting
<1> DEFINE Bad == {k \in Nat : k =< n /\ ~(InStep(it[1 .. k]) /\ ~it[1 .. k].open)}
<1>5. 0 \notin Bad
  BY <1>4, Zenon
<1>6. ASSUME NEW k \in Nat, k < n, k \notin Bad PROVE k + 1 \notin Bad
  <2>1. InStep(it[1 .. k])
    BY <1>2, <1>6
  <2>2. it[1 .. k + 1] = EmitToolCall(it[1 .. k], s[k + 1])
    BY <1>2, <1>4, <1>6
  <2>3. InStep(it[1 .. k + 1]) /\ ~it[1 .. k + 1].open
    BY <2>1, <2>2, EmitToolCallInStep
  <2> QED
    BY <2>3
<1>7. ASSUME Bad # {} PROVE FALSE
  <2>1. PICK k \in Bad : \A j \in Bad : k =< j
    BY <1>7, NatHasLeast
  <2>2. k \in Nat /\ k =< n
    OBVIOUS
  <2> HIDE DEF Bad
  <2>3. k # 0
    BY <1>5, <2>1
  <2>4. k - 1 \in Nat /\ k - 1 < n /\ k - 1 \notin Bad /\ k - 1 + 1 = k
    BY <1>2, <2>1, <2>2, <2>3
  <2> QED
    BY <1>6, <2>4
<1>8. InStep(it[1 .. n]) /\ ~it[1 .. n].open
  BY <1>2, <1>7
<1> QED
  BY <1>2, <1>3, <1>8

\* At the end the open block is closed, the calls are written, and the message ends.
LEMMA FinishCompletes ==
  ASSUME NEW v, InStep(v), NEW reason
  PROVE  LET s == FoldLeft(Parsed, Unread, Finish(v, reason).out)
         IN  s.ok /\ s.at = "after"
<1>1. PICK x : x = CloseTextBlock(v)
  OBVIOUS
<1>2. InStep(x) /\ ~x.open
  BY <1>1, CloseTextBlockInStep
<1>3. Sequence(v.pending)
  BY DEF InStep, WriterShape
<1>4. PICK y : y = FoldLeft(EmitToolCall, x, v.pending)
  OBVIOUS
<1>5. InStep(y) /\ ~y.open
  BY <1>2, <1>3, <1>4, EmitsInStep
<1>6. PICK stop : Finish(v, reason) = Write(y, <<MessageDelta(stop), MessageStop>>)
  BY <1>1, <1>4 DEF Finish
<1>7. WriterShape(y) /\ y.block \in Nat /\ Sequence(y.out)
  BY <1>5 DEF InStep, WriterShape
<1>8. Finish(v, reason).out = y.out \o <<MessageDelta(stop), MessageStop>>
  BY <1>6, <1>7 DEF Write, WriterShape
<1>9. Stands(FoldLeft(Parsed, Unread, y.out), "between", y.block)
  BY <1>5 DEF InStep
<1>10. Stands(FoldLeft(Parsed, Unread, y.out \o <<MessageDelta(stop), MessageStop>>), "after", y.block)
  BY <1>7, <1>9, ReadsMore, Zenon
<1> QED
  BY <1>8, <1>10, Zenon DEF Stands

-----------------------------------------------------------------------------
(***************************************************************************)
(* What a strict Anthropic client reads.                                   *)
(***************************************************************************)
Streaming == route.stream /\ route.client = "messages"

StreamInv ==
  /\ route \in Translating
  /\ phase \in {"client", "upstream", "read"}
  /\ Streaming /\ phase = "upstream" => InStep(w)
  /\ Streaming /\ phase = "read" =>
       LET s == FoldLeft(Parsed, Unread, w.out) IN s.ok /\ s.at = "after"

\* A client that streams Anthropic events is served from a chat or a Responses
\* stream.
LEMMA StreamedFrom ==
  ASSUME StreamInv, Streaming
  PROVE  /\ route.stream = TRUE /\ route.client = "messages"
         /\ route.upstream \in {"chat", "responses"}
<1>1. route.stream \in BOOLEAN /\ route.stream /\ route.client = "messages"
  BY DEF StreamInv, Streaming, Translating
<1>2. CASE route.zen /\ route.upstream # "messages"
  BY <1>1, <1>2 DEF StreamInv, Translating
<1>3. CASE ~(route.zen /\ route.upstream # "messages")
  BY <1>1, <1>3 DEF StreamInv, Translating
<1> QED
  BY <1>1, <1>2, <1>3

\* The first event is on its way before anything is read from the upstream.
LEMMA StartedInStep ==
  ASSUME StreamInv, Streaming
  PROVE  InStep(Started)
<1>1. Started = Write(NewWriter, <<MessageStart>>)
  BY StreamedFrom DEF Started
<1>2. PICK u : u = Started
  OBVIOUS
<1>3. /\ DOMAIN u = {"text", "open", "block", "pending", "sawTools", "finish", "out"}
      /\ u.open = FALSE /\ u.block = 0 /\ u.pending = <<>> /\ u.out = <<>> \o <<MessageStart>>
  BY <1>1, <1>2 DEF Write, NewWriter
<1>4. Sequence(<<>>)
  <2>1. <<>> \in Seq({})
    OBVIOUS
  <2> QED
    BY <2>1, Zenon DEF Sequence
<1>5. /\ Sequence(u.out)
      /\ FoldLeft(Parsed, Unread, u.out) = Parsed(FoldLeft(Parsed, Unread, <<>>), MessageStart)
  BY <1>3, <1>4, ReadsAppended
<1>6. FoldLeft(Parsed, Unread, <<>>) = Unread
  <2>1. PICK o : o = <<>>
    OBVIOUS
  <2>2. DOMAIN o = 1 .. 0 /\ 0 \in Nat /\ 1 .. 0 = {}
    BY <2>1
  <2>3. PICK it : Folding(it, "parse", Unread, o) /\ FoldLeft(Parsed, Unread, o) = it[DOMAIN o]
    BY <2>2, FoldsAre
  <2>4. it[{}] = Unread
    <3>1. {} \in SUBSET (DOMAIN o)
      OBVIOUS
    <3> QED
      BY <2>3, <3>1 DEF Folding
  <2> QED
    BY <2>1, <2>2, <2>3, <2>4
<1>7. Stands(Unread, "before", 0)
  BY DEF Stands, Unread
<1>8. Stands(FoldLeft(Parsed, Unread, u.out), "between", u.block)
  <2>1. 0 \in Nat
    OBVIOUS
  <2>2. Stands(Parsed(Unread, MessageStart), "between", 0)
    BY <1>7, <2>1, ClientMoves, Zenon
  <2> QED
    BY <1>3, <1>5, <1>6, <2>2, Zenon
<1>9. u.open \in BOOLEAN /\ ~u.open /\ u.block \in Nat /\ Sequence(u.pending)
  <2>1. Sequence(u.pending)
    BY <1>3, <1>4, Zenon
  <2>2. ~u.open /\ u.open \in BOOLEAN
    BY <1>3
  <2>3. u.block \in Nat
    BY <1>3
  <2> QED
    BY <2>1, <2>2, <2>3
<1>10. WriterShape(u)
  BY <1>3, <1>5, <1>9, Zenon DEF WriterShape
<1>11. InStep(u)
  BY <1>8, <1>9, <1>10, Zenon DEF InStep
<1> QED
  BY <1>2, <1>11

\* Every event of the upstream leaves the writer in step with its client.
LEMMA RelayedInStep ==
  ASSUME StreamInv, Streaming, phase = "upstream", NEW e, e.type \in {"text", "call", "stop"}
  PROVE  InStep(Relayed(e))
<1>1. InStep(w)
  BY DEF StreamInv
<1>2. CASE route.upstream = "chat"
  <2>1. Relayed(e) = StreamChatSSEToAnthropic(w, e)
    BY <1>2, StreamedFrom DEF Relayed
  <2>2. CASE e.type = "text"
    <3>1. Relayed(e) = TextDelta(w, e.piece)
      BY <2>1, <2>2 DEF StreamChatSSEToAnthropic
    <3> QED
      BY <1>1, <3>1, TextDeltaInStep
  <2>3. CASE e.type = "call"
    <3>1. Relayed(e) = ToolUse(w, e.index, e.id, e.body)
      BY <2>1, <2>3 DEF StreamChatSSEToAnthropic
    <3> QED
      BY <1>1, <3>1, ToolUseInStep
  <2>4. CASE e.type = "stop"
    <3>1. Relayed(e) = [w EXCEPT !.finish = e.reason]
      BY <2>1, <2>4 DEF StreamChatSSEToAnthropic
    <3> QED
      BY <1>1, <3>1, FinishReasonInStep
  <2> QED
    BY <2>2, <2>3, <2>4
<1>3. CASE route.upstream = "responses"
  <2>1. Relayed(e) = StreamResponsesSSEToAnthropic(w, e)
    BY <1>3, StreamedFrom DEF Relayed
  <2>2. CASE e.type = "text"
    <3>1. Relayed(e) = TextDelta(w, e.piece)
      BY <2>1, <2>2 DEF StreamResponsesSSEToAnthropic
    <3> QED
      BY <1>1, <3>1, TextDeltaInStep
  <2>3. CASE e.type = "call"
    <3>1. Relayed(e) = ToolUse(w, e.index, e.id, e.body)
      BY <2>1, <2>3 DEF StreamResponsesSSEToAnthropic
    <3> QED
      BY <1>1, <3>1, ToolUseInStep
  <2>4. CASE e.type = "stop"
    <3>1. Relayed(e) = w
      BY <2>1, <2>4 DEF StreamResponsesSSEToAnthropic
    <3> QED
      BY <1>1, <3>1
  <2> QED
    BY <2>2, <2>3, <2>4
<1> QED
  BY <1>2, <1>3, StreamedFrom

\* Whatever ended the stream, what was written is complete.
LEMMA ClosedCompletes ==
  ASSUME StreamInv, Streaming, phase = "upstream"
  PROVE  LET s == FoldLeft(Parsed, Unread, Closed.out) IN s.ok /\ s.at = "after"
<1>1. InStep(w)
  BY DEF StreamInv
<1>2. PICK reason : Closed = Finish(w, reason)
  BY StreamedFrom DEF Closed
<1> QED
  BY <1>1, <1>2, FinishCompletes

\* Only the upstream's events move the writer while an answer arrives.
LEMMA EmitsKeepStreams ==
  ASSUME StreamInv, NEW e, e.type \in {"text", "call", "stop"}, NEW pieces, Emits(e, pieces)
  PROVE  StreamInv'
<1>1. phase = "upstream" /\ w' = Relayed(e) /\ UNCHANGED <<route, phase>>
  BY DEF Emits
<1>2. Streaming => InStep(w')
  BY <1>1, RelayedInStep
<1> QED
  BY <1>1, <1>2 DEF StreamInv, Streaming

\* StreamWellFormed: "emits a valid anthropic SSE sequence on the fly" - a
\* strict client can read every beginning of what is written, and the whole of
\* it once the upstream hung up, wherever that was.  For any conversation, any
\* routes and any number of calls.
THEOREM StreamsAreWellFormed == ExchangeSpec => []StreamWellFormed
<1>1. ExchangeInit => StreamInv
  BY ExchangeAssumption DEF ExchangeInit, StreamInv
<1>2. StreamInv /\ [ExchangeNext]_exchangeVars => StreamInv'
  <2> SUFFICES ASSUME StreamInv, [ExchangeNext]_exchangeVars PROVE StreamInv'
    OBVIOUS
  <2>1. ASSUME UNCHANGED <<route, phase, w>> PROVE StreamInv'
    BY <2>1 DEF StreamInv, Streaming
  <2>2. ASSUME NEW message, NEW pieces, Says(message, pieces) PROVE StreamInv'
    BY <2>1, <2>2 DEF Says
  <2>3. ASSUME NEW kind \in {"text", "image"}, Ask(kind) PROVE StreamInv'
    BY <2>2, <2>3 DEF Ask
  <2>4. ASSUME NEW role \in {"system", "developer"}, Instruct(role) PROVE StreamInv'
    BY <2>2, <2>4 DEF Instruct
  <2>5. ASSUME NEW id \in Awaited, ReturnResult(id) PROVE StreamInv'
    BY <2>2, <2>5 DEF ReturnResult
  <2>6. ASSUME NEW more \in BOOLEAN, ReturnResults(more) PROVE StreamInv'
    BY <2>2, <2>6 DEF ReturnResults
  <2>7. ASSUME Send PROVE StreamInv'
    <3>1. phase' = "upstream" /\ w' = Started /\ route' = route
      BY <2>7 DEF Send
    <3>2. Streaming => InStep(w')
      BY <3>1, StartedInStep
    <3> QED
      BY <3>1, <3>2 DEF StreamInv, Streaming
  <2>8. ASSUME EmitText PROVE StreamInv'
    <3>1. PICK e : e = [type |-> "text", piece |-> said + 1]
      OBVIOUS
    <3>2. e.type \in {"text", "call", "stop"} /\ Emits(e, 1)
      BY <2>8, <3>1 DEF EmitText
    <3> QED
      BY <3>2, EmitsKeepStreams
  <2>9. ASSUME NEW body, EmitCall(body) PROVE StreamInv'
    <3>1. PICK index, pieces :
            Emits([type |-> "call", index |-> index, id |-> said + 1, body |-> body], pieces)
      BY <2>9 DEF EmitCall
    <3>2. PICK e : e = [type |-> "call", index |-> index, id |-> said + 1, body |-> body]
      OBVIOUS
    <3>3. e.type \in {"text", "call", "stop"} /\ Emits(e, pieces)
      BY <3>1, <3>2
    <3> QED
      BY <3>3, EmitsKeepStreams
  <2>10. ASSUME NEW i \in DOMAIN answer.calls, EmitFragment(i) PROVE StreamInv'
    <3>1. PICK e : e = [type |-> "call", index |-> answer.calls[i].index, id |-> 0,
                        body |-> <<said + 1>>]
      OBVIOUS
    <3>2. e.type \in {"text", "call", "stop"} /\ Emits(e, 1)
      BY <2>10, <3>1 DEF EmitFragment
    <3> QED
      BY <3>2, EmitsKeepStreams
  <2>11. ASSUME NEW reason, EmitStop(reason) PROVE StreamInv'
    <3>1. PICK e : e = [type |-> "stop", reason |-> reason]
      OBVIOUS
    <3>2. e.type \in {"text", "call", "stop"} /\ Emits(e, 0)
      BY <2>11, <3>1 DEF EmitStop
    <3> QED
      BY <3>2, EmitsKeepStreams
  <2>12. ASSUME HangUp PROVE StreamInv'
    <3>1. phase = "upstream" /\ phase' = "read" /\ w' = Closed /\ route' = route
      BY <2>12 DEF HangUp
    <3>2. Streaming => LET s == FoldLeft(Parsed, Unread, w'.out) IN s.ok /\ s.at = "after"
      BY <3>1, ClosedCompletes
    <3> QED
      BY <3>1, <3>2 DEF StreamInv, Streaming
  <2>13. ASSUME Take PROVE StreamInv'
    <3>1. phase' = "client" /\ route' = route
      BY <2>13 DEF Take
    <3> QED
      BY <3>1 DEF StreamInv
  <2>14. CASE UNCHANGED exchangeVars
    BY <2>1, <2>14 DEF exchangeVars
  <2>15. CASE ExchangeNext
    BY <2>3, <2>4, <2>5, <2>6, <2>7, <2>8, <2>9, <2>10, <2>11, <2>12, <2>13, <2>15, Zenon DEF ExchangeNext
  <2> QED
    BY <2>14, <2>15
<1>3. StreamInv => StreamWellFormed
  <2> SUFFICES ASSUME StreamInv, Streaming, phase # "client" PROVE StreamWellFormed
    BY DEF StreamWellFormed, Streaming
  <2>1. PICK s : s = FoldLeft(Parsed, Unread, w.out)
    OBVIOUS
  <2>2. CASE phase = "upstream"
    <3>1. s.ok
      BY <2>1, <2>2 DEF StreamInv, InStep, Stands
    <3> QED
      BY <2>1, <2>2, <3>1, Zenon DEF StreamWellFormed, Unread
  <2>3. CASE phase = "read"
    <3>1. s.ok /\ s.at = "after"
      BY <2>1, <2>3 DEF StreamInv
    <3> QED
      BY <2>1, <3>1, Zenon DEF StreamWellFormed, Unread
  <2> QED
    BY <2>2, <2>3 DEF StreamInv
<1> QED
  BY <1>1, <1>2, <1>3, PTL DEF ExchangeSpec
=============================================================================
