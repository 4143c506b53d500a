---------------------------- MODULE RateBreaker ----------------------------
(***************************************************************************)
(* The rate-limit breaker of one provider (internal/gateway/ratelimit.go): *)
(* one entry per upstream model that answered 429 lately.  Every method    *)
(* holds rateBreaker.mu for its whole body and is one action.  Callers     *)
(* read the clock before they call, so a method works on a Reading of the  *)
(* clock that may be up to ClockLag ticks old when it gets the lock.       *)
(***************************************************************************)
EXTENDS Naturals, FiniteSets

CONSTANTS
  Models,        \* upstream model ids
  KeyHashes,     \* hashes of the keys whose answers are filed
  Window,        \* breakerWindow
  DistinctKeys,  \* breakerDistinctKeys
  MinBackoff,    \* breakerMinBackoff
  MaxBackoff,    \* breakerMaxBackoff
  Idle,          \* breakerIdle: far longer than Window and any ClockLag
  Cools,         \* bound: the verdicts' cooldowns (0: none configured)
  Floors,        \* bound: values of retry.cooldownSeconds, an admin may edit it
  ClockLag,      \* how old a clock reading may be once the lock is held
  MaxNow         \* bound: the clock stops here

ASSUME BreakerAssumption ==
  /\ Window \in Nat \ {0}
  /\ DistinctKeys \in Nat \ {0, 1}
  /\ MinBackoff \in Nat \ {0}
  /\ MaxBackoff \in Nat /\ MinBackoff =< MaxBackoff
  /\ Idle \in Nat /\ ClockLag \in Nat /\ Window + 2 * ClockLag =< Idle
  /\ IsFiniteSet(KeyHashes)
  /\ Cools \subseteq Nat
  /\ Floors \subseteq Nat
  /\ MaxNow \in Nat \ {0}

VARIABLES
  now,      \* the wall clock
  breaker   \* rateBreaker.m: model -> modelBreaker, NoEntry when absent

breakerVars == <<now, breaker>>

\* hits is the map key hash -> last 429 inside the window; 0: no such entry.
NoHits == [h \in KeyHashes |-> 0]

ModelBreaker ==
  [ live      : BOOLEAN,
    hits      : [KeyHashes -> Nat],
    maxCool   : Nat,
    tripped   : BOOLEAN,
    openUntil : Nat,
    backoff   : 0 .. MaxBackoff,
    grownAt   : Nat,
    touched   : Nat ]

NewEntry ==
  [ live |-> TRUE, hits |-> NoHits, maxCool |-> 0, tripped |-> FALSE,
    openUntil |-> 0, backoff |-> 0, grownAt |-> 0, touched |-> 0 ]

\* The map has no entry for the model.
NoEntry == [NewEntry EXCEPT !.live = FALSE]

Larger(a, b)  == IF a > b THEN a ELSE b
Smaller(a, b) == IF a < b THEN a ELSE b

Reading == {t \in 1 .. now : now - t =< ClockLag}

\* tripped(provider, m, t): m is in single-attempt mode.
Open(e, t) == e.live /\ e.tripped /\ t < e.openUntil
Tripped(m, t) == Open(breaker[m], t)

\* Mutant of Pruned: entries are never dropped.
NeverPruned(e, t) == e

\* prune, for one entry.
Pruned(e, t) ==
  IF e.live /\ t > e.touched + Idle /\ (~e.tripped \/ e.openUntil =< t)
  THEN NoEntry ELSE e

\* Mutants of Extended: every 429 doubles the backoff; the backoff is not
\* capped.
ExtendedAlways(e, cool, t) ==
  LET backoff == Smaller(Larger(2 * e.backoff, cool), MaxBackoff)
  IN  [e EXCEPT !.touched = t, !.backoff = backoff, !.grownAt = t,
                !.openUntil = Larger(@, t + backoff)]
ExtendedUncapped(e, cool, t) ==
  LET grows   == t >= e.grownAt + Window
      backoff == IF grows THEN Larger(2 * e.backoff, cool) ELSE e.backoff
  IN  [e EXCEPT !.touched = t, !.backoff = backoff,
                !.grownAt = IF grows THEN t ELSE @,
                !.openUntil = Larger(@, t + backoff)]
\* A single attempt hit the limit again: back off longer, growing at most
\* once per Window.
Extended(e, cool, t) ==
  LET grows   == t >= e.grownAt + Window
      backoff == IF grows
                 THEN Smaller(Larger(2 * e.backoff, cool), MaxBackoff)
                 ELSE e.backoff
  IN  [e EXCEPT !.touched   = t,
                !.backoff   = backoff,
                !.grownAt   = IF grows THEN t ELSE @,
                !.openUntil = Larger(@, t + backoff)]

\* Mutant of RecentHits: a hit never leaves the window.
RecentHitsForever(e, h, t) == [e.hits EXCEPT ![h] = t]

\* The hits left once the ones outside the window are dropped and h's is filed.
RecentHits(e, h, t) ==
  [k \in KeyHashes |-> CASE k = h                             -> t
                         [] k # h /\ t =< e.hits[k] + Window -> e.hits[k]
                         [] OTHER                             -> 0]

HitKeys(hits) == {k \in KeyHashes : hits[k] > 0}

\* maxCool starts over when every earlier hit was dropped.
LongestCool(e, h, cool, t) ==
  LET kept == {k \in HitKeys(e.hits) : t =< e.hits[k] + Window}
  IN  Larger(IF kept = {} THEN 0 ELSE e.maxCool, cool)

\* Not in single-attempt mode: count the hit, trip on the last distinct key.
Counted(e, h, cool, floor, t) ==
  LET hits    == RecentHits(e, h, t)
      longest == LongestCool(e, h, cool, t)
      backoff == Smaller(Larger(Larger(longest, floor), MinBackoff), MaxBackoff)
  IN  IF Cardinality(HitKeys(hits)) < DistinctKeys
      THEN [e EXCEPT !.touched = t, !.hits = hits, !.maxCool = longest]
      ELSE [e EXCEPT !.touched = t, !.hits = NoHits, !.maxCool = 0,
                     !.tripped = TRUE, !.backoff = backoff,
                     !.openUntil = t + backoff, !.grownAt = t]

\* The entry after record429, prune included: absent or an ended trip counts
\* afresh.
Filed(e, h, cool, floor, t) ==
  LET old == Pruned(e, t)
      cur == IF ~old.live \/ (old.tripped /\ old.openUntil =< t)
             THEN NewEntry ELSE old
  IN  IF cur.tripped THEN Extended(cur, cool, t)
                     ELSE Counted(cur, h, cool, floor, t)

-----------------------------------------------------------------------------
Init ==
  /\ now = 1
  /\ breaker = [m \in Models |-> NoEntry]

Tick ==
  /\ now < MaxNow
  /\ now' = now + 1
  /\ UNCHANGED breaker

\* record429(m, h, cool, floor, t); it answers Open(breaker'[m], t).
Record429(m, h, cool, floor, t) ==
  /\ breaker' = [n \in Models |->
                   IF n = m THEN Filed(breaker[n], h, cool, floor, t)
                            ELSE Pruned(breaker[n], t)]
  /\ UNCHANGED now

\* success(m): an upstream answered 200.
Success(m) ==
  /\ breaker' = [breaker EXCEPT ![m] = NoEntry]
  /\ UNCHANGED now

Next ==
  \/ Tick
  \/ \E m \in Models, h \in KeyHashes, cool \in Cools, floor \in Floors,
        t \in Reading : Record429(m, h, cool, floor, t)
  \/ \E m \in Models : Success(m)

Spec == Init /\ [][Next]_breakerVars

-----------------------------------------------------------------------------
\* Type invariant: the clock and every entry stay in their domains; no
\* backoff ever exceeds the cap.
TypeOK ==
  /\ now \in Nat \ {0}
  /\ breaker \in [Models -> ModelBreaker]

\* "Client-chosen model strings can't grow the map without bound": whenever
\* a 429 is filed, every entry left was touched within Idle or is a running
\* trip.
IdleEntriesDropped ==
  [][breaker' # breaker /\ (\E m \in Models : breaker'[m].touched > breaker[m].touched) =>
       \A m \in Models :
         breaker'[m].live => \/ now =< breaker'[m].touched + Idle + ClockLag
                             \/ Open(breaker'[m], now - ClockLag)]_breakerVars
=============================================================================
