-------------------------- MODULE RateLimitPolicy ---------------------------
(***************************************************************************)
(* What the rate-limit breaker promises, without its bookkeeping: two      *)
(* distinct keys answering 429 for a model within Window put it into       *)
(* single-attempt mode, for at least MinBackoff and at most MaxBackoff     *)
(* from the last 429; a 200 forgets everything about the model.            *)
(*                                                                         *)
(* An answer is filed under a reading of the clock up to ClockLag old.     *)
(* The 429s that count for it are exactly those of the Window before the   *)
(* reading that no trip and no 200 has used up.  How long an entry idles,  *)
(* when stale hits are dropped and how the backoff grows are the           *)
(* implementation's business.                                              *)
(***************************************************************************)
EXTENDS Naturals, FiniteSets

CONSTANTS Models, KeyHashes, Window, DistinctKeys, MinBackoff, MaxBackoff,
          ClockLag, MaxNow

VARIABLES
  now,
  recent,  \* model -> {<<key, time>>}: the 429s that may still count
  until    \* model -> end of single-attempt mode, 0 when not in it

policyVars == <<now, recent, until>>

Later(a, b) == IF a > b THEN a ELSE b

Reading == {t \in 1 .. now : now - t =< ClockLag}

Init ==
  /\ now = 1
  /\ recent = [m \in Models |-> {}]
  /\ until = [m \in Models |-> 0]

\* Time passes: 429s leave the window, backoffs run out, for every reading.
Pass ==
  /\ now < MaxNow
  /\ now' = now + 1
  /\ recent' = [m \in Models |->
                  {r \in recent[m] : now' =< r[2] + Window + ClockLag}]
  /\ until' = [m \in Models |->
                 IF now' < until[m] + ClockLag THEN until[m] ELSE 0]

\* Only m's single-attempt mode changes, to end at some u of ends; one that
\* is over may be forgotten before the last stale reader looks.
Ends(m, ends) ==
  /\ until'[m] \in ends
  /\ \A n \in Models \ {m} :
       until'[n] = until[n] \/ (until[n] =< now /\ until'[n] = 0)

\* A 429 during single-attempt mode can only prolong it.
Prolong(m, h, t) ==
  /\ t < until[m]
  /\ Ends(m, until[m] .. Later(until[m], t + MaxBackoff))
  /\ UNCHANGED <<now, recent>>

Counted(m, h, t) ==
  {r \in recent[m] : r[1] # h /\ t =< r[2] + Window} \cup {<<h, t>>}

\* Too few distinct keys in the window: the 429 only counts.
Count(m, h, t) ==
  /\ until[m] =< t
  /\ Cardinality(Counted(m, h, t)) < DistinctKeys
  /\ recent' = [recent EXCEPT ![m] = Counted(m, h, t)]
  /\ Ends(m, {0})
  /\ UNCHANGED now

\* The last distinct key trips the model and uses the 429s up.
Trip(m, h, t) ==
  /\ until[m] =< t
  /\ Cardinality(Counted(m, h, t)) >= DistinctKeys
  /\ recent' = [recent EXCEPT ![m] = {}]
  /\ Ends(m, (t + MinBackoff) .. (t + MaxBackoff))
  /\ UNCHANGED now

\* An upstream answered 200.
Recover(m) ==
  /\ recent' = [recent EXCEPT ![m] = {}]
  /\ until' = [until EXCEPT ![m] = 0]
  /\ UNCHANGED now

Next ==
  \/ Pass
  \/ \E m \in Models, h \in KeyHashes, t \in Reading :
       Prolong(m, h, t) \/ Count(m, h, t) \/ Trip(m, h, t)
  \/ \E m \in Models : Recover(m)

Spec == Init /\ [][Next]_policyVars
=============================================================================
