------------------------------ MODULE MCKeyPool ------------------------------
(***************************************************************************)
(* The instance of KeyPoolAudit for TLC.  The models are interchangeable   *)
(* in every rule, so permuting them is a symmetry.  So are the keys: the   *)
(* keys tried before may be all the others, hence every free key can be    *)
(* the next pick, whatever the order.                                      *)
(*                                                                         *)
(* Two states are also the same to every rule and property when they       *)
(* differ only in what is over: a cooldown no clock reading can fall into  *)
(* any more is one that never was, the counts of a day no reading can lie  *)
(* in stay as they are, and outside "lru" mode a key's lastUsed tells only *)
(* whether it was ever picked.  The view Live forgets the rest.            *)
(***************************************************************************)
EXTENDS KeyPoolAudit, TLC

ModelSymmetry == Permutations(Models)

\* t while some clock reading may still lie before it, else "never".
Running(t) == IF t + ClockLag > now THEN t ELSE 0

\* What a 429 told us counts from now on only.
Pending(t) == IF t > now THEN t ELSE 0

\* n while a clock reading may still lie on day d, else nothing.
ThatDay(d, n) == IF now < d * DayLen + ClockLag THEN n ELSE 0

LiveKey(i) ==
  LET k == keys[i] IN
  << k.disabled, Running(k.cooldownUntil),
     k.rateLimited /\ Running(k.cooldownUntil) > 0,
     [m \in Models |-> Running(k.modelCooldown[m])],
     ThatDay(k.dayStamp, k.dayStamp), ThatDay(k.dayStamp, k.dayCount),
     IF Mode = "lru" THEN k.lastUsed ELSE Min({k.lastUsed, 1}),
     backdated[i], [d \in Days |-> ThatDay(d, servedOn[i][d])],
     [m \in Models |-> Pending(told[i][m])] >>

\* Of two keys, the set of their live states is the bag of them.
ASSUME TwoKeysAssumption == NumKeys =< 2

Live == << now, {LiveKey(i) : i \in Slot} >>
=============================================================================
