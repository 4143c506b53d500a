------------------------------ MODULE KeyPool ------------------------------
(***************************************************************************)
(* The upstream key pool of one provider (internal/gateway/pool.go).       *)
(*                                                                         *)
(* Every method of Pool holds Pool.mu for its whole body, so each is one   *)
(* action.  Two of them, pick and cooldownModel, read the clock BEFORE     *)
(* they take the lock: they act on a reading that may be up to ClockLag    *)
(* ticks old.  Times are ticks of a clock that starts at 1; 0 stands for   *)
(* Go's zero time ("never") and for an absent entry of a map of times.     *)
(* A key is its position in the configured order.  The display counters    *)
(* Requests, RateLimited and Errors are left out: nothing reads them.      *)
(***************************************************************************)
EXTENDS Naturals, FiniteSetsExt

CONSTANTS
  NumKeys,     \* keys in the pool, in configured order
  Models,      \* upstream model ids
  NoModel,     \* the model "" of a catalog fetch
  Mode,        \* "priority" | "priority-daily" | "lru"
  DailyCap,    \* requests per key and day, 0 = off
  DayLen,      \* ticks per calendar day
  ClockLag,    \* how old a clock reading may be once the lock is held
  MaxNow,      \* bound: the clock stops here
  Cooldowns    \* bound: durations a caller passes

ASSUME PoolAssumption ==
  /\ NumKeys \in Nat
  /\ NoModel \notin Models
  /\ Mode \in {"priority", "priority-daily", "lru"}
  /\ DailyCap \in Nat
  /\ DayLen \in Nat \ {0}
  /\ ClockLag \in Nat
  /\ MaxNow \in Nat \ {0}
  /\ Cooldowns \subseteq Nat \ {0}

VARIABLES
  now,   \* the wall clock
  keys   \* Pool.keys: position -> KeyState

poolVars == <<now, keys>>

Slot == 1 .. NumKeys

\* disabled stands for Disabled and DisabledReason together: disable sets
\* both and setEnabled(hash, true), its only use, clears both.
KeyState ==
  [ disabled       : BOOLEAN,
    cooldownUntil  : Nat,
    rateLimited    : BOOLEAN,
    modelCooldown  : [Models -> Nat],
    lastUsed       : Nat,
    dayStamp       : Nat,
    dayCount       : 0 .. DailyCap ]

FreshKey ==
  [ disabled |-> FALSE, cooldownUntil |-> 0, rateLimited |-> FALSE,
    modelCooldown |-> [m \in Models |-> 0],
    lastUsed |-> 0, dayStamp |-> 0, dayCount |-> 0 ]

Later(a, b) == IF a > b THEN a ELSE b

\* Calendar days are numbered from 1, so no day is the empty stamp 0.
DayOf(t) == t \div DayLen + 1
NextMidnight(t) == DayOf(t) * DayLen

\* The instants a call may have read before it got the lock.
Reading == {t \in 1 .. now : now - t =< ClockLag}

Capped(k, t) ==
  DailyCap > 0 /\ k.dayStamp = DayOf(t) /\ k.dayCount >= DailyCap

\* Mutant of Blocked: the cap rests on the until-midnight cooldown alone.
BlockedWithoutCap(i, exclude, m, t) ==
  \/ keys[i].disabled
  \/ i \in exclude
  \/ t < keys[i].cooldownUntil
  \/ m # NoModel /\ t < keys[i].modelCooldown[m]

Blocked(i, exclude, m, t) ==
  \/ keys[i].disabled
  \/ i \in exclude
  \/ t < keys[i].cooldownUntil
  \/ Capped(keys[i], t)
  \/ m # NoModel /\ t < keys[i].modelCooldown[m]

\* dailyOffset, and a key's distance from it along the wrapping walk.
DailyOffset(t) == IF Mode = "priority-daily" THEN DayOf(t) % NumKeys ELSE 0
Distance(i, t) == (i - 1 + NumKeys - DailyOffset(t)) % NumKeys

Precedes(i, j, t) ==
  IF Mode = "lru"
  THEN \/ keys[i].lastUsed < keys[j].lastUsed
       \/ keys[i].lastUsed = keys[j].lastUsed /\ i =< j
  ELSE Distance(i, t) =< Distance(j, t)

Available(exclude, m, t) == {i \in Slot : ~Blocked(i, exclude, m, t)}

\* What pickAt returns: one key, or none when every key is blocked.
Choice(exclude, m, t) ==
  LET free == Available(exclude, m, t)
  IN  {i \in free : \A j \in free : Precedes(i, j, t)}

\* The key state after a pick at t; the pick that reaches the cap cools the
\* key until midnight.
Served(k, t) ==
  LET count  == IF k.dayStamp = DayOf(t) THEN k.dayCount + 1 ELSE 1
      capped == count = DailyCap
  IN  IF DailyCap = 0
      THEN [k EXCEPT !.lastUsed = t]
      ELSE [k EXCEPT !.lastUsed = t,
                     !.dayStamp = DayOf(t),
                     !.dayCount = count,
                     !.cooldownUntil = IF capped THEN NextMidnight(t) ELSE @,
                     !.rateLimited = IF capped THEN FALSE ELSE @]

(***************************************************************************)
(* rateLimitedFor, asked at t: every enabled key carries a running 429     *)
(* cooldown for m, and wait is how long until the first of them is free.   *)
(***************************************************************************)
Enabled == {i \in Slot : ~keys[i].disabled}

LimitedUntil(k, m) ==
  Later(k.modelCooldown[m], IF k.rateLimited THEN k.cooldownUntil ELSE 0)

\* Mutant of FreeAt: the wait for the 429 alone.
FreeAtLimitOnly(k, m, t) == LimitedUntil(k, m)

FreeAt(k, m, t) ==
  Later(Later(LimitedUntil(k, m), k.cooldownUntil),
        IF Capped(k, t) THEN NextMidnight(t) ELSE 0)

RateLimited(m, t) ==
  Enabled # {} /\ \A i \in Enabled : t < LimitedUntil(keys[i], m)

RetryWait(m, t) == Min({FreeAt(keys[i], m, t) : i \in Enabled}) - t

-----------------------------------------------------------------------------
Init ==
  /\ now = 1
  /\ keys = [i \in Slot |-> FreshKey]

Tick ==
  /\ now < MaxNow
  /\ now' = now + 1
  /\ UNCHANGED keys

\* pick(exclude, m) answers key i.
Pick(i, exclude, m, t) ==
  /\ i \in Choice(exclude, m, t)
  /\ keys' = [keys EXCEPT ![i] = Served(@, t)]
  /\ UNCHANGED now

\* Mutant of Cooldown: the cause of the cooldown is not replaced.
CooldownKeepsCause(i, d) ==
  /\ keys' = [keys EXCEPT ![i].cooldownUntil = now + d]
  /\ UNCHANGED now

\* cooldown: 5xx, network error, flaky 401/403.
Cooldown(i, d) ==
  /\ keys' = [keys EXCEPT ![i].cooldownUntil = now + d,
                          ![i].rateLimited = FALSE]
  /\ UNCHANGED now

\* cooldownAccount: a 429 that states the whole account's reset.
CooldownAccount(i, d) ==
  /\ keys' = [keys EXCEPT ![i].cooldownUntil = now + d,
                          ![i].rateLimited = TRUE]
  /\ UNCHANGED now

\* Mutant of CooldownModel: one model's 429 lengthens the entries of all.
CooldownModelAllModels(i, m, d, t) ==
  /\ keys' = [keys EXCEPT ![i].modelCooldown =
                [n \in Models |-> Later(t + d, @[n])]]
  /\ UNCHANGED now

\* cooldownModel: any other 429.  Entries that ran out are pruned on the way.
CooldownModel(i, m, d, t) ==
  /\ keys' = [keys EXCEPT ![i].modelCooldown =
                [n \in Models |-> CASE n = m      -> t + d
                                    [] n # m /\ t < @[n] -> @[n]
                                    [] OTHER      -> 0]]
  /\ UNCHANGED now

\* disable: the upstream rejected the key, or said it expired.
Disable(i) ==
  /\ keys' = [keys EXCEPT ![i].disabled = TRUE]
  /\ UNCHANGED now

\* setEnabled(hash, true): an admin switches the key on again.
SetEnabled(i) ==
  /\ keys' = [keys EXCEPT ![i].disabled = FALSE]
  /\ UNCHANGED now

\* Answers to earlier picks may arrive at any time and in any order, so a
\* failure may be filed against any key that was ever picked.
Picked == {i \in Slot : keys[i].lastUsed > 0}

Next ==
  \/ Tick
  \/ \E t \in Reading, m \in Models \cup {NoModel}, exclude \in SUBSET Slot :
       \E i \in Choice(exclude, m, t) : Pick(i, exclude, m, t)
  \/ \E i \in Picked, d \in Cooldowns : Cooldown(i, d)
  \/ \E i \in Picked, d \in Cooldowns : CooldownAccount(i, d)
  \/ \E i \in Picked, m \in Models, d \in Cooldowns, t \in Reading :
       CooldownModel(i, m, d, t)
  \/ \E i \in Picked : Disable(i)
  \/ \E i \in Slot : SetEnabled(i)

Spec == Init /\ [][Next]_poolVars

\* Type invariant: the clock and every key state stay in their domains; the
\* day's count never passes the cap, whatever clock readings the picks used.
TypeOK ==
  /\ now \in Nat \ {0}
  /\ keys \in [Slot -> KeyState]
=============================================================================
