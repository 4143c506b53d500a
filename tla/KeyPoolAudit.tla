--------------------------- MODULE KeyPoolAudit ----------------------------
(***************************************************************************)
(* What a key pool promises, stated over the pool of KeyPool and three     *)
(* history variables no code reads: how many requests each key served on   *)
(* each calendar day, how many of its picks waited for the lock while a    *)
(* later day's pick went first, and until when a 429 told us each key is   *)
(* limited.                                                                *)
(***************************************************************************)
EXTENDS KeyPool

CONSTANT MaxBackdated   \* bound: backdated picks of the pool

ASSUME BackdatedAssumption == MaxBackdated \in Nat

VARIABLES
  servedOn,  \* key -> day -> picks made on that day
  backdated, \* key -> picks dated before the day its count was for
  told       \* key -> model -> latest end of a 429 cooldown covering it

auditVars == <<now, keys, servedOn, backdated, told>>

Days == 1 .. DayOf(MaxNow)

AuditInit ==
  /\ Init
  /\ servedOn = [i \in Slot |-> [d \in Days |-> 0]]
  /\ backdated = [i \in Slot |-> 0]
  /\ told = [i \in Slot |-> [m \in Models |-> 0]]

AuditTick == Tick /\ UNCHANGED <<servedOn, backdated, told>>

AuditPick(i, exclude, m, t) ==
  /\ Pick(i, exclude, m, t)
  /\ backdated' = [backdated EXCEPT ![i] =
                     IF DayOf(t) < keys[i].dayStamp THEN @ + 1 ELSE @]
  /\ MapThenSumSet(LAMBDA j : backdated'[j], Slot) =< MaxBackdated
  /\ servedOn' = [servedOn EXCEPT ![i][DayOf(t)] = @ + 1]
  /\ UNCHANGED told

AuditCooldown(i, d) == Cooldown(i, d) /\ UNCHANGED <<servedOn, backdated, told>>

AuditCooldownAccount(i, d) ==
  /\ CooldownAccount(i, d)
  /\ told' = [told EXCEPT ![i] = [m \in Models |-> Later(@[m], now + d)]]
  /\ UNCHANGED <<servedOn, backdated>>

AuditCooldownModel(i, m, d, t) ==
  /\ CooldownModel(i, m, d, t)
  /\ told' = [told EXCEPT ![i][m] = Later(@, t + d)]
  /\ UNCHANGED <<servedOn, backdated>>

AuditDisable(i) == Disable(i) /\ UNCHANGED <<servedOn, backdated, told>>
AuditSetEnabled(i) == SetEnabled(i) /\ UNCHANGED <<servedOn, backdated, told>>

AuditNext ==
  \/ AuditTick
  \/ \E t \in Reading, m \in Models \cup {NoModel}, exclude \in SUBSET Slot :
       \E i \in Choice(exclude, m, t) : AuditPick(i, exclude, m, t)
  \/ \E i \in Picked, d \in Cooldowns : AuditCooldown(i, d)
  \/ \E i \in Picked, d \in Cooldowns : AuditCooldownAccount(i, d)
  \/ \E i \in Picked, m \in Models, d \in Cooldowns, t \in Reading :
       AuditCooldownModel(i, m, d, t)
  \/ \E i \in Picked : AuditDisable(i)
  \/ \E i \in Slot : AuditSetEnabled(i)

AuditSpec == AuditInit /\ [][AuditNext]_auditVars

-----------------------------------------------------------------------------
\* Type invariant of the pool and its history.
AuditTypeOK ==
  /\ TypeOK
  /\ now =< MaxNow
  /\ servedOn \in [Slot -> [Days -> Nat]]
  /\ backdated \in [Slot -> Nat]
  /\ told \in [Slot -> [Models -> Nat]]

\* The daily cap (pool.go, "max requests per key per day").  A late failure
\* may replace the until-midnight cooldown by a shorter one, and still no key
\* serves more than DailyCap requests on one calendar day; but a pick that
\* read the clock before midnight and got the lock after another day's pick
\* starts the count again: each one may cost a day one more cap, never more.
CapRespected ==
  DailyCap > 0 =>
    \A i \in Slot, d \in Days :
      servedOn[i][d] =< DailyCap * (1 + backdated[i])

\* The Retry-After of a rate-limited model (rateLimitedFor): if nothing else
\* happens, no key can serve the model before the announced instant and one
\* of them can serve it at that instant.
RetryAfterHonest ==
  \A m \in Models :
    RateLimited(m, now) =>
      LET free == now + RetryWait(m, now)
      IN  /\ \A t \in now .. free - 1 : Available({}, m, t) = {}
          /\ Available({}, m, free) # {}

\* "All-disabled pools or keys blocked purely by 5xx cooldowns/daily caps are
\* not rate limits": when rateLimitedFor reports a 429, a 429 that is still
\* running was really received for every enabled key.
RateLimitReportIsReal ==
  \A m \in Models :
    RateLimited(m, now) => \A i \in Enabled : now < told[i][m]

\* A 429 cools the (key, model) pair (cooldownModel): filing one never
\* changes whether the key can serve any other model now.
RateLimitStaysWithModel ==
  [][\A i \in Slot, m \in Models :
       keys'[i].modelCooldown[m] > keys[i].modelCooldown[m] =>
         \A n \in (Models \cup {NoModel}) \ {m} :
           Blocked(i, {}, n, now)' = Blocked(i, {}, n, now)]_auditVars
=============================================================================
