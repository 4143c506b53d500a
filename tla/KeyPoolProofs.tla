--------------------------- MODULE KeyPoolProofs ---------------------------
(***************************************************************************)
(* Theorems about one key pool, for any number of keys, any models, modes, *)
(* caps, day lengths, cooldowns and clock lag.                             *)
(***************************************************************************)
EXTENDS KeyPoolAudit, WellFoundedInduction, TLAPS

\* Calendar days are numbered from 1 and never decrease with the clock.
LEMMA DayPositive ==
  ASSUME NEW t \in Nat
  PROVE  DayOf(t) \in Nat \ {0}
<1>1. t \div DayLen \in Nat
  BY PoolAssumption
<1> QED
  BY <1>1 DEF DayOf

\* Later instants are on later days, or on the same.
LEMMA DayMonotonic ==
  ASSUME NEW t \in Nat, NEW u \in Nat, t =< u
  PROVE  DayOf(t) =< DayOf(u)
<1>1. t \div DayLen =< u \div DayLen
  BY PoolAssumption
<1>2. t \div DayLen \in Nat /\ u \div DayLen \in Nat
  BY PoolAssumption
<1> QED
  BY <1>1, <1>2 DEF DayOf

\* A day's end is an instant.
LEMMA MidnightNat ==
  ASSUME NEW t \in Nat
  PROVE  NextMidnight(t) \in Nat
<1>1. DayOf(t) \in Nat
  BY DayPositive
<1> QED
  BY <1>1, PoolAssumption DEF NextMidnight

\* A reading is an instant of the past, hence of the model's clock.
LEMMA ReadingInClock ==
  ASSUME AuditTypeOK, NEW t \in Reading
  PROVE  t \in Nat /\ t =< now /\ DayOf(t) \in Days
<1>1. t \in Nat /\ t =< now /\ now =< MaxNow /\ now \in Nat /\ MaxNow \in Nat
  BY PoolAssumption DEF AuditTypeOK, TypeOK, Reading
<1>2. DayOf(t) \in Nat \ {0} /\ DayOf(MaxNow) \in Nat
  BY <1>1, DayPositive
<1>3. DayOf(t) =< DayOf(MaxNow)
  <2>1. t =< MaxNow
    BY <1>1
  <2> QED
    BY <1>1, <2>1, DayMonotonic
<1> QED
  BY <1>1, <1>2, <1>3 DEF Days

\* A pick leaves a well-formed key state; it is the cap's test before the
\* pick that keeps the day's count within the cap.
LEMMA ServedTyped ==
  ASSUME NEW k \in KeyState, NEW t \in Nat, ~Capped(k, t)
  PROVE  Served(k, t) \in KeyState
<1>1. DayOf(t) \in Nat /\ NextMidnight(t) \in Nat
  BY DayPositive, MidnightNat
<1> DEFINE count == IF k.dayStamp = DayOf(t) THEN k.dayCount + 1 ELSE 1
<1>2. DailyCap # 0 => count \in 0 .. DailyCap
  BY PoolAssumption DEF Capped, KeyState
<1>3. CASE DailyCap = 0
  BY <1>3 DEF Served, KeyState
<1>4. CASE DailyCap # 0
  <2> HIDE DEF count
  <2>1. Served(k, t) =
          [k EXCEPT !.lastUsed = t, !.dayStamp = DayOf(t), !.dayCount = count,
                    !.cooldownUntil = IF count = DailyCap
                                      THEN NextMidnight(t) ELSE @,
                    !.rateLimited = IF count = DailyCap THEN FALSE ELSE @]
    BY <1>4 DEF Served, count
  <2> QED
    BY <1>1, <1>2, <1>4, <2>1 DEF KeyState
<1> QED
  BY <1>3, <1>4

\* Every key state and the history keep their types.
LEMMA InitTyped == AuditInit => AuditTypeOK
  BY PoolAssumption DEF AuditInit, Init, AuditTypeOK, TypeOK, FreshKey, KeyState, Days

\* Every step keeps the pool and its history in their domains.
LEMMA StepTyped == AuditTypeOK /\ [AuditNext]_auditVars => AuditTypeOK'
<1> SUFFICES ASSUME AuditTypeOK, [AuditNext]_auditVars
             PROVE  AuditTypeOK'
  OBVIOUS
<1> USE DEF AuditTypeOK, TypeOK
<1>1. CASE AuditTick
  BY <1>1, PoolAssumption DEF AuditTick, Tick
<1>2. ASSUME NEW t \in Reading, NEW m \in Models \cup {NoModel},
             NEW exclude \in SUBSET Slot, NEW i \in Choice(exclude, m, t),
             AuditPick(i, exclude, m, t)
      PROVE  AuditTypeOK'
  <2>1. i \in Slot /\ ~Capped(keys[i], t) /\ t \in Nat
    BY <1>2, ReadingInClock DEF Choice, Available, Blocked
  <2>2. keys' = [keys EXCEPT ![i] = Served(keys[i], t)]
    BY <1>2 DEF AuditPick, Pick
  <2>3. Served(keys[i], t) \in KeyState
    BY <2>1, ServedTyped
  <2>4. keys' \in [Slot -> KeyState]
    BY <2>1, <2>2, <2>3
  <2>5. servedOn' \in [Slot -> [Days -> Nat]]
    <3>1. DayOf(t) \in Days
      BY ReadingInClock
    <3>2. [servedOn[i] EXCEPT ![DayOf(t)] = @ + 1] \in [Days -> Nat]
      BY <2>1, <3>1
    <3>3. servedOn' = [servedOn EXCEPT ![i] = [servedOn[i] EXCEPT ![DayOf(t)] = @ + 1]]
      BY <1>2 DEF AuditPick
    <3> QED
      BY <2>1, <3>2, <3>3
  <2>6. backdated' \in [Slot -> Nat]
    <3>1. backdated[i] \in Nat /\ backdated[i] + 1 \in Nat
      BY <2>1
    <3> QED
      BY <1>2, <2>1, <3>1 DEF AuditPick
  <2> QED
    BY <1>2, <2>4, <2>5, <2>6 DEF AuditPick, Pick
<1>3. ASSUME NEW i \in Picked, NEW d \in Cooldowns, AuditCooldown(i, d)
      PROVE  AuditTypeOK'
  <2>1. i \in Slot /\ now + d \in Nat
    BY PoolAssumption DEF Picked
  <2>2. [keys[i] EXCEPT !.cooldownUntil = now + d, !.rateLimited = FALSE] \in KeyState
    BY <2>1 DEF KeyState
  <2> QED
    BY <1>3, <2>1, <2>2 DEF AuditCooldown, Cooldown
<1>4. ASSUME NEW i \in Picked, NEW d \in Cooldowns, AuditCooldownAccount(i, d)
      PROVE  AuditTypeOK'
  <2>1. i \in Slot /\ now + d \in Nat
    BY PoolAssumption DEF Picked
  <2>2. [keys[i] EXCEPT !.cooldownUntil = now + d, !.rateLimited = TRUE] \in KeyState
    BY <2>1 DEF KeyState
  <2>3. told' \in [Slot -> [Models -> Nat]]
    BY <1>4, <2>1 DEF AuditCooldownAccount, Later
  <2> QED
    BY <1>4, <2>1, <2>2, <2>3 DEF AuditCooldownAccount, CooldownAccount
<1>5. ASSUME NEW i \in Picked, NEW m \in Models, NEW d \in Cooldowns,
             NEW t \in Reading, AuditCooldownModel(i, m, d, t)
      PROVE  AuditTypeOK'
  <2>1. i \in Slot /\ t + d \in Nat
    BY PoolAssumption, ReadingInClock DEF Picked
  <2> DEFINE cooled == [n \in Models |->
                          CASE n = m -> t + d
                            [] n # m /\ t < keys[i].modelCooldown[n]
                                 -> keys[i].modelCooldown[n]
                            [] OTHER -> 0]
  <2>2. cooled \in [Models -> Nat]
    BY <2>1 DEF KeyState
  <2>3. keys' = [keys EXCEPT ![i] = [keys[i] EXCEPT !.modelCooldown = cooled]]
    BY <1>5, <2>1 DEF AuditCooldownModel, CooldownModel
  <2>4. [keys[i] EXCEPT !.modelCooldown = cooled] \in KeyState
    <3> HIDE DEF cooled
    <3> QED
      BY <2>1, <2>2 DEF KeyState
  <2>5. told' \in [Slot -> [Models -> Nat]]
    BY <1>5, <2>1 DEF AuditCooldownModel, Later
  <2> HIDE DEF cooled
  <2> QED
    BY <1>5, <2>1, <2>3, <2>4, <2>5 DEF AuditCooldownModel, CooldownModel
<1>6. ASSUME NEW i \in Picked, AuditDisable(i)
      PROVE  AuditTypeOK'
  <2>1. i \in Slot /\ [keys[i] EXCEPT !.disabled = TRUE] \in KeyState
    BY DEF Picked, KeyState
  <2> QED
    BY <1>6, <2>1 DEF AuditDisable, Disable
<1>7. ASSUME NEW i \in Slot, AuditSetEnabled(i)
      PROVE  AuditTypeOK'
  <2>1. [keys[i] EXCEPT !.disabled = FALSE] \in KeyState
    BY DEF KeyState
  <2> QED
    BY <1>7, <2>1 DEF AuditSetEnabled, SetEnabled
<1>8. CASE UNCHANGED auditVars
  BY <1>8 DEF auditVars
<1> QED
  BY <1>1, <1>2, <1>3, <1>4, <1>5, <1>6, <1>7, <1>8 DEF AuditNext

\* The types hold on every behaviour; with them, no key's count for the day
\* of its stamp ever passes the cap, although picks may act on stale clock
\* readings and failures may replace the until-midnight cooldown.
THEOREM TypesHold == AuditSpec => []AuditTypeOK
<1> QED
  BY InitTyped, StepTyped, PTL DEF AuditSpec

-----------------------------------------------------------------------------
(***************************************************************************)
(* rateLimitedFor never reports a 429 that did not happen.  What makes it  *)
(* so is the flag rateLimited: every write of cooldownUntil replaces the   *)
(* cause along with the instant, so a cooldown marked as a rate limit, and *)
(* every (key, model) cooldown, ends no later than some 429 said.          *)
(***************************************************************************)
CoolingIsTold(i) ==
  \A m \in Models :
    /\ keys[i].modelCooldown[m] =< told[i][m]
    /\ keys[i].rateLimited => keys[i].cooldownUntil =< told[i][m]

LimitInv == AuditTypeOK /\ \A i \in Slot : CoolingIsTold(i)

\* The rate-limit invariant holds initially.
LEMMA LimitInit == AuditInit => LimitInv
<1> SUFFICES ASSUME AuditInit PROVE LimitInv
  OBVIOUS
<1>1. AuditTypeOK
  BY InitTyped
<1>2. ASSUME NEW i \in Slot PROVE CoolingIsTold(i)
  BY DEF AuditInit, Init, FreshKey, CoolingIsTold
<1> QED
  BY <1>1, <1>2 DEF LimitInv

\* A key whose state and told instants stay is not disturbed.
LEMMA UntouchedStaysTold ==
  ASSUME NEW i \in Slot, CoolingIsTold(i), keys'[i] = keys[i], told'[i] = told[i]
  PROVE  CoolingIsTold(i)'
BY DEF CoolingIsTold

\* Every step keeps the rate-limit invariant.
LEMMA LimitStep == LimitInv /\ [AuditNext]_auditVars => LimitInv'
<1> SUFFICES ASSUME LimitInv, [AuditNext]_auditVars,
                    NEW j \in Slot
             PROVE  CoolingIsTold(j)'
  BY StepTyped DEF LimitInv
<1>t. AuditTypeOK /\ CoolingIsTold(j) /\ now \in Nat
  BY DEF LimitInv, AuditTypeOK, TypeOK
<1>k. keys \in [Slot -> KeyState] /\ told \in [Slot -> [Models -> Nat]]
  BY DEF LimitInv, AuditTypeOK, TypeOK
<1>1. CASE AuditTick
  BY <1>t, <1>1, UntouchedStaysTold DEF AuditTick, Tick
<1>2. ASSUME NEW t \in Reading, NEW m \in Models \cup {NoModel},
             NEW exclude \in SUBSET Slot, NEW i \in Choice(exclude, m, t),
             AuditPick(i, exclude, m, t)
      PROVE  CoolingIsTold(j)'
  <2>1. keys' = [keys EXCEPT ![i] = Served(@, t)] /\ told' = told
    BY <1>2 DEF AuditPick, Pick
  <2>2. CASE i # j
    BY <1>t, <1>k, <2>1, <2>2, UntouchedStaysTold
  <2>3. CASE i = j
    <3>1. keys'[j] = Served(keys[j], t)
      BY <1>k, <2>1, <2>3
    <3>2. /\ keys'[j].modelCooldown = keys[j].modelCooldown
          /\ keys'[j].rateLimited =>
               /\ keys[j].rateLimited
               /\ keys'[j].cooldownUntil = keys[j].cooldownUntil
      BY <1>k, <3>1 DEF Served, KeyState
    <3> QED
      BY <1>t, <2>1, <3>2 DEF CoolingIsTold
  <2> QED
    BY <2>2, <2>3
<1>3. ASSUME NEW i \in Picked, NEW d \in Cooldowns, AuditCooldown(i, d)
      PROVE  CoolingIsTold(j)'
  <2>1. told' = told /\ keys'[j].modelCooldown = keys[j].modelCooldown
    BY <1>3, <1>k DEF AuditCooldown, Cooldown, KeyState
  <2>2. keys'[j] = keys[j] \/ ~keys'[j].rateLimited
    BY <1>3, <1>k DEF AuditCooldown, Cooldown, KeyState
  <2> QED
    BY <1>t, <2>1, <2>2 DEF CoolingIsTold
<1>4. ASSUME NEW i \in Picked, NEW d \in Cooldowns, AuditCooldownAccount(i, d)
      PROVE  CoolingIsTold(j)'
  <2>1. CASE i # j
    <3>1. keys'[j] = keys[j] /\ told'[j] = told[j]
      BY <1>4, <1>k, <2>1 DEF AuditCooldownAccount, CooldownAccount
    <3> QED
      BY <1>t, <3>1, UntouchedStaysTold
  <2>2. CASE i = j
    <3>1. /\ keys'[j].modelCooldown = keys[j].modelCooldown
          /\ keys'[j].cooldownUntil = now + d
      BY <1>4, <1>k, <2>2 DEF AuditCooldownAccount, CooldownAccount, KeyState
    <3>2. told'[j] = [m \in Models |-> Later(told[j][m], now + d)]
      BY <1>4, <1>k, <2>2 DEF AuditCooldownAccount
    <3>3. now + d \in Nat
      BY <1>t, PoolAssumption
    <3>4. ASSUME NEW m \in Models
          PROVE  told[j][m] =< told'[j][m] /\ now + d =< told'[j][m]
      BY <1>k, <3>2, <3>3 DEF Later
    <3>5. ASSUME NEW m \in Models
          PROVE  keys[j].modelCooldown[m] =< told'[j][m]
      <4>1. /\ keys[j].modelCooldown[m] \in Nat /\ told[j][m] \in Nat
            /\ told'[j][m] \in Nat
        BY <1>k, <3>2, <3>3 DEF KeyState, Later
      <4> QED
        BY <1>t, <3>4, <4>1 DEF CoolingIsTold
    <3> QED
      BY <3>1, <3>4, <3>5 DEF CoolingIsTold
  <2> QED
    BY <2>1, <2>2
<1>5. ASSUME NEW i \in Picked, NEW m \in Models, NEW d \in Cooldowns,
             NEW t \in Reading, AuditCooldownModel(i, m, d, t)
      PROVE  CoolingIsTold(j)'
  <2>1. CASE i # j
    <3>1. keys'[j] = keys[j] /\ told'[j] = told[j]
      BY <1>5, <1>k, <2>1 DEF AuditCooldownModel, CooldownModel
    <3> QED
      BY <1>t, <3>1, UntouchedStaysTold
  <2>2. CASE i = j
    <3>1. t + d \in Nat
      BY <1>t, ReadingInClock, PoolAssumption
    <3>2. told'[j] = [told[j] EXCEPT ![m] = Later(@, t + d)]
      BY <1>5, <1>k, <2>2 DEF AuditCooldownModel
    <3>3. /\ keys'[j].rateLimited = keys[j].rateLimited
          /\ keys'[j].cooldownUntil = keys[j].cooldownUntil
      BY <1>5, <1>k, <2>2 DEF AuditCooldownModel, CooldownModel, KeyState
    <3>4. ASSUME NEW n \in Models
          PROVE  keys'[j].modelCooldown[n] =
                   CASE n = m -> t + d
                     [] n # m /\ t < keys[j].modelCooldown[n]
                          -> keys[j].modelCooldown[n]
                     [] OTHER -> 0
      BY <1>5, <1>k, <2>2 DEF AuditCooldownModel, CooldownModel, KeyState
    <3>5. ASSUME NEW n \in Models
          PROVE  /\ told[j][n] \in Nat /\ told'[j][n] \in Nat
                 /\ told[j][n] =< told'[j][n]
                 /\ n = m => t + d =< told'[j][n]
      BY <1>k, <3>1, <3>2 DEF Later
    <3>6. ASSUME NEW n \in Models
          PROVE  keys'[j].modelCooldown[n] =< told'[j][n]
      <4>1. keys[j].modelCooldown[n] =< told[j][n] /\ keys[j].modelCooldown[n] \in Nat
        BY <1>t, <1>k DEF CoolingIsTold, KeyState
      <4> QED
        BY <3>4, <3>5, <4>1
    <3>7. ASSUME NEW n \in Models, keys'[j].rateLimited
          PROVE  keys'[j].cooldownUntil =< told'[j][n]
      <4>1. keys[j].cooldownUntil =< told[j][n] /\ keys[j].cooldownUntil \in Nat
        BY <1>t, <1>k, <3>3, <3>7 DEF CoolingIsTold, KeyState
      <4> QED
        BY <3>3, <3>5, <4>1
    <3> QED
      BY <3>6, <3>7 DEF CoolingIsTold
  <2> QED
    BY <2>1, <2>2
<1>6. ASSUME NEW i \in Picked, AuditDisable(i)
      PROVE  CoolingIsTold(j)'
  <2>1. /\ told' = told
        /\ keys'[j].modelCooldown = keys[j].modelCooldown
        /\ keys'[j].rateLimited = keys[j].rateLimited
        /\ keys'[j].cooldownUntil = keys[j].cooldownUntil
    BY <1>6, <1>k DEF AuditDisable, Disable, KeyState
  <2> QED
    BY <1>t, <2>1 DEF CoolingIsTold
<1>7. ASSUME NEW i \in Slot, AuditSetEnabled(i)
      PROVE  CoolingIsTold(j)'
  <2>1. /\ told' = told
        /\ keys'[j].modelCooldown = keys[j].modelCooldown
        /\ keys'[j].rateLimited = keys[j].rateLimited
        /\ keys'[j].cooldownUntil = keys[j].cooldownUntil
    BY <1>7, <1>k DEF AuditSetEnabled, SetEnabled, KeyState
  <2> QED
    BY <1>t, <2>1 DEF CoolingIsTold
<1>8. CASE UNCHANGED auditVars
  BY <1>t, <1>8, UntouchedStaysTold DEF auditVars
<1> QED
  BY <1>1, <1>2, <1>3, <1>4, <1>5, <1>6, <1>7, <1>8 DEF AuditNext

\* What rateLimitedFor reports was told by the upstream.
LEMMA LimitInvSuffices == LimitInv => RateLimitReportIsReal
<1> SUFFICES ASSUME LimitInv, NEW m \in Models, RateLimited(m, now),
                    NEW i \in Enabled
             PROVE  now < told[i][m]
  BY DEF RateLimitReportIsReal
<1>1. i \in Slot /\ now < LimitedUntil(keys[i], m)
  BY DEF RateLimited, Enabled
<1>2. /\ keys[i] \in KeyState /\ told[i][m] \in Nat /\ now \in Nat
      /\ CoolingIsTold(i)
  BY <1>1 DEF LimitInv, AuditTypeOK, TypeOK
<1>3. LimitedUntil(keys[i], m) \in Nat /\ LimitedUntil(keys[i], m) =< told[i][m]
  BY <1>2 DEF LimitedUntil, Later, CoolingIsTold, KeyState
<1> QED
  BY <1>1, <1>2, <1>3

\* Whenever rateLimitedFor reports the model rate-limited, every enabled key
\* of the pool really received a 429 that is still running.
THEOREM RateLimitReportsAreReal == AuditSpec => []RateLimitReportIsReal
<1> QED
  BY LimitInit, LimitStep, LimitInvSuffices, PTL DEF AuditSpec

-----------------------------------------------------------------------------
(***************************************************************************)
(* The daily cap, whatever clock readings the picks act on.  Of the stamped *)
(* day, dayCount vouches for the picks since the count last began; each    *)
(* beginning but the first took a backdated pick, and used up a cap at     *)
(* most.  A day to come has had no beginning of its own, a day gone by one *)
(* more than it had backdated picks.                                       *)
(***************************************************************************)
CountIsCovered(i) ==
  \A d \in Days :
    LET paid == DailyCap * backdated[i] IN
    /\ d > keys[i].dayStamp => servedOn[i][d] =< paid
    /\ d = keys[i].dayStamp => servedOn[i][d] =< paid + keys[i].dayCount
    /\ d < keys[i].dayStamp => servedOn[i][d] =< paid + DailyCap

CapInv == AuditTypeOK /\ (DailyCap > 0 => \A i \in Slot : CountIsCovered(i))

\* The cap's invariant holds initially.
LEMMA CapInit == AuditInit => CapInv
<1> SUFFICES ASSUME AuditInit PROVE CapInv
  OBVIOUS
<1>1. AuditTypeOK
  BY InitTyped
<1>2. Days \subseteq Nat \ {0}
  BY DEF Days
<1>3. ASSUME NEW i \in Slot PROVE CountIsCovered(i)
  <2>1. /\ keys[i].dayStamp = 0 /\ backdated[i] = 0
        /\ \A d \in Days : servedOn[i][d] = 0
    BY DEF AuditInit, Init, FreshKey
  <2>2. DailyCap * backdated[i] = 0 /\ keys[i].dayCount = 0
    BY <2>1, PoolAssumption DEF AuditInit, Init, FreshKey
  <2>3. ASSUME NEW d \in Days
        PROVE  /\ d > keys[i].dayStamp
               /\ servedOn[i][d] =< DailyCap * backdated[i]
    BY <1>2, <2>1, <2>2
  <2>4. \A d \in Days : ~(d = keys[i].dayStamp) /\ ~(d < keys[i].dayStamp)
    BY <1>2, <2>1
  <2> QED
    BY <2>3, <2>4 DEF CountIsCovered
<1> QED
  BY <1>1, <1>3 DEF CapInv

\* Whatever leaves the day's bookkeeping of a key alone preserves it.
LEMMA UncountedStaysCovered ==
  ASSUME NEW i \in Slot, CountIsCovered(i),
         keys'[i].dayStamp = keys[i].dayStamp,
         keys'[i].dayCount = keys[i].dayCount,
         servedOn'[i] = servedOn[i],
         backdated'[i] = backdated[i]
  PROVE  CountIsCovered(i)'
<1>1. Days' = Days
  BY DEF Days, DayOf
<1> QED
  BY <1>1 DEF CountIsCovered

\* A pick of key i dated today keeps the invariant of that key.
LEMMA PickStaysCovered ==
  ASSUME AuditTypeOK, NEW i \in Slot, NEW t \in Reading, DailyCap > 0,
         CountIsCovered(i), ~Capped(keys[i], t),
         keys'[i] = Served(keys[i], t),
         servedOn'[i] = [servedOn[i] EXCEPT ![DayOf(t)] = @ + 1],
         backdated'[i] = IF DayOf(t) < keys[i].dayStamp
                         THEN backdated[i] + 1 ELSE backdated[i]
  PROVE  CountIsCovered(i)'
<1> DEFINE today == DayOf(t)
           stamp == keys[i].dayStamp
           had == keys[i].dayCount
           count == IF stamp = today THEN had + 1 ELSE 1
           paid == DailyCap * backdated[i]
           owed == DailyCap * backdated'[i]
           old(d) == servedOn[i][d]
           new(d) == servedOn'[i][d]
<1>1. /\ today \in Days /\ today \in Nat /\ stamp \in Nat
      /\ had \in 0 .. DailyCap /\ DailyCap \in Nat /\ backdated[i] \in Nat
      /\ keys[i] \in KeyState
  BY ReadingInClock, DayPositive, PoolAssumption DEF AuditTypeOK, TypeOK, KeyState
<1>2. keys'[i].dayStamp = today /\ keys'[i].dayCount = count
  BY <1>1 DEF Served, KeyState
<1>3. count \in Nat /\ 1 =< count /\ (stamp = today => count = had + 1)
  BY <1>1
<1>4. paid \in Nat
  BY <1>1
<1>5. IF today < stamp THEN owed = paid + DailyCap ELSE owed = paid
  BY <1>1
<1>6. \A d \in Days : /\ d \in Nat /\ old(d) \in Nat
                      /\ new(d) = IF d = today THEN old(d) + 1 ELSE old(d)
  <2> SUFFICES ASSUME NEW d \in Days
               PROVE  /\ d \in Nat /\ old(d) \in Nat
                      /\ new(d) = IF d = today THEN old(d) + 1 ELSE old(d)
    OBVIOUS
  <2>1. d \in Nat
    BY DEF Days
  <2>2. servedOn[i] \in [Days -> Nat]
    BY DEF AuditTypeOK
  <2> HIDE DEF today
  <2> QED
    BY <1>1, <2>1, <2>2, servedOn'[i] = [servedOn[i] EXCEPT ![today] = @ + 1] DEF today
<1>7. \A d \in Days : /\ d > stamp => old(d) =< paid
                      /\ d = stamp => old(d) =< paid + had
                      /\ d < stamp => old(d) =< paid + DailyCap
  BY DEF CountIsCovered
<1>8. Days' = Days
  BY DEF Days, DayOf
<1>9. had \in Nat /\ had =< DailyCap
  BY <1>1
<1>10. ASSUME NEW d \in Days
       PROVE  /\ d > today => new(d) =< owed
              /\ d = today => new(d) =< owed + count
              /\ d < today => new(d) =< owed + DailyCap
  <2> HIDE DEF today, stamp, had, count, paid, owed, old, new
  <2>1. /\ d \in Nat /\ old(d) \in Nat
        /\ new(d) = IF d = today THEN old(d) + 1 ELSE old(d)
    BY <1>6
  <2>2. /\ d > stamp => old(d) =< paid
        /\ d = stamp => old(d) =< paid + had
        /\ d < stamp => old(d) =< paid + DailyCap
    BY <1>7
  <2>3. CASE today < stamp
    BY <1>1, <1>3, <1>4, <1>5, <1>9, <2>1, <2>2, <2>3
  <2>4. CASE today = stamp
    BY <1>1, <1>3, <1>4, <1>5, <1>9, <2>1, <2>2, <2>4
  <2>5. CASE today > stamp
    BY <1>1, <1>3, <1>4, <1>5, <1>9, <2>1, <2>2, <2>5
  <2> QED
    BY <1>1, <2>3, <2>4, <2>5
<1>11. (CountIsCovered(i))' <=>
          \A d \in Days :
            /\ d > keys'[i].dayStamp => new(d) =< owed
            /\ d = keys'[i].dayStamp => new(d) =< owed + keys'[i].dayCount
            /\ d < keys'[i].dayStamp => new(d) =< owed + DailyCap
  BY <1>8 DEF CountIsCovered
<1> QED
  BY <1>2, <1>10, <1>11

\* Every step keeps the cap's invariant.
LEMMA CapStep == CapInv /\ [AuditNext]_auditVars => CapInv'
<1> SUFFICES ASSUME CapInv, [AuditNext]_auditVars, DailyCap > 0, NEW j \in Slot
             PROVE  CountIsCovered(j)'
  BY StepTyped DEF CapInv
<1>t. AuditTypeOK /\ CountIsCovered(j)
  BY DEF CapInv
<1>k. /\ keys \in [Slot -> KeyState] /\ servedOn \in [Slot -> [Days -> Nat]]
      /\ backdated \in [Slot -> Nat]
  BY DEF CapInv, AuditTypeOK, TypeOK
<1>1. CASE AuditTick
  BY <1>t, <1>1, UncountedStaysCovered DEF AuditTick, Tick
<1>2. ASSUME NEW t \in Reading, NEW m \in Models \cup {NoModel},
             NEW exclude \in SUBSET Slot, NEW i \in Choice(exclude, m, t),
             AuditPick(i, exclude, m, t)
      PROVE  CountIsCovered(j)'
  <2>1. i \in Slot /\ ~Capped(keys[i], t)
    BY <1>2 DEF Choice, Available, Blocked
  <2>2. keys' = [keys EXCEPT ![i] = Served(@, t)]
    BY <1>2 DEF AuditPick, Pick
  <2>3. servedOn' = [servedOn EXCEPT ![i] = [servedOn[i] EXCEPT ![DayOf(t)] = @ + 1]]
    BY <1>2 DEF AuditPick
  <2>4. backdated' = [backdated EXCEPT ![i] =
                        IF DayOf(t) < keys[i].dayStamp THEN @ + 1 ELSE @]
    BY <1>2 DEF AuditPick
  <2>5. CASE i # j
    <3>1. /\ keys'[j] = keys[j] /\ servedOn'[j] = servedOn[j]
          /\ backdated'[j] = backdated[j]
      BY <1>k, <2>2, <2>3, <2>4, <2>5
    <3> QED
      BY <1>t, <3>1, UncountedStaysCovered
  <2>6. CASE i = j
    <3>1. /\ keys'[j] = Served(keys[j], t)
          /\ servedOn'[j] = [servedOn[j] EXCEPT ![DayOf(t)] = @ + 1]
          /\ backdated'[j] = IF DayOf(t) < keys[j].dayStamp
                             THEN backdated[j] + 1 ELSE backdated[j]
      BY <1>k, <2>2, <2>3, <2>4, <2>6
    <3> QED
      BY <1>t, <2>1, <2>6, <3>1, PickStaysCovered
  <2> QED
    BY <2>5, <2>6
<1>3. ASSUME NEW i \in Picked, NEW d \in Cooldowns, AuditCooldown(i, d)
      PROVE  CountIsCovered(j)'
  <2>1. /\ keys'[j].dayStamp = keys[j].dayStamp
        /\ keys'[j].dayCount = keys[j].dayCount
        /\ servedOn'[j] = servedOn[j] /\ backdated'[j] = backdated[j]
    BY <1>3, <1>k DEF AuditCooldown, Cooldown, KeyState
  <2> QED
    BY <1>t, <2>1, UncountedStaysCovered
<1>4. ASSUME NEW i \in Picked, NEW d \in Cooldowns, AuditCooldownAccount(i, d)
      PROVE  CountIsCovered(j)'
  <2>1. /\ keys'[j].dayStamp = keys[j].dayStamp
        /\ keys'[j].dayCount = keys[j].dayCount
        /\ servedOn'[j] = servedOn[j] /\ backdated'[j] = backdated[j]
    BY <1>4, <1>k DEF AuditCooldownAccount, CooldownAccount, KeyState
  <2> QED
    BY <1>t, <2>1, UncountedStaysCovered
<1>5. ASSUME NEW i \in Picked, NEW m \in Models, NEW d \in Cooldowns,
             NEW t \in Reading, AuditCooldownModel(i, m, d, t)
      PROVE  CountIsCovered(j)'
  <2>1. /\ keys'[j].dayStamp = keys[j].dayStamp
        /\ keys'[j].dayCount = keys[j].dayCount
        /\ servedOn'[j] = servedOn[j] /\ backdated'[j] = backdated[j]
    BY <1>5, <1>k DEF AuditCooldownModel, CooldownModel, KeyState
  <2> QED
    BY <1>t, <2>1, UncountedStaysCovered
<1>6. ASSUME NEW i \in Picked, AuditDisable(i)
      PROVE  CountIsCovered(j)'
  <2>1. /\ keys'[j].dayStamp = keys[j].dayStamp
        /\ keys'[j].dayCount = keys[j].dayCount
        /\ servedOn'[j] = servedOn[j] /\ backdated'[j] = backdated[j]
    BY <1>6, <1>k DEF AuditDisable, Disable, KeyState
  <2> QED
    BY <1>t, <2>1, UncountedStaysCovered
<1>7. ASSUME NEW i \in Slot, AuditSetEnabled(i)
      PROVE  CountIsCovered(j)'
  <2>1. /\ keys'[j].dayStamp = keys[j].dayStamp
        /\ keys'[j].dayCount = keys[j].dayCount
        /\ servedOn'[j] = servedOn[j] /\ backdated'[j] = backdated[j]
    BY <1>7, <1>k DEF AuditSetEnabled, SetEnabled, KeyState
  <2> QED
    BY <1>t, <2>1, UncountedStaysCovered
<1>8. CASE UNCHANGED auditVars
  BY <1>t, <1>8, UncountedStaysCovered DEF auditVars
<1> QED
  BY <1>1, <1>2, <1>3, <1>4, <1>5, <1>6, <1>7, <1>8 DEF AuditNext

\* On any calendar day no key serves more than DailyCap requests, and one
\* more DailyCap for each of its picks that waited for the lock over midnight
\* while a pick of the new day went first - for any lag of the clock.
THEOREM DailyCapHolds == AuditSpec => []CapRespected
<1>1. CapInv => CapRespected
  <2> SUFFICES ASSUME CapInv, DailyCap > 0, NEW i \in Slot, NEW d \in Days
               PROVE  servedOn[i][d] =< DailyCap * (1 + backdated[i])
    BY DEF CapRespected
  <2> DEFINE paid == DailyCap * backdated[i]
  <2>t. /\ DailyCap \in Nat /\ backdated[i] \in Nat /\ servedOn[i][d] \in Nat
        /\ keys[i] \in KeyState /\ d \in Nat
    <3>1. /\ servedOn \in [Slot -> [Days -> Nat]] /\ backdated \in [Slot -> Nat]
          /\ keys \in [Slot -> KeyState]
      BY DEF CapInv, AuditTypeOK, TypeOK
    <3>2. d \in Nat
      BY DEF Days
    <3> QED
      BY <3>1, <3>2, PoolAssumption
  <2>1. /\ DailyCap \in Nat /\ backdated[i] \in Nat /\ paid \in Nat
        /\ servedOn[i][d] \in Nat /\ d \in Nat
        /\ keys[i].dayStamp \in Nat
        /\ keys[i].dayCount \in Nat /\ keys[i].dayCount =< DailyCap
    BY <2>t DEF KeyState
  <2>2. DailyCap * (1 + backdated[i]) = paid + DailyCap
    BY <2>1
  <2>3. /\ d > keys[i].dayStamp => servedOn[i][d] =< paid
        /\ d = keys[i].dayStamp => servedOn[i][d] =< paid + keys[i].dayCount
        /\ d < keys[i].dayStamp => servedOn[i][d] =< paid + DailyCap
    BY DEF CapInv, CountIsCovered
  <2> HIDE DEF paid
  <2>4. servedOn[i][d] =< paid + DailyCap
    BY <2>1, <2>3
  <2> QED
    BY <2>2, <2>4
<1> QED
  BY CapInit, CapStep, <1>1, PTL DEF AuditSpec

-----------------------------------------------------------------------------
(***************************************************************************)
(* A 429 stays with its (key, model) pair.  Only cooldownModel lengthens a *)
(* model cooldown; what it drops of the other models' entries had run out. *)
(***************************************************************************)
LEMMA StepKeepsLimitsApart ==
  ASSUME AuditTypeOK, [AuditNext]_auditVars, NEW j \in Slot, NEW m \in Models,
         keys'[j].modelCooldown[m] > keys[j].modelCooldown[m],
         NEW n \in (Models \cup {NoModel}) \ {m}
  PROVE  Blocked(j, {}, n, now)' = Blocked(j, {}, n, now)
<1>k. /\ keys \in [Slot -> KeyState] /\ now \in Nat
      /\ keys[j].modelCooldown \in [Models -> Nat]
      /\ keys[j].cooldownUntil \in Nat
  BY DEF AuditTypeOK, TypeOK, KeyState
<1>s. ASSUME keys'[j].modelCooldown = keys[j].modelCooldown PROVE FALSE
  <2>1. keys[j].modelCooldown[m] \in Nat
    BY <1>k
  <2> QED
    BY <1>s, <2>1
<1>1. CASE AuditTick
  BY <1>s, <1>1 DEF AuditTick, Tick
<1>2. ASSUME NEW t \in Reading, NEW o \in Models \cup {NoModel},
             NEW exclude \in SUBSET Slot, NEW i \in Choice(exclude, o, t),
             AuditPick(i, exclude, o, t)
      PROVE  FALSE
  BY <1>s, <1>k, <1>2 DEF AuditPick, Pick, Served, KeyState
<1>3. ASSUME NEW i \in Picked, NEW d \in Cooldowns, AuditCooldown(i, d)
      PROVE  FALSE
  BY <1>s, <1>k, <1>3 DEF AuditCooldown, Cooldown, KeyState
<1>4. ASSUME NEW i \in Picked, NEW d \in Cooldowns, AuditCooldownAccount(i, d)
      PROVE  FALSE
  BY <1>s, <1>k, <1>4 DEF AuditCooldownAccount, CooldownAccount, KeyState
<1>5. ASSUME NEW i \in Picked, NEW o \in Models, NEW d \in Cooldowns,
             NEW t \in Reading, AuditCooldownModel(i, o, d, t)
      PROVE  Blocked(j, {}, n, now)' = Blocked(j, {}, n, now)
  <2>1. i = j
    BY <1>s, <1>k, <1>5 DEF AuditCooldownModel, CooldownModel
  <2>2. t \in Nat /\ t =< now /\ now' = now
    BY <1>5, ReadingInClock DEF AuditCooldownModel, CooldownModel
  <2>3. /\ keys'[j].disabled = keys[j].disabled
        /\ keys'[j].cooldownUntil = keys[j].cooldownUntil
        /\ keys'[j].dayStamp = keys[j].dayStamp
        /\ keys'[j].dayCount = keys[j].dayCount
    BY <1>k, <1>5 DEF AuditCooldownModel, CooldownModel, KeyState
  <2>4. ASSUME NEW p \in Models
        PROVE  keys'[j].modelCooldown[p] =
                 CASE p = o -> t + d
                   [] p # o /\ t < keys[j].modelCooldown[p]
                        -> keys[j].modelCooldown[p]
                   [] OTHER -> 0
    BY <1>k, <1>5, <2>1 DEF AuditCooldownModel, CooldownModel, KeyState
  <2>5. o = m
    <3>1. keys[j].modelCooldown[m] \in Nat
      BY <1>k
    <3> QED
      BY <2>4, <3>1
  <2>6. n \in Models =>
          (now < keys'[j].modelCooldown[n]) = (now < keys[j].modelCooldown[n])
    BY <1>k, <2>2, <2>4, <2>5
  <2>7. (Capped(keys[j], now))' = Capped(keys[j], now)
    BY <2>2, <2>3 DEF Capped, DayOf
  <2>8. (now < keys[j].cooldownUntil)' = (now < keys[j].cooldownUntil)
    BY <2>2, <2>3
  <2>9. (n # NoModel /\ now < keys[j].modelCooldown[n])'
          = (n # NoModel /\ now < keys[j].modelCooldown[n])
    BY <2>2, <2>6
  <2> QED
    BY <2>3, <2>7, <2>8, <2>9, Zenon DEF Blocked
<1>6. ASSUME NEW i \in Picked, AuditDisable(i)
      PROVE  FALSE
  BY <1>s, <1>k, <1>6 DEF AuditDisable, Disable, KeyState
<1>7. ASSUME NEW i \in Slot, AuditSetEnabled(i)
      PROVE  FALSE
  BY <1>s, <1>k, <1>7 DEF AuditSetEnabled, SetEnabled, KeyState
<1>8. CASE UNCHANGED auditVars
  BY <1>s, <1>8 DEF auditVars
<1> QED
  BY <1>1, <1>2, <1>3, <1>4, <1>5, <1>6, <1>7, <1>8 DEF AuditNext

\* Filing a 429 for one model never changes whether the key can serve any
\* other model now, nor whether a catalog fetch may use it.
THEOREM LimitsStayWithTheirModel == AuditSpec => RateLimitStaysWithModel
<1>1. AuditTypeOK /\ [AuditNext]_auditVars =>
        [\A i \in Slot, m \in Models :
           keys'[i].modelCooldown[m] > keys[i].modelCooldown[m] =>
             \A n \in (Models \cup {NoModel}) \ {m} :
               Blocked(i, {}, n, now)' = Blocked(i, {}, n, now)]_auditVars
  BY StepKeepsLimitsApart
<1> QED
  BY <1>1, TypesHold, PTL DEF AuditSpec, RateLimitStaysWithModel

-----------------------------------------------------------------------------
(***************************************************************************)
(* The announced Retry-After.  A key's first free instant is the latest of *)
(* its cooldowns and, if its cap is used up, of midnight; that midnight    *)
(* frees it needs that no key is stamped with a day to come.               *)
(***************************************************************************)
StampInv == AuditTypeOK /\ \A i \in Slot : keys[i].dayStamp =< DayOf(now)

\* A pick stamps a key with the day of its reading, which is not to come.
LEMMA StampStep == StampInv /\ [AuditNext]_auditVars => StampInv'
<1> SUFFICES ASSUME StampInv, [AuditNext]_auditVars, NEW j \in Slot
             PROVE  (keys[j].dayStamp =< DayOf(now))'
  BY StepTyped DEF StampInv
<1>t. /\ AuditTypeOK /\ keys \in [Slot -> KeyState] /\ now \in Nat /\ keys[j].dayStamp \in Nat
      /\ keys[j].dayStamp =< DayOf(now)
  BY DEF StampInv, AuditTypeOK, TypeOK, KeyState
<1>u. now' \in Nat /\ now =< now'
  <2>1. now' = now \/ now' = now + 1
    BY DEF AuditNext, AuditTick, Tick, AuditPick, Pick, AuditCooldown, Cooldown,
           AuditCooldownAccount, CooldownAccount, AuditCooldownModel, CooldownModel,
           AuditDisable, Disable, AuditSetEnabled, SetEnabled, auditVars
  <2> QED
    BY <1>t, <2>1
<1>d. DayOf(now) =< DayOf(now') /\ DayOf(now) \in Nat /\ DayOf(now') \in Nat
  BY <1>t, <1>u, DayMonotonic, DayPositive
<1>e. (DayOf(now))' = DayOf(now')
  BY DEF DayOf
<1>s. ASSUME keys'[j].dayStamp = keys[j].dayStamp PROVE (keys[j].dayStamp =< DayOf(now))'
  BY <1>t, <1>d, <1>e, <1>s
<1>1. CASE AuditTick
  BY <1>s, <1>1 DEF AuditTick, Tick
<1>2. ASSUME NEW t \in Reading, NEW m \in Models \cup {NoModel},
             NEW exclude \in SUBSET Slot, NEW i \in Choice(exclude, m, t),
             AuditPick(i, exclude, m, t)
      PROVE  (keys[j].dayStamp =< DayOf(now))'
  <2>1. keys' = [keys EXCEPT ![i] = Served(@, t)] /\ now' = now
    BY <1>2 DEF AuditPick, Pick
  <2>2. t \in Nat /\ t =< now
    BY <1>t, ReadingInClock
  <2>3. DayOf(t) =< DayOf(now)
    BY <1>t, <2>2, DayMonotonic
  <2>4. keys'[j].dayStamp \in {keys[j].dayStamp, DayOf(t)}
    BY <1>t, <2>1 DEF Served, KeyState
  <2> QED
    BY <1>s, <1>e, <2>1, <2>3, <2>4
<1>3. ASSUME NEW i \in Picked, NEW d \in Cooldowns, AuditCooldown(i, d)
      PROVE  keys'[j].dayStamp = keys[j].dayStamp
  BY <1>t, <1>3 DEF AuditCooldown, Cooldown, KeyState
<1>4. ASSUME NEW i \in Picked, NEW d \in Cooldowns, AuditCooldownAccount(i, d)
      PROVE  keys'[j].dayStamp = keys[j].dayStamp
  BY <1>t, <1>4 DEF AuditCooldownAccount, CooldownAccount, KeyState
<1>5. ASSUME NEW i \in Picked, NEW m \in Models, NEW d \in Cooldowns,
             NEW t \in Reading, AuditCooldownModel(i, m, d, t)
      PROVE  keys'[j].dayStamp = keys[j].dayStamp
  BY <1>t, <1>5 DEF AuditCooldownModel, CooldownModel, KeyState
<1>6. ASSUME NEW i \in Picked, AuditDisable(i) PROVE keys'[j].dayStamp = keys[j].dayStamp
  BY <1>t, <1>6 DEF AuditDisable, Disable, KeyState
<1>7. ASSUME NEW i \in Slot, AuditSetEnabled(i) PROVE keys'[j].dayStamp = keys[j].dayStamp
  BY <1>t, <1>7 DEF AuditSetEnabled, SetEnabled, KeyState
<1>8. CASE UNCHANGED auditVars
  BY <1>s, <1>8 DEF auditVars
<1> QED
  BY <1>s, <1>1, <1>2, <1>3, <1>4, <1>5, <1>6, <1>7, <1>8 DEF AuditNext

\* No key is ever stamped with a day to come.
LEMMA StampAlways == AuditSpec => []StampInv
<1>1. AuditInit => StampInv
  <2> SUFFICES ASSUME AuditInit PROVE StampInv
    OBVIOUS
  <2>1. AuditTypeOK
    BY InitTyped
  <2>2. DayOf(now) \in Nat \ {0}
    BY <2>1, DayPositive DEF AuditTypeOK, TypeOK
  <2>3. \A i \in Slot : keys[i].dayStamp = 0
    BY DEF AuditInit, Init, FreshKey
  <2> QED
    BY <2>1, <2>2, <2>3 DEF StampInv
<1> QED
  BY <1>1, StampStep, PTL DEF AuditSpec

\* An instant is in a day until its midnight, and in a later one from then on.
LEMMA UntilMidnight ==
  ASSUME NEW t \in Nat, NEW u \in Nat, t =< u
  PROVE  /\ u < NextMidnight(t) => DayOf(u) = DayOf(t)
         /\ u >= NextMidnight(t) => DayOf(u) # DayOf(t)
<1> DEFINE L == DayLen
           p == t \div L
           q == u \div L
<1>1. L \in Nat \ {0} /\ p \in Nat /\ q \in Nat /\ p =< q
  BY PoolAssumption
<1>2. q * L =< u /\ u < (q + 1) * L
  BY PoolAssumption
<1>3. DayOf(t) = p + 1 /\ DayOf(u) = q + 1 /\ NextMidnight(t) = (p + 1) * L
  BY DEF DayOf, NextMidnight
<1> HIDE DEF p, q, L
<1>4. p < q => (p + 1) * L =< q * L
  <2>1. p < q => (q - p - 1) * L >= 0
    BY <1>1
  <2>2. (q - p - 1) * L = q * L - (p + 1) * L
    BY <1>1
  <2>3. q * L \in Nat /\ (p + 1) * L \in Nat
    BY <1>1
  <2> QED
    BY <2>1, <2>2, <2>3
<1>5. (p + 1) * L \in Nat /\ q * L \in Nat /\ (q + 1) * L \in Nat
  BY <1>1
<1>6. CASE p = q
  BY <1>2, <1>3, <1>5, <1>6
<1>7. CASE p < q
  BY <1>1, <1>2, <1>3, <1>4, <1>5, <1>7
<1> QED
  BY <1>1, <1>6, <1>7

\* A set of naturals that is not empty has a least member: its Min.
LEMMA MinIsLeast ==
  ASSUME NEW T, T \subseteq Nat, T # {}
  PROVE  Min(T) \in T /\ \A k \in T : Min(T) =< k
<1>1. PICK n \in T : \A k \in T : ~(<<k, n>> \in OpToRel(<, Nat))
  BY WFMin, NatLessThanWellFounded
<1>2. ASSUME NEW k \in T PROVE n =< k
  <2>1. ~(k < n)
    BY <1>1 DEF OpToRel
  <2> QED
    BY <2>1
<1> QED
  BY <1>2 DEF Min

\* A key that a 429 keeps from a model is blocked exactly until FreeAt.
LEMMA BlockedUntilFree ==
  ASSUME StampInv, NEW m \in Models, NEW i \in Enabled, NEW t \in Nat, now =< t
  PROVE  /\ FreeAt(keys[i], m, now) \in Nat
         /\ now < LimitedUntil(keys[i], m) => now < FreeAt(keys[i], m, now)
         /\ Blocked(i, {}, m, t) <=> t < FreeAt(keys[i], m, now)
<1> DEFINE k == keys[i]
           a == k.modelCooldown[m]
           b == k.cooldownUntil
           c == IF Capped(k, now) THEN NextMidnight(now) ELSE 0
           l == IF k.rateLimited THEN b ELSE 0
           free == FreeAt(k, m, now)
<1>1. /\ i \in Slot /\ ~k.disabled /\ k \in KeyState /\ now \in Nat /\ k.dayStamp =< DayOf(now)
  BY DEF Enabled, StampInv, AuditTypeOK, TypeOK
<1>2. a \in Nat /\ b \in Nat /\ k.dayStamp \in Nat /\ k.dayCount \in Nat
  BY <1>1, PoolAssumption DEF KeyState
<1>3. c \in Nat /\ DayOf(now) \in Nat /\ DayOf(t) \in Nat /\ NextMidnight(now) \in Nat
  BY <1>1, MidnightNat, DayPositive
<1>4. Blocked(i, {}, m, t) <=> t < b \/ Capped(k, t) \/ t < a
  BY <1>1, PoolAssumption DEF Blocked
<1>5. Capped(k, t) <=> t < c
  <2>1. DayOf(now) =< DayOf(t)
    BY <1>1, DayMonotonic
  <2>2. /\ t < NextMidnight(now) => DayOf(t) = DayOf(now)
        /\ t >= NextMidnight(now) => DayOf(t) # DayOf(now)
    BY <1>1, UntilMidnight
  <2>3. CASE Capped(k, now)
    <3>1. Capped(k, t) <=> DayOf(t) = DayOf(now)
      BY <2>3 DEF Capped
    <3>2. t < NextMidnight(now) \/ t >= NextMidnight(now)
      BY <1>3
    <3> QED
      BY <2>2, <2>3, <3>1, <3>2
  <2>4. CASE ~Capped(k, now)
    <3>1. ASSUME Capped(k, t) PROVE FALSE
      <4>1. k.dayStamp = DayOf(t)
        BY <3>1 DEF Capped
      <4>2. DayOf(t) = DayOf(now)
        BY <1>1, <1>2, <1>3, <2>1, <4>1
      <4> QED
        BY <2>4, <3>1, <4>2 DEF Capped
    <3>2. ~(t < c)
      BY <2>4
    <3> QED
      BY <3>1, <3>2
  <2> QED
    BY <2>3, <2>4
<1>6. free = Later(Later(Later(a, l), b), c) /\ LimitedUntil(k, m) = Later(a, l)
  BY DEF FreeAt, LimitedUntil
<1>7. l \in Nat /\ l =< b
  BY <1>2
<1> HIDE DEF a, b, c, l, free
<1>8. /\ free \in Nat /\ (t < free <=> t < a \/ t < b \/ t < c)
      /\ now < Later(a, l) => now < free
  BY <1>1, <1>2, <1>3, <1>6, <1>7 DEF Later
<1> QED
  BY <1>4, <1>5, <1>6, <1>8 DEF free

\* The announced instant is honest, for every number of keys, mode and cap and
\* whatever readings of the clock the picks acted on: until it no key can
\* serve the model, and at it one can, if nothing else happens meanwhile.
THEOREM RetryAfterIsHonest == AuditSpec => []RetryAfterHonest
<1>1. StampInv => RetryAfterHonest
  <2> SUFFICES ASSUME StampInv, NEW m \in Models, RateLimited(m, now)
               PROVE  LET free == now + RetryWait(m, now)
                      IN  /\ \A t \in now .. free - 1 : Available({}, m, t) = {}
                          /\ Available({}, m, free) # {}
    BY DEF RetryAfterHonest
  <2> DEFINE times == {FreeAt(keys[i], m, now) : i \in Enabled}
             free == now + RetryWait(m, now)
  <2>1. now \in Nat
    BY DEF StampInv, AuditTypeOK, TypeOK
  <2>2. \A i \in Enabled : /\ FreeAt(keys[i], m, now) \in Nat
                           /\ now < FreeAt(keys[i], m, now)
    <3> SUFFICES ASSUME NEW i \in Enabled
                 PROVE  FreeAt(keys[i], m, now) \in Nat /\ now < FreeAt(keys[i], m, now)
      OBVIOUS
    <3>1. now < LimitedUntil(keys[i], m) /\ now =< now
      BY <2>1 DEF RateLimited
    <3> QED
      BY <2>1, <3>1, BlockedUntilFree
  <2>3. times \subseteq Nat /\ times # {}
    BY <2>2 DEF RateLimited
  <2>4. Min(times) \in times /\ \A k \in times : Min(times) =< k
    <3> HIDE DEF times
    <3> QED
      BY <2>3, MinIsLeast
  <2>5. free = Min(times)
    <3>1. Min(times) \in Nat
      BY <2>3, <2>4
    <3> HIDE DEF times
    <3>2. now + (Min(times) - now) = Min(times)
      BY <2>1, <3>1
    <3> QED
      BY <3>2 DEF RetryWait, times
  <2> HIDE DEF free
  <2>6. PICK i \in Enabled : free = FreeAt(keys[i], m, now)
    BY <2>4, <2>5
  <2>7. free \in Nat /\ now < free
    BY <2>2, <2>6
  <2>8. ASSUME NEW t \in now .. free - 1 PROVE Available({}, m, t) = {}
    <3>1. t \in Nat /\ now =< t /\ t < free
      BY <2>1, <2>7
    <3>2. ASSUME NEW j \in Enabled PROVE Blocked(j, {}, m, t)
      <4>1. free =< FreeAt(keys[j], m, now) /\ FreeAt(keys[j], m, now) \in Nat
        BY <2>2, <2>4, <2>5
      <4>2. t < FreeAt(keys[j], m, now)
        BY <2>7, <3>1, <4>1
      <4> QED
        BY <3>1, <4>2, BlockedUntilFree
    <3>3. ASSUME NEW j \in Slot \ Enabled PROVE Blocked(j, {}, m, t)
      BY DEF Enabled, Blocked
    <3> QED
      BY <3>2, <3>3 DEF Available
  <2>9. i \in Available({}, m, free)
    <3>1. ~(free < FreeAt(keys[i], m, now)) /\ now =< free
      BY <2>1, <2>6, <2>7
    <3>2. ~Blocked(i, {}, m, free)
      BY <2>7, <3>1, BlockedUntilFree
    <3> QED
      BY <3>2 DEF Available, Enabled
  <2> QED
    BY <2>8, <2>9 DEF free
<1> QED
  BY <1>1, StampAlways, PTL
=============================================================================
