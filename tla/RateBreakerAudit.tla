-------------------------- MODULE RateBreakerAudit --------------------------
(***************************************************************************)
(* The breaker of RateBreaker against its promise, RateLimitPolicy, and    *)
(* against the history of its trips.                                       *)
(***************************************************************************)
EXTENDS RateBreaker

VARIABLES
  trippedAt,  \* model -> when the running trip began
  base        \* model -> the trip's first backoff or a longer cooldown since

auditVars == <<now, breaker, trippedAt, base>>

AuditInit ==
  /\ Init
  /\ trippedAt = [m \in Models |-> 0]
  /\ base = [m \in Models |-> 0]

AuditRecord429(m, h, cool, floor, t) ==
  /\ Record429(m, h, cool, floor, t)
  /\ LET before == breaker[m]
         after  == breaker'[m]
         begins == after.tripped /\ ~Open(before, t)
     IN  /\ trippedAt' = [trippedAt EXCEPT ![m] = IF begins THEN t ELSE @]
         /\ base' = [base EXCEPT ![m] = IF begins THEN after.backoff
                                        ELSE Larger(@, cool)]

AuditNext ==
  \/ Tick /\ UNCHANGED <<trippedAt, base>>
  \/ \E m \in Models, h \in KeyHashes, cool \in Cools, floor \in Floors,
        t \in Reading : AuditRecord429(m, h, cool, floor, t)
  \/ \E m \in Models : Success(m) /\ UNCHANGED <<trippedAt, base>>

AuditSpec == AuditInit /\ [][AuditNext]_auditVars

-----------------------------------------------------------------------------
Doubled[n \in Nat] == IF n = 0 THEN 1 ELSE 2 * Doubled[n - 1]

\* "A burst of concurrent single-attempt 429s doesn't jump straight to the
\* cap" (breakerWindow): however many 429s arrive, the backoff doubles at
\* most once per Window since the trip, starting from the trip's backoff or
\* the longest cooldown an answer named since.
BurstDoesNotCompound ==
  \A m \in Models :
    LET e == breaker[m]
    IN  e.live /\ e.tripped =>
          e.backoff =< base[m] * Doubled[(e.grownAt - trippedAt[m]) \div Window]

Policy == INSTANCE RateLimitPolicy WITH
  recent <- [m \in Models |->
               {<<h, breaker[m].hits[h]>> :
                  h \in {k \in HitKeys(breaker[m].hits) :
                           now =< breaker[m].hits[k] + Window + ClockLag}}],
  until  <- [m \in Models |->
               IF /\ breaker[m].live /\ breaker[m].tripped
                  /\ now < breaker[m].openUntil + ClockLag
               THEN breaker[m].openUntil ELSE 0]

\* The breaker implements the policy (ratelimit.go:13-25): dropping stale
\* hits and idle entries never forgets a 429 that counts, and an entry never
\* remembers one that does not.
ImplementsPolicy == Policy!Spec
=============================================================================
