---------------------------- MODULE SignInAudit ----------------------------
(***************************************************************************)
(* What the back-off and the key cache promise.  Two history variables no  *)
(* code reads: the failures of each pair in the last Window instants since *)
(* its last success, by age, and how long ago each key was withdrawn.      *)
(***************************************************************************)
EXTENDS SignIn, Functions

VARIABLES
  recent,  \* pair -> age -> failures of that age
  gone     \* key -> time since Google stopped publishing it, up to MaxTTL

signInAuditVars == <<signInVars, recent, gone>>

NoneRecent == [d \in 0 .. Window - 1 |-> 0]

SignInAuditInit ==
  /\ SignInInit
  /\ recent = [p \in Pairs |-> NoneRecent]
  /\ gone = [k \in Kids |-> IF k \in published THEN 0 ELSE MaxTTL]

AuditTick ==
  /\ Tick
  /\ recent' = [p \in Pairs |->
       [d \in 0 .. Window - 1 |-> IF d = 0 THEN 0 ELSE recent[p][d - 1]]]
  /\ gone' = [k \in Kids |-> IF k \in published THEN 0 ELSE UpTo(MaxTTL, gone[k] + 1)]

AuditLogin(l) ==
  /\ LET p == login[l].pair IN
       \/ Refuse(l) /\ recent' = [recent EXCEPT ![p][0] = @ + 1]
       \/ Accept(l) /\ recent' = [recent EXCEPT ![p] = NoneRecent]
       \/ SignInStep(l) /\ UNCHANGED recent
  /\ UNCHANGED gone

AuditKeys ==
  /\ KeysChange
  /\ gone' = [k \in Kids |-> IF k \in published' THEN 0 ELSE gone[k]]
  /\ UNCHANGED recent

SignInAuditNext == AuditTick \/ AuditKeys \/ \E l \in Logins : AuditLogin(l)
SignInAuditSpec == SignInAuditInit /\ [][SignInAuditNext]_signInAuditVars

-----------------------------------------------------------------------------
\* Type invariant: the distances stay in their ranges, and the verifier's lock
\* is held by the sign-in that is fetching.
SignInTypeOK ==
  /\ fails \in [Pairs -> [count : 0 .. MaxFails, since : 0 .. Window + 1, left : 0 .. LockoutFor]]
  /\ published \in (SUBSET Kids) \ {{}}
  /\ cache \in [keys : SUBSET Kids, left : 0 .. MaxTTL]
  /\ fetched \in 0 .. FetchEvery
  /\ {l \in Logins : login[l].pc = "fetch"} = IF fetching = NoFetch THEN {} ELSE {fetching.by}

\* "5 failures within 15 minutes locks the ip|email pair for 15 minutes"
\* (auth.go:131): attempts in progress when the lock-out starts still count,
\* and none of the others: within any fifteen minutes a pair that does not
\* succeed fails at most four times and once more for each concurrent attempt.
GuessesBounded ==
  \A p \in Pairs :
    FoldFunction(LAMBDA a, b : a + b, 0, recent[p]) < MaxFails + Cardinality(Logins)

\* "the cache lives as long as Google's Cache-Control says" (googleid.go:64):
\* however the rotation, the fetches and the failures fall, a token passes the
\* key check only while its key is published or has been withdrawn for less
\* than the longest max-age.
WithdrawnKeysExpire ==
  [][\A l \in Logins :
       login[l].pc \in {"key", "fetch"} /\ login'[l].pc = "verify" =>
         gone[login[l].kid] < MaxTTL]_signInAuditVars
=============================================================================
