--------------------------- MODULE RotationAudit ---------------------------
(***************************************************************************)
(* What the rotation loops promise the client, the upstream and the other  *)
(* requests.                                                               *)
(***************************************************************************)
EXTENDS Rotation

-----------------------------------------------------------------------------
Request ==
  [ pc : {"idle", "next", "call", "file", "exhausted", "done"},
    model : Models,
    loop : [flip : {"retry", "fail", "next"}, decodes : BOOLEAN],
    surface : Surfaces, key : 0 .. NumKeys, exclude : SUBSET Slot,
    attempt : 0 .. MaxKeysPerRequest, picked : 0 .. NumKeys, cool : Nat,
    single : BOOLEAN, limited : BOOLEAN, keyLost : BOOLEAN,
    lastUp : {"none", "key", "request"}, cancelled : BOOLEAN,
    contacted : [Slot -> Nat],
    status : {0, 200, 400, 429, 503}, retryAfter : Nat,
    end : {"", "served", "failfast", "exhausted"} ]

\* Type invariant: pool, breaker and requests stay in their domains.
TypeOK ==
  /\ typ \in ProviderTypes
  /\ Pool!TypeOK
  /\ Breaker!TypeOK
  /\ learned \in [Models -> Surfaces \cup {""}]
  /\ req \in [Requests -> Request]

\* No walk presents the same key twice, except to retry it on the other
\* surface - whatever other requests do to the pool in between.
NoKeyTriedTwice ==
  \A r \in Requests, i \in Slot :
    req[r].contacted[i] =< 1

\* Failover works: if some key is good, no client gave up, and the budget
\* covers the pool, a request that walks freely (not rate-limited across
\* keys, not refused as sent) is served, whatever happens to the other keys.
FailoverReachesGoodKey ==
  \A r \in Requests :
    /\ ReliableKeys # {} /\ DailyCap = 0 /\ NumKeys =< MaxKeysPerRequest
    /\ \A s \in Requests : ~req[s].cancelled
    /\ req[r].end = "exhausted"
    => req[r].single \/ req[r].limited

\* The upstream refuses r's model on both surfaces, again and again.
RefusedForEver(r) ==
  \A s \in Surfaces : []<>(req[r].pc = "call" /\ req[r].surface = s)

\* Every request that starts ends, whatever the other requests, the keys and
\* the upstream do - unless both surfaces refuse its model for ever: then the
\* flips, which no loop counts, go on for ever as well.
EveryRequestEnds ==
  \A r \in Requests :
    RefusedForEver(r) \/ (req[r].pc # "idle" ~> req[r].pc = "done")
=============================================================================
