------------------------------ MODULE Rotation ------------------------------
(***************************************************************************)
(* The rotation loops: concurrent client requests walking one provider's   *)
(* key pool (KeyPool) under its rate-limit breaker (RateBreaker).          *)
(*                                                                         *)
(* Three handlers dispatch a request, by the provider's type, to one of    *)
(* seven copies of the same loop over keyRotation.  The copies differ in   *)
(* what a "flipsurface" verdict does and in whether a 200 may still fail   *)
(* to decode; each is a Loop record here.                                  *)
(* A request takes one step per lock it acquires, so other requests run    *)
(* between its pick, the upstream's answer, the cooldown, the breaker and  *)
(* the final rateLimitedFor.  Response bodies, hints and the usage log are *)
(* left out; the status of the last upstream answer is kept because the    *)
(* client's status is derived from it.                                     *)
(***************************************************************************)
EXTENDS Naturals, FiniteSetsExt

CONSTANTS
  NumKeys, Models, NoModel, Mode, DailyCap, DayLen,        \* the pool
  Window, DistinctKeys, MinBackoff, MaxBackoff, Idle,      \* the breaker
  ClockLag, MaxNow,
  Requests,       \* client requests, each served once
  ProviderTypes,  \* what the provider may be: see typ
  MaxKeysPerRequest,
  CooldownSeconds,  \* cooldown of a 429 without Retry-After; may be 0
  RetryAfters,    \* bound: Retry-After values and account resets upstream names
  FaultCooldown,  \* cooldown after a 5xx, a flaky 401/403, a network error
  DefaultSurface, \* what the model's responsesApi flag says
  ServedSurfaces, \* surfaces ("chat", "responses") zen serves the model on
  Verdicts,       \* bound: what an unreliable key may get from upstream
  ReliableKeys    \* keys the upstream always serves

ASSUME RotationAssumption ==
  /\ NumKeys \in Nat /\ Models # {} /\ NoModel \notin Models
  /\ Mode \in {"priority", "priority-daily", "lru"}
  /\ DailyCap \in Nat /\ DayLen \in Nat \ {0}
  /\ {Window, MinBackoff, MaxNow} \subseteq Nat \ {0} /\ DistinctKeys \in Nat \ {0, 1}
  /\ MaxBackoff \in Nat /\ MinBackoff =< MaxBackoff
  /\ Idle \in Nat /\ ClockLag \in Nat /\ Window + 2 * ClockLag =< Idle
  /\ MaxKeysPerRequest \in Nat \ {0}
  /\ CooldownSeconds \in Nat
  /\ RetryAfters \subseteq Nat \ {0}
  /\ FaultCooldown \in Nat \ {0}
  /\ ProviderTypes \subseteq {"zen", "openai", "dual", "anthropic"}
  /\ DefaultSurface \in {"chat", "responses"}
  /\ ServedSurfaces \subseteq {"chat", "responses"}
  /\ Verdicts \subseteq {"ok", "badjson", "network", "limit", "account",
                         "fault", "dead", "refused", "gated", "flip"}
  /\ ReliableKeys \subseteq 1 .. NumKeys

VARIABLES
  typ,                 \* the provider: opencode ("zen"), or the endpoints it has
  now, keys, breaker,  \* as in KeyPool and RateBreaker
  learned,             \* gateway.surfaceOver: model -> surface, "" when unset
  req                  \* request -> keyRotation and the loop's local variables

vars == <<typ, now, keys, breaker, learned, req>>

Pool == INSTANCE KeyPool WITH
  Cooldowns <- RetryAfters \cup {CooldownSeconds, FaultCooldown}
Breaker == INSTANCE RateBreaker WITH
  KeyHashes <- 1 .. NumKeys,
  Cools <- RetryAfters \cup {CooldownSeconds}, Floors <- {CooldownSeconds}

Slot == 1 .. NumKeys
Surfaces == {"chat", "responses"}
Other(surface) == IF surface = "chat" THEN "responses" ELSE "chat"

SurfaceFor(m) == IF learned[m] = "" THEN DefaultSurface ELSE learned[m]

\* The loops.  flip: what the verdict "flipsurface" does.
ProxyZen             == [flip |-> "retry", decodes |-> FALSE]
MessagesViaZen       == [flip |-> "retry", decodes |-> FALSE]
ProxyZenResponses    == [flip |-> "fail",  decodes |-> FALSE]
ProxyOpenAI          == [flip |-> "next",  decodes |-> FALSE]
MessagesViaOpenAI    == [flip |-> "next",  decodes |-> TRUE]
MessagesViaAnthropic == [flip |-> "next",  decodes |-> FALSE]
ChatViaAnthropic     == [flip |-> "next",  decodes |-> TRUE]

\* The handlers' choice of a loop, none when the request is refused outright.
HandleChat ==
  {CASE typ = "zen"       -> ProxyZen
     [] typ = "anthropic" -> ChatViaAnthropic
     [] OTHER             -> ProxyOpenAI}
HandleMessages ==
  {CASE typ = "zen"    -> MessagesViaZen
     [] typ = "openai" -> MessagesViaOpenAI
     [] OTHER          -> MessagesViaAnthropic}
HandleResponses(m) ==
  IF typ = "zen" /\ SurfaceFor(m) = "responses" THEN {ProxyZenResponses} ELSE {}

LoopsFor(m) == HandleChat \cup HandleMessages \cup HandleResponses(m)

\* contacted, which the code does not keep, counts the calls made with each
\* key, a call and its retry on the other surface as one.
NewRequest(m, loop, single) ==
  [ pc |-> "next", model |-> m, loop |-> loop, surface |-> SurfaceFor(m),
    key |-> 0, exclude |-> {}, attempt |-> 0, picked |-> 0, cool |-> 0,
    single |-> single, limited |-> FALSE, keyLost |-> FALSE,
    lastUp |-> "none", cancelled |-> FALSE,
    contacted |-> [i \in Slot |-> 0],
    status |-> 0, retryAfter |-> 0, end |-> "" ]

IdleRequest == [NewRequest(CHOOSE m \in Models : TRUE, ProxyOpenAI, FALSE)
                  EXCEPT !.pc = "idle", !.surface = DefaultSurface]

\* One step of request r to the record q.
Becomes(r, q) == req' = [req EXCEPT ![r] = q] /\ UNCHANGED typ

Done(q, status, retryAfter, end) ==
  [q EXCEPT !.pc = "done", !.status = status, !.retryAfter = retryAfter,
            !.end = end]

\* Mutant of Continue: every failure costs two attempts of the budget.
ContinueTwice(q, lastUp) ==
  [q EXCEPT !.pc = "next", !.attempt = @ + 2, !.key = 0, !.lastUp = lastUp]

\* The loop's "continue" after an answer of the given kind.
Continue(q, lastUp) ==
  [q EXCEPT !.pc = "next", !.attempt = @ + 1, !.key = 0, !.lastUp = lastUp]

-----------------------------------------------------------------------------
Init ==
  /\ typ \in ProviderTypes
  /\ Pool!Init
  /\ Breaker!Init
  /\ learned = [m \in Models |-> ""]
  /\ req = [r \in Requests |-> IdleRequest]

Tick == Pool!Tick /\ UNCHANGED <<typ, breaker, learned, req>>

\* newRotation reads the breaker once; the walk keeps the answer.
Start(r, m, loop, t) ==
  /\ req[r].pc = "idle"
  /\ Becomes(r, NewRequest(m, loop, Breaker!Tripped(m, t)))
  /\ UNCHANGED <<now, keys, breaker, learned>>

\* The loop condition and next()'s early returns.
MayPick(q) ==
  /\ q.attempt < MaxKeysPerRequest
  /\ ~q.limited
  /\ ~(q.single /\ q.picked > 0)

\* Mutant of NextKey: the key is not remembered in exclude.
NextKeyForgets(r, i, t) ==
  LET q == req[r] IN
  /\ q.pc = "next" /\ MayPick(q)
  /\ Pool!Pick(i, q.exclude, q.model, t)
  /\ Becomes(r, [q EXCEPT !.pc = "call", !.key = i, !.picked = @ + 1,
                          !.contacted[i] = @ + 1])
  /\ UNCHANGED <<breaker, learned>>

\* next() picks key i and the loop calls the upstream with it.
NextKey(r, i, t) ==
  LET q == req[r] IN
  /\ q.pc = "next" /\ MayPick(q)
  /\ Pool!Pick(i, q.exclude, q.model, t)
  /\ Becomes(r, [q EXCEPT !.pc = "call", !.key = i,
                          !.exclude = @ \cup {i}, !.picked = @ + 1,
                          !.contacted[i] = @ + 1])
  /\ UNCHANGED <<breaker, learned>>

\* The walk ends: the budget is spent, the walk stopped, or no key is free.
NoKey(r, t) ==
  LET q == req[r] IN
  /\ q.pc = "next"
  /\ MayPick(q) => Pool!Choice(q.exclude, q.model, t) = {}
  /\ Becomes(r, [q EXCEPT !.pc = "exhausted"])
  /\ UNCHANGED <<now, keys, breaker, learned>>

\* The client goes away before it has an answer.
Disconnect(r) ==
  /\ req[r].pc \in {"next", "call"} /\ ~req[r].cancelled
  /\ Becomes(r, [req[r] EXCEPT !.cancelled = TRUE])
  /\ UNCHANGED <<now, keys, breaker, learned>>

\* zen answers "flipsurface" on a surface that does not serve the model.
WrongSurface(q) == typ = "zen" /\ q.surface \notin ServedSurfaces

\* What the upstream may answer r: a cancelled request's call fails at once.
\* The surface that serves the model may ask an unreliable key for the other,
\* so that both refuse it.
Answers(r) ==
  CASE req[r].cancelled -> {"network"}
    [] ~req[r].cancelled /\ WrongSurface(req[r]) -> {"flip"}
    [] OTHER ->
         IF req[r].key \in ReliableKeys THEN {"ok"}
         ELSE Verdicts \ (IF req[r].loop.decodes THEN {} ELSE {"badjson"})

AnswerNetwork(r) ==
  /\ req[r].pc = "call" /\ "network" \in Answers(r)
  /\ Pool!Cooldown(req[r].key, FaultCooldown)
  /\ Becomes(r, Continue(req[r], "none"))
  /\ UNCHANGED <<breaker, learned>>

\* 5xx, or a 401/403 that does not blame the key.
AnswerFault(r) ==
  /\ req[r].pc = "call" /\ "fault" \in Answers(r)
  /\ Pool!Cooldown(req[r].key, FaultCooldown)
  /\ Becomes(r, Continue([req[r] EXCEPT !.keyLost = FALSE], "key"))
  /\ UNCHANGED <<breaker, learned>>

\* The key is expired or rejected.
AnswerDead(r) ==
  /\ req[r].pc = "call" /\ "dead" \in Answers(r)
  /\ Pool!Disable(req[r].key)
  /\ Becomes(r, Continue([req[r] EXCEPT !.keyLost = TRUE], "key"))
  /\ UNCHANGED <<breaker, learned>>

\* Z.ai's 429 with the account's reset instant: the breaker is not fed.
AnswerAccount(r, d) ==
  /\ req[r].pc = "call" /\ "account" \in Answers(r)
  /\ Pool!CooldownAccount(req[r].key, d)
  /\ Becomes(r, Continue([req[r] EXCEPT !.keyLost = FALSE], "key"))
  /\ UNCHANGED <<breaker, learned>>

\* Any other 429, first half of rejected: cool (key, model) if the verdict
\* names a cooldown.
AnswerLimit(r, d, t) ==
  LET q == req[r] IN
  /\ q.pc = "call" /\ "limit" \in Answers(r)
  /\ IF d > 0 THEN Pool!CooldownModel(q.key, q.model, d, t)
              ELSE UNCHANGED <<now, keys>>
  /\ Becomes(r, [q EXCEPT !.pc = "file", !.cool = d, !.keyLost = FALSE])
  /\ UNCHANGED <<breaker, learned>>

\* Second half: feed the breaker; in single-attempt mode the walk stops.
File429(r, t) ==
  LET q == req[r] IN
  /\ q.pc = "file"
  /\ Breaker!Record429(q.model, q.key, q.cool, CooldownSeconds, t)
  /\ Becomes(r, [Continue(q, "key") EXCEPT
                   !.cool = 0, !.limited = @ \/ breaker'[q.model].tripped])
  /\ UNCHANGED <<keys, learned>>

\* 403 FreeTierError and 426 become 503, any other 4xx becomes 400.
AnswerFailFast(r) ==
  /\ req[r].pc = "call"
  /\ \/ /\ "refused" \in Answers(r)
        /\ Becomes(r, Done(req[r], 400, 0, "failfast"))
     \/ /\ "gated" \in Answers(r)
        /\ Becomes(r, Done(req[r], 503, 0, "failfast"))
  /\ UNCHANGED <<now, keys, breaker, learned>>

\* "Endpoint is unavailable" or "ModelProtocolUnsupported".  The latter is a
\* 4xx, so it leaves a "request" status behind, the former a 503.
Flipped(r, lastUp) ==
  [req[r] EXCEPT !.keyLost = FALSE, !.lastUp = lastUp]

\* Mutants of FlipAndRetry: the retry is counted as a further key; the retry
\* keeps the surface it just failed on.
FlipAndRetryCounts(r, lastUp) ==
  LET q == Flipped(r, lastUp) IN
  /\ learned' = [learned EXCEPT ![q.model] = Other(q.surface)]
  /\ Becomes(r, [q EXCEPT !.pc = "next", !.key = 0, !.surface = Other(@),
                          !.exclude = @ \ {q.key},
                          !.contacted[q.key] = @ - 1])
FlipAndRetrySameSurface(r, lastUp) ==
  LET q == Flipped(r, lastUp) IN
  /\ Becomes(r, [q EXCEPT !.pc = "next", !.key = 0,
                          !.exclude = @ \ {q.key}, !.picked = @ - 1,
                          !.contacted[q.key] = @ - 1])
  /\ UNCHANGED learned

\* retrySame and learnSurface: the attempt and the key are given back.
FlipAndRetry(r, lastUp) ==
  LET q == Flipped(r, lastUp) IN
  /\ learned' = [learned EXCEPT ![q.model] = Other(q.surface)]
  /\ Becomes(r, [q EXCEPT !.pc = "next", !.key = 0, !.surface = Other(@),
                          !.exclude = @ \ {q.key}, !.picked = @ - 1,
                          !.contacted[q.key] = @ - 1])

AnswerFlip(r, lastUp) ==
  LET q == Flipped(r, lastUp) IN
  /\ q.pc = "call" /\ "flip" \in Answers(r)
  /\ \/ q.loop.flip = "retry" /\ FlipAndRetry(r, lastUp)
     \/ /\ q.loop.flip = "fail"
        /\ Becomes(r, Done(q, IF lastUp = "request" THEN 400 ELSE 503, 0,
                           "failfast"))
        /\ UNCHANGED learned
     \/ /\ q.loop.flip = "next"
        /\ Becomes(r, Continue(q, lastUp))
        /\ UNCHANGED learned
  /\ UNCHANGED <<now, keys, breaker>>

\* A 200 clears the breaker; then the body is relayed, or does not parse.
AnswerOK(r) ==
  /\ req[r].pc = "call"
  /\ Breaker!Success(req[r].model)
  /\ \/ /\ "ok" \in Answers(r)
        /\ Becomes(r, Done(req[r], 200, 0, "served"))
     \/ /\ "badjson" \in Answers(r)
        /\ Becomes(r, Done(req[r], 503, 0, "failfast"))
  /\ UNCHANGED <<keys, learned>>

\* exhausted(): a rate limit (429), a stopped walk (429, one second), or the
\* last upstream status.
Exhausted(r, t) ==
  LET q == req[r]
      derived == IF q.lastUp = "request" /\ ~q.keyLost THEN 400 ELSE 503
  IN
  /\ q.pc = "exhausted"
  /\ Becomes(r, CASE Pool!RateLimited(q.model, t) ->
                       Done(q, 429, Pool!RetryWait(q.model, t), "exhausted")
                  [] ~Pool!RateLimited(q.model, t) /\ q.limited ->
                       Done(q, 429, 1, "exhausted")
                  [] OTHER -> Done(q, derived, 0, "exhausted"))
  /\ UNCHANGED <<now, keys, breaker, learned>>

\* Everything request r does by itself once it is started.
Run(r) ==
  \/ \E t \in Pool!Reading, i \in Slot : NextKey(r, i, t)
  \/ \E t \in Pool!Reading : NoKey(r, t)
  \/ AnswerNetwork(r)
  \/ AnswerFault(r)
  \/ AnswerDead(r)
  \/ \E d \in RetryAfters : AnswerAccount(r, d)
  \/ \E d \in RetryAfters \cup {CooldownSeconds}, t \in Pool!Reading :
       AnswerLimit(r, d, t)
  \/ \E t \in Pool!Reading : File429(r, t)
  \/ AnswerFailFast(r)
  \/ \E lastUp \in {"key", "request"} : AnswerFlip(r, lastUp)
  \/ AnswerOK(r)
  \/ \E t \in Pool!Reading : Exhausted(r, t)

Next ==
  \/ Tick
  \/ \E r \in Requests, m \in Models, t \in Pool!Reading :
       \E loop \in LoopsFor(m) : Start(r, m, loop, t)
  \/ \E r \in Requests : Disconnect(r)
  \/ \E r \in Requests : Run(r)

Spec == Init /\ [][Next]_vars

\* Upstream calls end: dial, TLS and response-header timeouts bound them.
FairSpec == Spec /\ \A r \in Requests : WF_vars(Run(r))
=============================================================================
