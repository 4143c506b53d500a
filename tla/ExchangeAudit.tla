---------------------------- MODULE ExchangeAudit ----------------------------
(***************************************************************************)
(* What must survive the translation of an exchange.                       *)
(***************************************************************************)
EXTENDS Exchange

-----------------------------------------------------------------------------
\* Turns(msgs): every block with the number of its message, in order.
Turns(msgs) ==
  FlattenSeq([i \in DOMAIN msgs |->
    [j \in DOMAIN msgs[i].blocks |-> <<i, msgs[i].blocks[j], msgs[i].role>>]])

Instruction(role) == role \in {"system", "developer"}

\* Who says a block: results are the user's in one protocol, a tool's in others.
Speaker(role) == CASE Instruction(role) -> "system"
                   [] role = "assistant" -> "assistant"
                   [] OTHER -> "user"

\* The upstream hears the whole conversation, from the same speakers, and
\* nothing a later turn says ahead of an earlier one: a result is never heard
\* after the question that follows it, nor before its call.  Only the system
\* prompt of an Anthropic request is moved, to the front.
TurnsKept ==
  phase = "upstream" =>
    LET spoken == Turns(dialog)
        heard  == Turns(request)
        at(b)  == CHOOSE i \in DOMAIN heard : heard[i][2] = b
        prompt(t) == Instruction(t[3]) /\ route.upstream = "messages"
    IN  /\ Len(heard) = Len(spoken)
        /\ \A i \in DOMAIN spoken : \E j \in DOMAIN heard :
             /\ heard[j][2] = spoken[i][2]
             /\ Speaker(heard[j][3]) = Speaker(spoken[i][3])
        /\ \A i, j \in DOMAIN spoken :
             /\ spoken[i][1] < spoken[j][1]
             /\ ~prompt(spoken[i]) /\ ~prompt(spoken[j])
             => at(spoken[i][2]) < at(spoken[j][2])

\* What the upstream said a call is: its id and all its fragments in order.
SaidCalls == [i \in DOMAIN answer.calls |->
                [id |-> answer.calls[i].id, body |-> answer.calls[i].body]]

\* Routes on which calls do not survive: see CallsSurvive.
LosesCalls ==
  \/ route.client = route.upstream
  \/ /\ route.client = "chat" /\ route.upstream = "responses" /\ route.stream
     /\ Len(answer.calls) > 1
  \/ /\ route.client = "messages" /\ route.upstream = "chat"
     /\ route.zen /\ ~route.stream
     /\ \E i \in DOMAIN answer.calls : answer.calls[i].parts > 1

\* Routes on which a client cannot tell that the answer was cut at its length.
LosesLength ==
  \/ route.client = "messages" /\ route.upstream = "responses"
  \/ route.client = "chat" /\ route.upstream = "chat"

\* The client reads what the upstream said, wherever the stream ended: the
\* whole text in order, every call once with its own id and its fragments
\* joined to it and to no other, and the reason the answer stopped.
AnswerKept ==
  phase = "read" =>
    LET read == ClientReads IN
    /\ read.text = answer.text
    /\ ~LosesCalls => read.calls = SaidCalls
    /\ ~LosesCalls /\ answer.calls # <<>> => read.stop = "calls" \/ answer.stop = ""
    /\ ~LosesLength /\ answer.stop = "length" => read.stop = "length"
    /\ answer.stop = "end" => read.stop = "end"

\* A strict Anthropic client, event by event: blocks are opened one at a time
\* under consecutive indexes, added to only while open, all closed before the
\* message ends, and nothing follows the end.
Parsed(s, e) ==
  CASE e.type = "message_start" ->
         [s EXCEPT !.ok = @ /\ s.at = "before", !.at = "between"]
    [] e.type = "start" ->
         [s EXCEPT !.ok = @ /\ s.at = "between" /\ e.index = s.next,
                   !.at = "block", !.next = @ + 1]
    [] e.type = "delta" ->
         [s EXCEPT !.ok = @ /\ s.at = "block" /\ e.index = s.next - 1]
    [] e.type = "stop" ->
         [s EXCEPT !.ok = @ /\ s.at = "block" /\ e.index = s.next - 1,
                   !.at = "between"]
    [] e.type = "message_delta" ->
         [s EXCEPT !.ok = @ /\ s.at = "between", !.at = "ending"]
    [] e.type = "message_stop" ->
         [s EXCEPT !.ok = @ /\ s.at = "ending", !.at = "after"]

\* "Emits a valid anthropic SSE sequence on the fly" (anthropicStreamWriter):
\* at every moment what was written is the beginning of a valid sequence, and
\* a complete one once the upstream hung up.
StreamWellFormed ==
  route.stream /\ route.client = "messages" /\ phase # "client" =>
    LET s == FoldLeft(Parsed, [ok |-> TRUE, at |-> "before", next |-> 0], w.out)
    IN  s.ok /\ (phase = "read" => s.at = "after")

-----------------------------------------------------------------------------
\* A property the documentation states and the code does not keep.

\* README.md:329, of zen: "translates between the two shapes - including tool
\* calls".
CallsSurvive ==
  phase = "read" => ClientReads.calls = SaidCalls
=============================================================================
