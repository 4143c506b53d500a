------------------------------ MODULE Exchange ------------------------------
(***************************************************************************)
(* An agent's exchanges with a model through the gateway: the client adds  *)
(* to its conversation and sends it, the gateway restates it for the       *)
(* upstream (Dialogue), the upstream answers event by event, the gateway   *)
(* restates every event as it arrives (StreamWriters), and the client      *)
(* reads the answer, runs the tools it names and goes on.                  *)
(*                                                                         *)
(* Everything said is numbered in the order it is said, so that no two     *)
(* pieces are alike.  The upstream may hang up at any event of a stream.   *)
(***************************************************************************)
EXTENDS Dialogue, StreamWriters

CONSTANTS
  Routes,    \* see Translating
  MaxSaid,   \* bound: pieces said
  MaxAsides, \* bound: instructions and images in a conversation
  MaxCalls   \* bound: calls per answer

\* The client's protocol, the upstream's, whether the client streams, and
\* whether the upstream is zen, which always streams.  Where both protocols
\* are the same a stream is passed through as it is.
Translating ==
  { r \in [client : {"chat", "messages", "responses"},
           upstream : {"chat", "messages", "responses"},
           stream : BOOLEAN, zen : BOOLEAN] :
      \/ /\ r.zen /\ r.upstream # "messages"
         /\ r.client = "responses" => r.upstream = "responses"
         /\ r.client = r.upstream => ~r.stream
      \/ ~r.zen /\ r.client = "messages" /\ r.upstream = "chat"
      \/ ~r.zen /\ r.client = "chat" /\ r.upstream = "messages" }

ASSUME ExchangeAssumption ==
  /\ Routes \subseteq Translating
  /\ MaxSaid \in Nat /\ MaxAsides \in Nat /\ MaxCalls \in Nat

VARIABLES
  route,    \* the route of every request of the behaviour
  phase,    \* "client" speaks, "upstream" answers, the client "read" it all
  said,     \* how many pieces were said
  dialog,   \* the client's conversation
  request,  \* the conversation as the upstream got it
  answer,   \* what the upstream answered so far
  w         \* the translator and what it wrote to the client

exchangeVars == <<route, phase, said, dialog, request, answer, w>>

Block(kind, id, body) == [kind |-> kind, id |-> id, body |-> body]

NoAnswer == [text |-> <<>>, calls |-> <<>>, stop |-> ""]

\* Whole calls: in a Responses item, in a body that is not a stream.
Streamed == route.stream \/ route.zen
CallsArriveWhole == route.upstream = "responses" \/ ~Streamed

-----------------------------------------------------------------------------
\* The translators.
Restated(msgs) ==
  CASE route.client = "messages" /\ route.upstream = "chat" ->
         AnthropicToChatBody(msgs)
    [] route.client = "messages" /\ route.upstream = "responses" ->
         ChatMessagesToResponsesInput(AnthropicToChatBody(msgs))
    [] route.client = "chat" /\ route.upstream = "responses" ->
         ChatMessagesToResponsesInput(NormalizeInstructionRoles(msgs))
    [] route.client = "chat" /\ route.upstream = "messages" ->
         ChatToAnthropicBody(msgs)
    [] OTHER -> NormalizeInstructionRoles(msgs)

Started ==
  IF route.stream /\ route.client = "messages"
  THEN Write(NewWriter, <<MessageStart>>) ELSE NewWriter

Relayed(e) ==
  CASE route.stream /\ route.client = "messages" /\ route.upstream = "chat" ->
         StreamChatSSEToAnthropic(w, e)
    [] route.stream /\ route.client = "messages" /\ route.upstream = "responses" ->
         StreamResponsesSSEToAnthropic(w, e)
    [] route.stream /\ route.client = "chat" /\ route.upstream = "responses" ->
         TranslateResponses(w, e)
    [] route.stream /\ route.client = "chat" /\ route.upstream = "messages" ->
         StreamAnthropicSSEToChat(w, e)
    [] ~route.stream /\ route.zen /\ route.client = "messages"
         /\ route.upstream = "chat" -> ChatSSEToAnthropicMessage(w, e)
    [] OTHER -> Aggregate(w, e)

WholeBody ==
  CASE route.client = "messages" /\ route.upstream = "chat" ->
         ChatJSONToAnthropic(w.text, w.pending, w.finish)
    [] route.client = "messages" /\ route.upstream = "responses" ->
         ResponsesSSEToAnthropicMessage(w)
    [] route.client = "chat" /\ route.upstream = "responses" ->
         TranslatedResponses(w)
    [] route.client = "chat" /\ route.upstream = "messages" ->
         AnthropicJSONToChat(w.text, w.pending, w.finish)
    [] route.client = "chat" /\ route.upstream = "chat" -> AggregateChatSSE(w)
    [] route.client = "responses" -> AggregateResponsesSSE(w)

Closed ==
  CASE ~route.stream -> Write(w, WholeBody)
    [] route.stream /\ route.client = "messages" ->
         Finish(w, IF route.upstream = "responses" /\ w.pending # <<>>
                   THEN "calls" ELSE "")
    [] route.stream /\ route.client = "chat" /\ route.upstream = "responses" ->
         TranslateResponsesEnd(w)
    [] route.stream /\ route.client = "chat" /\ route.upstream = "messages" ->
         Write(w, <<FinishChunk(StopFromAnthropic(w.finish))>>)

-----------------------------------------------------------------------------
\* What a client makes of what was written: the blocks of an Anthropic
\* stream by index, the tool_calls of chat chunks by index, a whole body.
Bodies(events) == FlattenSeq([i \in DOMAIN events |-> events[i].body])

ReadBlocks(out) ==
  LET starts == SelectSeq(out, LAMBDA e : e.type = "start" /\ e.kind = "call")
      of(i)  == SelectSeq(out, LAMBDA e : e.type = "delta" /\ e.index = i)
      text   == SelectSeq(out, LAMBDA e :
                  /\ e.type = "delta"
                  /\ \A i \in DOMAIN starts : starts[i].index # e.index)
  IN  [ text  |-> Bodies(text),
        calls |-> [i \in DOMAIN starts |->
                     [id |-> starts[i].id, body |-> Bodies(of(starts[i].index))]],
        stop  |-> out[SelectInSeq(out, LAMBDA e : e.type = "message_delta")].reason ]

ReadChunks(out) ==
  LET calls == SelectSeq(out, LAMBDA e : e.type = "call")
      text  == SelectSeq(out, LAMBDA e : e.type = "text")
      index == {calls[i].index : i \in DOMAIN calls}
      of(i) == SelectSeq(calls, LAMBDA e : e.index = i)
  IN  [ text  |-> [i \in DOMAIN text |-> text[i].piece],
        calls |-> [i \in 1 .. Cardinality(index) |->
                     [id |-> of(i - 1)[1].id, body |-> Bodies(of(i - 1))]],
        stop  |-> Last(out).reason ]

ClientReads ==
  CASE ~route.stream ->
         LET all == Last(w.out) IN
         [ text |-> all.text, stop |-> all.reason,
           calls |-> [i \in DOMAIN all.calls |->
                        [id |-> all.calls[i].id, body |-> all.calls[i].body]] ]
    [] route.stream /\ route.client = "messages" -> ReadBlocks(w.out)
    [] route.stream /\ route.client = "chat"     -> ReadChunks(w.out)

-----------------------------------------------------------------------------
ExchangeInit ==
  /\ route \in Routes
  /\ phase = "client" /\ said = 0
  /\ dialog = <<>> /\ request = <<>>
  /\ answer = NoAnswer /\ w = NewWriter

\* The calls of the conversation that have no result yet.
Awaited ==
  LET ids(kind) == {b.id : b \in {c \in UNION {ToSet(m.blocks) : m \in ToSet(dialog)} :
                                    c.kind = kind}}
  IN  ids("call") \ ids("result")

Says(message, pieces) ==
  /\ phase = "client" /\ said + pieces =< MaxSaid
  /\ said' = said + pieces
  /\ dialog' = Append(dialog, message)
  /\ UNCHANGED <<route, phase, request, answer, w>>

\* Fewer than MaxAsides messages are instructions or images.
AsideLeft ==
  LET plain(m) == m.role \notin {"system", "developer"}
                    /\ \A b \in ToSet(m.blocks) : b.kind # "image"
  IN  Cardinality({i \in DOMAIN dialog : ~plain(dialog[i])}) < MaxAsides

Ask(kind) ==
  /\ Awaited = {}
  /\ kind = "image" => AsideLeft
  /\ Says(Message("user", <<Block(kind, 0, <<said + 1>>)>>), 1)

\* Chat clients may instruct at any point, Anthropic clients once, up front.
Instruct(role) ==
  /\ AsideLeft
  /\ role = "developer" => route.client # "messages"
  /\ route.client = "messages" => dialog = <<>>
  /\ Says(Message(role, <<Block("text", 0, <<said + 1>>)>>), 1)

\* A chat client returns every result in a message of its own, in any order.
ReturnResult(id) ==
  /\ route.client = "chat" /\ id \in Awaited
  /\ Says(Message("tool", <<Block("result", id, <<said + 1>>)>>), 1)

\* An Anthropic client returns them together, and may go on in the same turn.
ReturnResults(more) ==
  LET ids == SetToSortSeq(Awaited, <)
      results == [i \in DOMAIN ids |-> Block("result", ids[i], <<said + i>>)]
      pieces  == Len(ids) + IF more THEN 1 ELSE 0
  IN  /\ route.client = "messages" /\ ids # <<>>
      /\ Says(Message("user", results \o
                (IF more THEN <<Block("text", 0, <<said + pieces>>)>> ELSE <<>>)),
              pieces)

Send ==
  /\ phase = "client" /\ Awaited = {}
  /\ \E m \in ToSet(dialog) : m.role = "user"
  /\ Last(dialog).role # "assistant"
  /\ phase' = "upstream"
  /\ request' = Restated(dialog)
  /\ w' = Started
  /\ UNCHANGED <<route, said, dialog, answer>>

Emits(e, pieces) ==
  /\ phase = "upstream" /\ answer.stop = "" /\ said + pieces =< MaxSaid
  /\ said' = said + pieces
  /\ w' = Relayed(e)
  /\ UNCHANGED <<route, phase, dialog, request>>

EmitText ==
  /\ Emits([type |-> "text", piece |-> said + 1], 1)
  /\ answer' = [answer EXCEPT !.text = Append(@, said + 1)]

\* A call begins, or comes whole; parts counts the events it came in.  A
\* block of an Anthropic stream is known by the number of its first piece.
EmitCall(body) ==
  LET n == Len(answer.calls)
      index == IF route.upstream = "messages" THEN said + 1 ELSE n
  IN  /\ n < MaxCalls
      /\ CallsArriveWhole => body # <<>>
      /\ route.upstream = "messages" /\ Streamed => body = <<>>
      /\ Emits([type |-> "call", index |-> index, id |-> said + 1,
                body |-> body], 1 + Len(body))
      /\ answer' = [answer EXCEPT !.calls =
                      Append(@, [id |-> said + 1, body |-> body,
                                 index |-> index, parts |-> 1])]

\* A later fragment: of any call in chat chunks, of the last in blocks.
EmitFragment(i) ==
  /\ ~CallsArriveWhole
  /\ route.upstream = "messages" => i = Len(answer.calls)
  /\ Emits([type |-> "call", index |-> answer.calls[i].index, id |-> 0,
            body |-> <<said + 1>>], 1)
  /\ answer' = [answer EXCEPT !.calls[i].body = Append(@, said + 1),
                              !.calls[i].parts = @ + 1]

EmitStop(reason) ==
  /\ reason = "calls" <=> answer.calls # <<>>
  /\ Emits([type |-> "stop", reason |-> reason], 0)
  /\ answer' = [answer EXCEPT !.stop = reason]

\* The body ends; a stream may end anywhere, a whole body that is cut short
\* does not decode.
HangUp ==
  /\ phase = "upstream"
  /\ Streamed \/ answer.stop # ""
  /\ phase' = "read"
  /\ w' = Closed
  /\ UNCHANGED <<route, said, dialog, request, answer>>

\* The client takes what it read into its conversation.
Take ==
  LET read  == ClientReads
      calls == [i \in DOMAIN read.calls |->
                  Block("call", read.calls[i].id, read.calls[i].body)]
      text  == IF read.text = <<>> THEN <<>> ELSE <<Block("text", 0, read.text)>>
  IN  /\ phase = "read"
      /\ phase' = "client"
      /\ dialog' = Append(dialog, Message("assistant", text \o calls))
      /\ request' = <<>> /\ answer' = NoAnswer /\ w' = NewWriter
      /\ UNCHANGED <<route, said>>

ExchangeNext ==
  \/ \E kind \in {"text", "image"} : Ask(kind)
  \/ \E role \in {"system", "developer"} : Instruct(role)
  \/ \E id \in Awaited : ReturnResult(id)
  \/ \E more \in BOOLEAN : ReturnResults(more)
  \/ Send
  \/ EmitText
  \/ \E body \in {<<>>, <<said + 2>>} : EmitCall(body)
  \/ \E i \in DOMAIN answer.calls : EmitFragment(i)
  \/ \E reason \in {"end", "calls", "length"} : EmitStop(reason)
  \/ HangUp
  \/ Take

ExchangeSpec == ExchangeInit /\ [][ExchangeNext]_exchangeVars
=============================================================================
