---------------------------- MODULE StreamWriters ----------------------------
(***************************************************************************)
(* How an upstream's answer is restated for the client while it arrives    *)
(* (sse.go, anthropic.go, anthropic_outbound.go, anthropic_handler.go,     *)
(* responses.go, responses_endpoint.go).                                   *)
(*                                                                         *)
(* An upstream event of any protocol is one of                             *)
(*   [type "text", piece]                                                  *)
(*   [type "call", index, id, body]  a chat fragment or a whole call; a    *)
(*                 later fragment of a call names its index but no id (0)  *)
(*   [type "stop", reason]           "end", "calls" or "length"            *)
(* A writer w is the translator's variables and what it wrote so far, out. *)
(* Ids, names, framing and token counts are left out.                      *)
(***************************************************************************)
EXTENDS Naturals, SequencesExt

NewWriter ==
  [ text |-> <<>>, open |-> FALSE, block |-> 0, pending |-> <<>>,
    sawTools |-> FALSE, finish |-> "", out |-> <<>> ]

Call(key, id, body) == [key |-> key, id |-> id, body |-> body]

Write(w, events) == [w EXCEPT !.out = @ \o events]

-----------------------------------------------------------------------------
\* anthropicStreamWriter: an Anthropic event sequence.
BlockStart(i, kind, id) == [type |-> "start", index |-> i, kind |-> kind, id |-> id]
BlockDelta(i, body)     == [type |-> "delta", index |-> i, body |-> body]
BlockStop(i)            == [type |-> "stop", index |-> i]
MessageDelta(reason)    == [type |-> "message_delta", reason |-> reason]
MessageStart            == [type |-> "message_start"]
MessageStop             == [type |-> "message_stop"]

TextDelta(w, piece) ==
  [Write(w, (IF w.open THEN <<>> ELSE <<BlockStart(w.block, "text", 0)>>)
              \o <<BlockDelta(w.block, <<piece>>)>>) EXCEPT !.open = TRUE]

\* Mutant of CloseTextBlock: the next block reuses the index.
CloseTextBlockInPlace(w) ==
  IF w.open THEN [Write(w, <<BlockStop(w.block)>>) EXCEPT !.open = FALSE] ELSE w

CloseTextBlock(w) ==
  IF w.open
  THEN [Write(w, <<BlockStop(w.block)>>) EXCEPT !.open = FALSE, !.block = @ + 1]
  ELSE w

\* Mutant of ToolUse: fragments are told apart by their id.
ToolUseById(w, key, id, body) ==
  LET at == SelectInSeq(w.pending, LAMBDA p : p.id = id) IN
  IF at = 0 THEN [w EXCEPT !.pending = Append(@, Call(key, id, body))]
  ELSE [w EXCEPT !.pending[at].body = @ \o body]

\* Calls are held back and their fragments joined by the upstream's index.
ToolUse(w, key, id, body) ==
  LET at == SelectInSeq(w.pending, LAMBDA p : p.key = key) IN
  IF at = 0 THEN [w EXCEPT !.pending = Append(@, Call(key, id, body))]
  ELSE [w EXCEPT !.pending[at].body = @ \o body,
                 !.pending[at].id = IF @ = 0 THEN id ELSE @]

EmitToolCall(w, p) ==
  LET v == CloseTextBlock(w) IN
  [Write(v, <<BlockStart(v.block, "call", p.id), BlockDelta(v.block, p.body),
              BlockStop(v.block)>>) EXCEPT !.block = @ + 1]

StopReasonFromChat(reason) ==
  CASE reason = "calls" -> "calls" [] reason = "length" -> "length" [] OTHER -> "end"

Finish(w, reason) ==
  LET last == IF reason # "" THEN reason ELSE w.finish
      stop == IF w.pending # <<>> THEN "calls" ELSE StopReasonFromChat(last)
  IN  Write(FoldLeft(EmitToolCall, CloseTextBlock(w), w.pending),
            <<MessageDelta(stop), MessageStop>>)

\* One event of streamChatSSEToAnthropic.
StreamChatSSEToAnthropic(w, e) ==
  CASE e.type = "text" -> TextDelta(w, e.piece)
    [] e.type = "call" -> ToolUse(w, e.index, e.id, e.body)
    [] e.type = "stop" -> [w EXCEPT !.finish = e.reason]

\* One event of streamResponsesSSEToAnthropic: calls arrive whole, and the
\* reason the answer ended is not looked at.
StreamResponsesSSEToAnthropic(w, e) ==
  CASE e.type = "text" -> TextDelta(w, e.piece)
    [] e.type = "call" -> ToolUse(w, e.index, e.id, e.body)
    [] e.type = "stop" -> w

-----------------------------------------------------------------------------
\* A whole message, as every protocol's non-streaming body says it.
Whole(text, calls, reason) ==
  <<[type |-> "whole", text |-> text, calls |-> calls, reason |-> reason]>>

\* One event of chatSSEToAnthropicMessage: a fragment joins the last call
\* with its id, which only the first fragment of a call carries.
ChatSSEToAnthropicMessage(w, e) ==
  CASE e.type = "text" -> [w EXCEPT !.text = Append(@, e.piece)]
    [] e.type = "stop" -> [w EXCEPT !.finish = e.reason]
    [] e.type = "call" ->
         LET at == SelectLastInSeq(w.pending, LAMBDA p : p.id = e.id) IN
         IF at = 0 THEN [w EXCEPT !.pending = Append(@, Call(e.index, e.id, e.body))]
         ELSE [w EXCEPT !.pending[at].body = @ \o e.body]

ChatJSONToAnthropic(text, calls, reason) ==
  Whole(text, calls, StopReasonFromChat(reason))

\* One event of responsesSSEToAnthropicMessage, of translateResponses for a
\* client that does not stream, and of the two same-protocol aggregators.
Aggregate(w, e) ==
  CASE e.type = "text" -> [w EXCEPT !.text = Append(@, e.piece)]
    [] e.type = "stop" -> [w EXCEPT !.finish = e.reason]
    [] e.type = "call" ->
         [w EXCEPT !.pending = Append(@, Call(e.index, e.id, e.body))]

ResponsesSSEToAnthropicMessage(w) ==
  Whole(w.text, w.pending, IF w.pending # <<>> THEN "calls" ELSE "end")

TranslatedResponses(w) ==
  Whole(w.text, w.pending, CASE w.pending # <<>> -> "calls"
                             [] w.pending = <<>> /\ w.finish = "length" -> "length"
                             [] OTHER -> "end")

\* aggregateChatSSE and aggregateResponsesSSE keep the text.
AggregateChatSSE(w) == Whole(w.text, <<>>, "end")
AggregateResponsesSSE(w) ==
  Whole(w.text, <<>>, IF w.finish = "length" THEN "length" ELSE "end")

-----------------------------------------------------------------------------
\* Chat chunks.
TextChunk(piece)           == [type |-> "text", piece |-> piece]
CallChunk(index, id, body) == [type |-> "call", index |-> index, id |-> id, body |-> body]
FinishChunk(reason)        == [type |-> "finish", reason |-> reason]

\* One event of translateResponses for a streaming client: the index of a
\* call is the length of a list only the other branch fills.
TranslateResponses(w, e) ==
  CASE e.type = "text" -> Write(w, <<TextChunk(e.piece)>>)
    [] e.type = "call" ->
         [Write(w, <<CallChunk(0, e.id, e.body)>>) EXCEPT !.sawTools = TRUE]
    [] e.type = "stop" -> [w EXCEPT !.finish = e.reason]

TranslateResponsesEnd(w) ==
  Write(w, <<FinishChunk(CASE w.sawTools -> "calls"
                           [] ~w.sawTools /\ w.finish = "length" -> "length"
                           [] OTHER -> "end")>>)

\* One event of streamAnthropicSSEToChat: block index -> tool_calls index.
StreamAnthropicSSEToChat(w, e) ==
  LET at == SelectInSeq(w.pending, LAMBDA p : p.key = e.index) IN
  CASE e.type = "text" -> Write(w, <<TextChunk(e.piece)>>)
    [] e.type = "stop" -> [w EXCEPT !.finish = e.reason]
    [] e.type = "call" /\ e.id # 0 ->
         [Write(w, <<CallChunk(Len(w.pending), e.id, e.body)>>) EXCEPT
            !.pending = Append(@, Call(e.index, e.id, <<>>))]
    [] e.type = "call" /\ e.id = 0 ->
         IF at = 0 THEN w ELSE Write(w, <<CallChunk(at - 1, 0, e.body)>>)

StopFromAnthropic(reason) == IF reason = "" THEN "end" ELSE reason

AnthropicJSONToChat(text, calls, reason) ==
  Whole(text, calls, StopFromAnthropic(reason))
=============================================================================
