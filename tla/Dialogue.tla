------------------------------ MODULE Dialogue ------------------------------
(***************************************************************************)
(* How a client's conversation is restated for an upstream that speaks     *)
(* another protocol (anthropicToChatBody, chatToAnthropicBody and          *)
(* chatMessagesToResponsesInput).                                          *)
(*                                                                         *)
(* A message of any of the three protocols is [role, blocks], a block      *)
(* [kind, id, body]: text (id 0), an image, a call of a tool or the result *)
(* of call id; body is the sequence of the pieces it was said in.  A chat  *)
(* message's content and tool_calls are its blocks in that order; the      *)
(* top-level "system" of an Anthropic request is its first message.        *)
(* Parameters, tool declarations and malformed parts are left out.         *)
(***************************************************************************)
EXTENDS Naturals, SequencesExt

Message(role, blocks) == [role |-> role, blocks |-> blocks]

\* The blocks of m of one of the kinds.
OfKind(m, kinds) == SelectSeq(m.blocks, LAMBDA b : b.kind \in kinds)

-----------------------------------------------------------------------------
\* An Anthropic message as chat messages: every result is a message of its
\* own, ahead of the rest; a turn with calls is the assistant's.
ConvertAnthropicMessage(m) ==
  LET said    == OfKind(m, {"text", "image"})
      calls   == OfKind(m, {"call"})
      results == [i \in DOMAIN OfKind(m, {"result"}) |->
                    Message("tool", <<OfKind(m, {"result"})[i]>>)]
  IN  CASE calls # <<>> ->
             <<Message("assistant", OfKind(m, {"text"}) \o calls)>> \o results
        [] calls = <<>> /\ said # <<>> ->
             Append(results, Message(m.role, said))
        [] OTHER -> results

AnthropicToChatBody(msgs) ==
  FlattenSeq([i \in DOMAIN msgs |-> ConvertAnthropicMessage(msgs[i])])

-----------------------------------------------------------------------------
\* addBlocks: consecutive messages of one role are merged.
AddBlocks(msgs, role, blocks) ==
  IF msgs # <<>> /\ Last(msgs).role = role
  THEN [msgs EXCEPT ![Len(msgs)].blocks = @ \o blocks]
  ELSE Append(msgs, Message(role, blocks))

\* flushToolResults: the results held back become a user message.
FlushToolResults(acc) ==
  IF acc.pending = <<>> THEN acc
  ELSE [acc EXCEPT !.msgs = Append(@, Message("user", acc.pending)),
                   !.pending = <<>>]

\* Mutant of ChatTurn: a user message does not flush the results before it.
ChatTurnUnflushed(acc, m) ==
  LET flushed == FlushToolResults(acc) IN
  CASE m.role \in {"system", "developer"} ->
         [flushed EXCEPT !.system = @ \o m.blocks]
    [] m.role = "user" ->
         [acc EXCEPT !.msgs = AddBlocks(@, "user", m.blocks)]
    [] m.role = "assistant" /\ m.blocks = <<>> -> flushed
    [] m.role = "assistant" /\ m.blocks # <<>> ->
         [flushed EXCEPT !.msgs = AddBlocks(@, "assistant", m.blocks)]
    [] m.role = "tool" -> [acc EXCEPT !.pending = @ \o m.blocks]

\* One chat message of chatToAnthropicBody's loop: results wait for the next
\* message that is not one.
ChatTurn(acc, m) ==
  LET flushed == FlushToolResults(acc) IN
  CASE m.role \in {"system", "developer"} ->
         [flushed EXCEPT !.system = @ \o m.blocks]
    [] m.role = "user" ->
         [flushed EXCEPT !.msgs = AddBlocks(@, "user", m.blocks)]
    [] m.role = "assistant" /\ m.blocks = <<>> -> flushed
    [] m.role = "assistant" /\ m.blocks # <<>> ->
         [flushed EXCEPT !.msgs = AddBlocks(@, "assistant", m.blocks)]
    [] m.role = "tool" -> [acc EXCEPT !.pending = @ \o m.blocks]

ChatToAnthropicBody(msgs) ==
  LET start == [msgs |-> <<>>, pending |-> <<>>, system |-> <<>>]
      end   == FlushToolResults(FoldLeft(ChatTurn, start, msgs))
  IN  (IF end.system = <<>> THEN <<>> ELSE <<Message("system", end.system)>>)
        \o end.msgs

-----------------------------------------------------------------------------
\* A chat message as Responses input items: calls and results are items of
\* their own, an assistant's calls ahead of its text.
ResponsesItems(m) ==
  LET alone(blocks) == [i \in DOMAIN blocks |-> Message(m.role, <<blocks[i]>>)]
      said == OfKind(m, {"text", "image"})
  IN  CASE m.role = "assistant" ->
             alone(OfKind(m, {"call"}))
               \o (IF said = <<>> THEN <<>> ELSE <<Message(m.role, said)>>)
        [] m.role = "tool" -> alone(m.blocks)
        [] OTHER -> <<m>>

ChatMessagesToResponsesInput(msgs) ==
  FlattenSeq([i \in DOMAIN msgs |-> ResponsesItems(msgs[i])])

\* zen and every upstream but OpenAI's want "developer" spelled "system".
NormalizeInstructionRoles(msgs) ==
  [i \in DOMAIN msgs |->
     IF msgs[i].role = "developer" THEN Message("system", msgs[i].blocks)
                                   ELSE msgs[i]]
=============================================================================
