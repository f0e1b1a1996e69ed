---------------------------- MODULE TurnTranslation ----------------------------
(***************************************************************************)
(* What a stateless provider is sent of a session: the transcript the      *)
(* agent loop builds (core/agent/conversation.py) and its translation to   *)
(* chat-completions messages (openrouter_translator.py) and to Claude      *)
(* messages (claude_translator.py).  Texts, calls and outputs are numbers; *)
(* tool schemas, images, files and JSON are left out.                      *)
(***************************************************************************)
EXTENDS Naturals, Sequences, FiniteSets, SequencesExt

CONSTANTS
  MaxItems,   \* bound: items of a transcript
  MaxCalls    \* bound: tool calls of one model turn

VARIABLES
  transcript,  \* the input items, oldest first
  owed         \* calls of the last turn whose outputs are still to come

tvars == <<transcript, owed>>

\* An item: a message of a role, a function_call (perhaps with the text the
\* model said beside it), or a function_call_output.  `ok' is false for a
\* message without usable content.
Item(type, role, id, ok, beside) ==
  [type |-> type, role |-> role, id |-> id, ok |-> ok, beside |-> beside]

Message(role, id, ok) == Item("message", role, id, ok, FALSE)
Output(id)            == Item("function_call_output", "user", id, TRUE, FALSE)

\* model_turn_input_items: the calls, the text on the first; or the text.
TurnItems(first, calls, text) ==
  IF calls = 0
  THEN IF text THEN <<Message("assistant", first, TRUE)>> ELSE <<>>
  ELSE [i \in 1..calls |->
          Item("function_call", "assistant", first + i - 1, TRUE, text /\ i = 1)]

Init == transcript = <<>> /\ owed = <<>>

Room(n) == Len(transcript) + n <= MaxItems

\* A user's message, or one injected from the queue or the inbox.
Says(ok) ==
  /\ owed = <<>> /\ Room(1)
  /\ transcript' = Append(transcript, Message("user", Len(transcript) + 1, ok))
  /\ UNCHANGED owed

\* record_turn: the model's answer, or its calls.
Answers(calls, text) ==
  LET items == TurnItems(Len(transcript) + 1, calls, text) IN
  /\ owed = <<>> /\ Room(2 * calls + 1)
  /\ transcript' = transcript \o items
  /\ owed' = [i \in 1..calls |-> items[i].id]

\* provider_request: the outputs join the transcript, in the calls' order.
ToolsAnswer ==
  /\ owed # <<>>
  /\ transcript' = transcript \o [i \in 1..Len(owed) |-> Output(owed[i])]
  /\ owed' = <<>>

Next ==
  \/ \E ok \in BOOLEAN : Says(ok)
  \/ \E calls \in 0..MaxCalls, text \in BOOLEAN : Answers(calls, text)
  \/ ToolsAnswer

Spec == Init /\ [][Next]_tvars

-----------------------------------------------------------------------------
(* Chat completions: openrouter_translator.translate_input_items. *)

\* acc.calls are the consecutive function_call items not yet a message.
Flush(acc) ==
  IF acc.calls = <<>> THEN acc
  ELSE [out |-> Append(acc.out, [role |-> "assistant", calls |-> acc.calls,
                                 id |-> 0, beside |-> acc.beside]),
        calls |-> <<>>, beside |-> FALSE]

\* Each call a message of its own.
ChatStepUngrouped(acc, item) ==
  CASE item.type = "message" ->
         [Flush(acc) EXCEPT !.out = Append(@, [role |-> item.role, calls |-> <<>>,
                                               id |-> item.id, beside |-> FALSE])]
    [] item.type = "function_call" ->
         [Flush(acc) EXCEPT !.calls = <<item.id>>, !.beside = item.beside]
    [] item.type = "function_call_output" ->
         [Flush(acc) EXCEPT !.out = Append(@, [role |-> "tool", calls |-> <<>>,
                                               id |-> item.id, beside |-> FALSE])]

ChatStep(acc, item) ==
  CASE item.type = "message" ->
         [Flush(acc) EXCEPT !.out = Append(@, [role |-> item.role, calls |-> <<>>,
                                               id |-> item.id, beside |-> FALSE])]
    [] item.type = "function_call" ->
         [acc EXCEPT !.calls = Append(@, item.id),
                     !.beside = IF acc.calls = <<>> THEN item.beside ELSE @]
    [] item.type = "function_call_output" ->
         [Flush(acc) EXCEPT !.out = Append(@, [role |-> "tool", calls |-> <<>>,
                                               id |-> item.id, beside |-> FALSE])]

ChatMessages(items) ==
  Flush(FoldLeft(ChatStep, [out |-> <<>>, calls |-> <<>>, beside |-> FALSE], items)).out

-----------------------------------------------------------------------------
(* Claude: claude_translator.translate_input_items. *)

\* Blocks of one role that follow each other are one message.
AppendBlocks(messages, role, block) ==
  IF messages # <<>> /\ Last(messages).role = role
  THEN [messages EXCEPT ![Len(messages)].blocks = Append(@, block)]
  ELSE Append(messages, [role |-> role, blocks |-> <<block>>])

\* A message without usable content is dropped; so is the text beside a call.
ClaudeStep(messages, item) ==
  CASE item.type = "message" ->
         IF item.ok THEN AppendBlocks(messages, item.role, [type |-> "text", id |-> item.id])
         ELSE messages
    [] item.type = "function_call" ->
         AppendBlocks(messages, "assistant", [type |-> "tool_use", id |-> item.id])
    [] item.type = "function_call_output" ->
         AppendBlocks(messages, "user", [type |-> "tool_result", id |-> item.id])

ClaudeMessages(items) == FoldLeft(ClaudeStep, <<>>, items)

-----------------------------------------------------------------------------
(* The request around the messages: claude_translator.translate_request. *)

Options == [schema : BOOLEAN, thinking : {"off", "disabled", "enabled", "adaptive"},
            parallel : BOOLEAN, tools : BOOLEAN, old : BOOLEAN]

ClaudeRequest(o) ==
  LET thinks == o.thinking \in {"enabled", "adaptive"} IN
  [thinks |-> thinks,
   temperature |-> ~thinks /\ o.old,
   tools |-> o.tools \/ o.schema,
   choice |-> CASE o.schema /\ ~thinks -> "the schema"
                [] ~(o.schema /\ ~thinks) /\ (o.tools \/ o.schema) /\ ~o.parallel -> "one at a time"
                [] OTHER -> "any"]

-----------------------------------------------------------------------------
(* The transcript keeps its shape (conversation.py:136-175). *)
TypeOK ==
  /\ Len(transcript) <= MaxItems
  /\ \A i \in DOMAIN transcript : transcript[i].type \in
       {"message", "function_call", "function_call_output"}
  /\ \A o \in Options : ClaudeRequest(o).thinks => ClaudeRequest(o).choice # "the schema"

\* What a request must be for its provider to take it, at every point where
\* one is sent: a chat-completions tool message answers the assistant message
\* before it, call by call; Claude's roles alternate and the results of a
\* message's calls are in the next one (openrouter_translator.py:154-255,
\* claude_translator.py:229-301); and the two carry the same calls, outputs
\* and texts in the same order, save the texts said beside calls.
TranslationsAgree ==
  owed = <<>> =>
  LET chat   == ChatMessages(transcript)
      claude == ClaudeMessages(transcript)
      used(m)    == {b.id : b \in {x \in ToSet(m.blocks) : x.type = "tool_use"}}
      results(m) == {b.id : b \in {x \in ToSet(m.blocks) : x.type = "tool_result"}}
      flat   == FlattenSeq([i \in DOMAIN claude |->
                  [j \in DOMAIN claude[i].blocks |-> claude[i].blocks[j].id]])
      spread == FlattenSeq([i \in DOMAIN chat |->
                  IF chat[i].calls # <<>> THEN chat[i].calls ELSE <<chat[i].id>>])
      dropped == {transcript[i].id : i \in {j \in DOMAIN transcript : ~transcript[j].ok}}
  IN /\ \A i \in DOMAIN chat : chat[i].role = "tool" =>
          \E j \in 1..(i - 1) :
            /\ Contains(chat[j].calls, chat[i].id)
            /\ \A k \in (j + 1)..i : chat[k].role = "tool"
     /\ \A i \in DOMAIN chat : chat[i].calls # <<>> =>
          \A c \in ToSet(chat[i].calls) : \E k \in (i + 1)..Len(chat) :
            chat[k].role = "tool" /\ chat[k].id = c
     /\ \A i \in 1..(Len(claude) - 1) : claude[i].role # claude[i + 1].role
     /\ \A i \in DOMAIN claude :
          used(claude[i]) = IF i < Len(claude) THEN results(claude[i + 1]) ELSE {}
     /\ flat = SelectSeq(spread, LAMBDA x : x \notin dropped)
=============================================================================
