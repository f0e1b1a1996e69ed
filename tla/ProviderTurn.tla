----------------------------- MODULE ProviderTurn -----------------------------
(***************************************************************************)
(* One complete() of a provider: OpenAI Responses (openai_provider.py),    *)
(* OpenRouter chat completions (openrouter_provider.py) and Claude         *)
(* messages (claude_provider.py).  The stream is read event by event and   *)
(* its text shown as it arrives; a failure is retried, handed to the       *)
(* fallback model, or raised.  Waiting times, headers and the wording of   *)
(* errors are left out; a stream carries at most one tool call.            *)
(***************************************************************************)
EXTENDS Naturals

CONSTANTS
  MaxAttempts,  \* max_attempts of the configuration
  MaxText       \* bound: text deltas of one stream

VARIABLES
  api,      \* which provider, and whether fallback_models is configured
  turn,     \* where the call is: attempt, model, whether routing was widened
  stream,   \* what the open stream has delivered
  shown     \* text deltas given to the event handler; a timeout after one

pvars == <<api, turn, stream, shown>>

NoCall == [seen |-> FALSE, name |-> FALSE, args |-> "none"]
Fresh  == [begun |-> FALSE, text |-> 0, call |-> NoCall, final |-> FALSE]

Init ==
  /\ api \in [name : {"openai", "claude"}, fallback : {FALSE}]
             \cup [name : {"openrouter"}, fallback : BOOLEAN]
  /\ turn = [at |-> "open", attempt |-> 1, model |-> "primary", widened |-> FALSE]
  /\ stream = Fresh
  /\ shown = [text |-> 0, stalled |-> FALSE]

OpenRouter == api.name = "openrouter"

-----------------------------------------------------------------------------
(* Giving up, and trying again. *)

Raise == turn' = [turn EXCEPT !.at = "raised"]

\* The attempts' loop; OpenAI's client has none.
RetryOrRaise ==
  IF api.name # "openai" /\ turn.attempt < MaxAttempts
  THEN turn' = [turn EXCEPT !.at = "open", !.attempt = @ + 1]
  ELSE Raise

\* After the attempts of a timeout: the first fallback model, with attempts and
\* routing of its own.
RetryOrFallBack ==
  IF turn.attempt = MaxAttempts /\ api.fallback /\ turn.model = "primary"
  THEN turn' = [at |-> "open", attempt |-> 1, model |-> "fallback", widened |-> FALSE]
  ELSE RetryOrRaise

-----------------------------------------------------------------------------
(* Before the stream. *)

Opens ==
  /\ turn.at = "open"
  /\ turn' = [turn EXCEPT !.at = "stream"] /\ stream' = Fresh
  /\ UNCHANGED <<api, shown>>

\* "final": 400, 401, 402, 403 and the like; "busy": the retryable ones.
Refused(status) ==
  /\ turn.at = "open"
  /\ CASE status = "final" -> Raise
       [] status = "busy" -> RetryOrRaise
  /\ UNCHANGED <<api, stream, shown>>

\* 503 of OpenRouter drops the restrictive routing keys, once.
NoProvider ==
  /\ turn.at = "open" /\ OpenRouter
  /\ turn' = IF turn.attempt < MaxAttempts
             THEN [turn EXCEPT !.attempt = @ + 1, !.widened = TRUE]
             ELSE [turn EXCEPT !.at = "raised"]
  /\ UNCHANGED <<api, stream, shown>>

-----------------------------------------------------------------------------
(* The stream. *)

Reading == turn.at = "stream" /\ ~stream.final

\* Claude stops reading at message_stop; the others read to the end.
Waiting == turn.at = "stream" /\ (api.name = "claude" => ~stream.final)

Begins ==
  /\ Reading /\ ~stream.begun
  /\ stream' = [stream EXCEPT !.begun = TRUE]
  /\ UNCHANGED <<api, turn, shown>>

Text ==
  /\ Reading /\ stream.begun /\ stream.text < MaxText
  /\ stream' = [stream EXCEPT !.text = @ + 1]
  /\ shown' = [shown EXCEPT !.text = @ + 1]
  /\ UNCHANGED <<api, turn>>

\* A fragment of the call: its name latches, its arguments grow.
Fragment(name, args) ==
  /\ Reading /\ stream.begun /\ stream.call.args # "whole"
  /\ name \/ args # stream.call.args
  /\ stream.call.args = "part" => args # "none"
  /\ stream' = [stream EXCEPT !.call = [seen |-> TRUE, name |-> @.name \/ name, args |-> args]]
  /\ UNCHANGED <<api, turn, shown>>

Final ==
  /\ Reading /\ stream.begun
  /\ stream' = [stream EXCEPT !.final = TRUE]
  /\ UNCHANGED <<api, turn, shown>>

\* Nothing has come of a turn; no call has, though text may.
CleanOfCalls == ~stream.call.seen

Clean == stream.text = 0 /\ ~stream.call.seen

\* response.failed, response.incomplete, event: error, finish_reason "error".
\* OpenRouter's transient ones are retried as long as nothing has come.
ErrorEvent(transient) ==
  /\ Waiting
  /\ IF OpenRouter /\ transient /\ Clean THEN RetryOrRaise ELSE Raise
  /\ UNCHANGED <<api, stream, shown>>

\* No byte within the idle budget, or the whole stream out of time.
TimesOut ==
  /\ Waiting
  /\ shown' = [shown EXCEPT !.stalled = @ \/ stream.text > 0]
  /\ IF OpenRouter THEN RetryOrFallBack ELSE Raise
  /\ UNCHANGED <<api, stream>>

WholeCall == stream.call.name /\ stream.call.args # "part"

\* Is the stream, now at its end, a turn?  OpenRouter makes up a missing
\* finish_reason if the calls are whole, or if there is text alone.
Accepted ==
  CASE api.name = "openai" -> stream.final
    [] api.name = "claude" -> stream.begun
    [] OpenRouter -> \/ stream.final
                     \/ stream.call.seen /\ WholeCall
                     \/ ~stream.call.seen /\ stream.text > 0

Ends ==
  /\ turn.at = "stream"
  /\ turn' = [turn EXCEPT !.at = IF Accepted THEN "returned" ELSE "raised"]
  /\ UNCHANGED <<api, stream, shown>>

Next ==
  \/ Opens \/ NoProvider \/ Begins \/ Text \/ Final \/ TimesOut \/ Ends
  \/ \E status \in {"final", "busy"} : Refused(status)
  \/ \E name \in BOOLEAN, args \in {"none", "part", "whole"} : Fragment(name, args)
  \/ \E transient \in BOOLEAN : ErrorEvent(transient)

Spec == Init /\ [][Next]_pvars

-----------------------------------------------------------------------------
(* Every variable keeps its shape (openrouter_provider.py:496-513). *)
TypeOK ==
  /\ turn.at \in {"open", "stream", "returned", "raised"}
  /\ turn.attempt \in 1..MaxAttempts /\ turn.model \in {"primary", "fallback"}
  /\ stream.text \in 0..MaxText /\ stream.call.args \in {"none", "part", "whole"}
  /\ shown.text \in Nat /\ shown.stalled \in BOOLEAN

\* The text of a returned turn is the text that was shown, whatever was retried
\* before: only a stream that timed out after some of its text had come is read
\* again with that text on the screen (openrouter_provider.py:499-601; 843-866,
\* "retrying would duplicate caller-visible side effects").
ReturnsWhatWasShown ==
  turn.at = "returned" => shown.stalled \/ shown.text = stream.text
=============================================================================
