---------------------------- MODULE ConsoleDriver -----------------------------
(***************************************************************************)
(* The console loop `feather cli` (cli/__init__.py): three tasks of one    *)
(* event loop, the reader of the terminal, the driver that runs the lead,  *)
(* and the watcher that wakes it when its inbox has mail.  They share two  *)
(* queues, two events and the lead's input queue; a step here is what a    *)
(* task does between two awaits that really wait.                          *)
(***************************************************************************)
EXTENDS Naturals, Sequences, Functions

CONSTANTS
  MaxLines,       \* bound: lines the user types, numbered
  MaxMail,        \* bound: messages for the lead's inbox
  MaxQuestions,   \* bound: questions the lead asks
  Capacity        \* UserInputQueue(max_per_session)

VARIABLES
  stopped,      \* stop_event
  driver,       \* the driver: "idle", "wake", "run" or "answer" (runs), "await", "closed"
  newRuns,      \* new_run_queue: lines and Wake
  answer,       \* pending_answer
  busy,         \* busy_event
  awaiting,     \* awaiting_event
  inputQueue,   \* the lead's queue of the input typed while it runs
  inbox,        \* messages for the lead
  watcher,      \* the watcher: asleep, or what has_pending_inbox told it
  user          \* the user: lines typed, the question each answers, what the lead got

cdvars == <<stopped, driver, newRuns, answer, busy, awaiting, inputQueue, inbox, watcher, user>>

Wake  == 0
Lines == 1 .. MaxLines
InRun == {"wake", "run", "answer"}

Init ==
  /\ stopped = FALSE /\ driver = "idle" /\ newRuns = <<>> /\ answer = <<>>
  /\ busy = FALSE /\ awaiting = FALSE /\ inputQueue = <<>>
  /\ inbox = [waiting |-> 0, sent |-> 0] /\ watcher = "asleep"
  /\ user = [typed |-> 0, asked |-> 0, meant |-> [l \in Lines |-> 0],
             given |-> {}, dropped |-> {}, answered |-> {}]

-----------------------------------------------------------------------------
(* The reader. *)

\* Without the limit.
EnqueueUnbounded(l) ==
  /\ inputQueue' = Append(inputQueue, l) /\ user' = [user EXCEPT !.typed = l]
  /\ UNCHANGED <<newRuns, answer, awaiting>>

\* UserInputQueue.enqueue: the oldest line of a full queue goes.
Enqueue(l) ==
  LET full == Len(inputQueue) >= Capacity IN
  /\ inputQueue' = Append(IF full THEN Tail(inputQueue) ELSE inputQueue, l)
  /\ user' = [user EXCEPT !.typed = l,
                          !.dropped = IF full THEN @ \cup {Head(inputQueue)} ELSE @]
  /\ UNCHANGED <<newRuns, answer, awaiting>>

\* The line is for the question; if one is there already it is queued.
GiveAnswer(l) ==
  IF answer = <<>>
  THEN /\ answer' = <<l>> /\ awaiting' = FALSE
       /\ user' = [user EXCEPT !.typed = l, !.meant[l] = user.asked]
       /\ UNCHANGED <<newRuns, inputQueue>>
  ELSE Enqueue(l)

StartRun(l) ==
  /\ newRuns' = Append(newRuns, l) /\ user' = [user EXCEPT !.typed = l]
  /\ UNCHANGED <<answer, awaiting, inputQueue>>

\* A line: an answer, input for the run, or a new run.
Type ==
  LET l == user.typed + 1 IN
  /\ ~stopped /\ user.typed < MaxLines
  /\ IF awaiting THEN GiveAnswer(l) ELSE IF busy THEN Enqueue(l) ELSE StartRun(l)
  /\ UNCHANGED <<stopped, driver, busy, inbox, watcher>>

\* /exit, the end of the input.
Leave ==
  /\ ~stopped /\ stopped' = TRUE
  /\ UNCHANGED <<driver, newRuns, answer, busy, awaiting, inputQueue, inbox, watcher, user>>

-----------------------------------------------------------------------------
(* The driver. *)

Give(ls) == [user EXCEPT !.given = @ \cup ls]

\* The next line or wake: the lead runs.
Take ==
  /\ ~stopped /\ driver = "idle" /\ newRuns # <<>>
  /\ newRuns' = Tail(newRuns) /\ busy' = TRUE
  /\ driver' = IF Head(newRuns) = Wake THEN "wake" ELSE "run"
  /\ user' = Give({Head(newRuns)} \ {Wake})
  /\ UNCHANGED <<stopped, answer, awaiting, inputQueue, inbox, watcher>>

\* The top of a turn (AgentLoop): the queue and the inbox are drained.
Turn ==
  /\ driver \in InRun
  /\ inputQueue' = <<>> /\ user' = Give(Range(inputQueue))
  /\ inbox' = [inbox EXCEPT !.waiting = 0]
  /\ UNCHANGED <<stopped, driver, newRuns, answer, busy, awaiting, watcher>>

\* The finally of a run that ended, failed, or found no mail after all.
Finish ==
  /\ driver \in {"wake", "run", "answer"} /\ driver' = "idle"
  /\ busy' = FALSE /\ awaiting' = FALSE
  /\ UNCHANGED <<stopped, newRuns, answer, inputQueue, inbox, watcher, user>>

\* The run ended with a question.
AskUser ==
  /\ driver \in InRun /\ ~stopped /\ user.asked < MaxQuestions
  /\ driver' = "await" /\ awaiting' = TRUE
  /\ user' = [user EXCEPT !.asked = @ + 1]
  /\ UNCHANGED <<stopped, newRuns, answer, busy, inputQueue, inbox, watcher>>

TakeAnswer ==
  /\ driver = "await" /\ ~stopped /\ answer # <<>>
  /\ driver' = "answer" /\ answer' = <<>>
  /\ user' = [Give({Head(answer)}) EXCEPT !.answered = @ \cup {<<user.asked, Head(answer)>>}]
  /\ UNCHANGED <<stopped, newRuns, busy, awaiting, inputQueue, inbox, watcher>>

\* Only the first run of a line is inside a try: an exception of a run on an
\* answer ends the driver, and with it the console.
AnswerFails ==
  /\ driver = "answer" /\ driver' = "closed"
  /\ stopped' = TRUE /\ busy' = FALSE /\ awaiting' = FALSE
  /\ UNCHANGED <<newRuns, answer, inputQueue, inbox, watcher, user>>

\* run_cli ends: the tasks are cancelled, the runtime closed.
Close ==
  /\ stopped /\ driver # "closed" /\ driver' = "closed"
  /\ busy' = FALSE /\ awaiting' = FALSE /\ watcher' = "asleep"
  /\ UNCHANGED <<stopped, newRuns, answer, inputQueue, inbox, user>>

-----------------------------------------------------------------------------
(* The watcher, and the mail. *)

Arrives ==
  /\ driver # "closed" /\ inbox.sent < MaxMail
  /\ inbox' = [waiting |-> inbox.waiting + 1, sent |-> inbox.sent + 1]
  /\ UNCHANGED <<stopped, driver, newRuns, answer, busy, awaiting, inputQueue, watcher, user>>

\* Half a second later: nothing runs, and the store is asked.
Look ==
  /\ ~stopped /\ watcher = "asleep" /\ ~busy /\ ~awaiting
  /\ watcher' = IF inbox.waiting > 0 THEN "mail" ELSE "none"
  /\ UNCHANGED <<stopped, driver, newRuns, answer, busy, awaiting, inputQueue, inbox, user>>

\* The store has answered, meanwhile a run may have begun.
Put ==
  /\ driver # "closed" /\ watcher # "asleep" /\ watcher' = "asleep"
  /\ newRuns' = IF watcher = "mail" /\ newRuns = <<>> THEN <<Wake>> ELSE newRuns
  /\ UNCHANGED <<stopped, driver, answer, busy, awaiting, inputQueue, inbox, user>>

Next ==
  \/ Type \/ Leave
  \/ Take \/ Turn \/ Finish \/ AskUser \/ TakeAnswer \/ AnswerFails \/ Close
  \/ Arrives \/ Look \/ Put

Spec == Init /\ [][Next]_cdvars

-----------------------------------------------------------------------------
(* Every variable keeps its shape (cli/__init__.py:211-227). *)
TypeOK ==
  /\ driver \in InRun \cup {"idle", "await", "closed"}
  /\ Range(newRuns) \subseteq {Wake} \cup Lines /\ Len(newRuns) <= MaxLines + 1
  /\ Range(answer) \subseteq Lines /\ Len(answer) <= 1
  /\ Range(inputQueue) \subseteq Lines /\ Len(inputQueue) <= Capacity
  /\ user.given \subseteq Lines /\ watcher \in {"asleep", "mail", "none"}

\* An answer is taken by the question it was typed for, never by a later one,
\* and waits only while the driver waits for it; no line a user typed goes
\* missing while the console is open, but for the oldest of a full input queue
\* (cli/__init__.py:281-309, 388-406).
EachLineHasItsPlace ==
  /\ \A p \in user.answered : user.meant[p[2]] = p[1]
  /\ answer # <<>> => driver = "await" \/ stopped
  /\ 1 .. user.typed =
       user.given \cup user.dropped \cup Range(answer) \cup Range(inputQueue)
         \cup (Range(newRuns) \ {Wake})
=============================================================================
