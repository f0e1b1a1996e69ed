------------------------------ MODULE AgentLoop ------------------------------
(***************************************************************************)
(* One session of one agent (core/agent/base.py, conversation.py,          *)
(* compaction.py, core/session/, the session and messages tables): callers *)
(* of run and resume_on_inbox take turns on the session's lock; the loop   *)
(* drains the user's queue and the inbox, asks the provider, runs the      *)
(* tools it asks for, and compacts the history.  A step ends at an await   *)
(* that really waits.                                                      *)
(*                                                                         *)
(* What is tracked is which stored messages, tool calls and tool outputs   *)
(* a request carries, hence what the model has been told.  Items are       *)
(* records of three sets; their order and wording are left out.            *)
(***************************************************************************)
EXTENDS Naturals, Sequences, FiniteSets

CONSTANTS
  Callers,       \* coroutines that call run or resume_on_inbox
  Texts,         \* what users type: each text once, to run or to the queue
  Mail,          \* messages from other agents
  From,          \* From[m]: the sender of m \in Mail
  MaxQueue,      \* the bound of a UserInputQueue (64 in the code)
  MaxKeepAlive,  \* _MAX_KEEP_ALIVE_INJECTIONS (3 in the code)
  Answers,       \* with a text or not, with tool calls or not
  MaxTurns,      \* bound: answers of the provider in one behaviour
  Troubles,      \* what may go wrong, a change of the provider included
  MaxTroubles,   \* bound: how often something does
  None

ASSUME AgentLoopAssumption ==
  /\ MaxQueue \in Nat \ {0} /\ MaxKeepAlive \in Nat
  /\ Answers \subseteq BOOLEAN \X BOOLEAN
  /\ MaxTurns \in Nat /\ MaxTroubles \in Nat
  /\ Troubles \subseteq {"persist", "mark", "provider", "summary", "cancel", "crash", "swap"}
  /\ IsFiniteSet(Callers) /\ None \notin Callers \cup Texts \cup Mail \cup Nat

VARIABLES
  coord,     \* SessionRunCoordinator: the session's lock object, its references
  caller,    \* caller[c]: where coroutine c is in acquire()
  loop,      \* the locals of run_loop
  session,   \* the sessions row: cursor, pending_inputs
  known,     \* what the response the cursor names stands for, and whose it is
  turns,     \* answers of providers so far
  history,   \* the messages rows: all, those since the latest summary, those it covers
  queue,     \* the session's UserInputQueue
  inbox,     \* pending rows of agent_messages, oldest first
  stateful,  \* provider.stateful of the agents built now
  env,       \* what nobody typed or sent yet, and the troubles so far
  excused,   \* rows a run had and did not send, see NothingForgotten (history)
  cut        \* tool calls whose outputs a run had and did not send (history)

entry  == <<coord, caller>>
remote == <<session, known, turns>>
inputs == <<queue, inbox>>
losses == <<excused, cut>>
vars == <<entry, loop, remote, history, inputs, stateful, env, losses>>

Turns == 1..MaxTurns
Said(t) == <<"assistant", t>>      \* the ASSISTANT row of turn t
Did(t)  == <<"tool", t>>           \* the TOOL rows of turn t's calls
Rows == Texts \cup Mail \cup {Said(t) : t \in Turns} \cup {Did(t) : t \in Turns}

\* Input items of a request: messages, function_call and function_call_output
\* items; the calls of a turn and their outputs are named after the turn.
Items   == [rows : SUBSET Rows, calls : SUBSET Turns, outputs : SUBSET Turns]
NoItems == [rows |-> {}, calls |-> {}, outputs |-> {}]
Message(ms) == [rows |-> ms, calls |-> {}, outputs |-> {}]
Outputs(ts) == [rows |-> {}, calls |-> {}, outputs |-> ts]
Join(a, b)  == [rows |-> a.rows \cup b.rows, calls |-> a.calls \cup b.calls,
                outputs |-> a.outputs \cup b.outputs]

\* No transcript and an empty one are different things.
ASSUME NoneIsNoItems == None \notin Items

Told(i) == i.rows \cup {Did(t) : t \in i.outputs}

\* Calls without an output and outputs without a call: providers refuse both.
Mismatched(i) == (i.calls \ i.outputs) \cup (i.outputs \ i.calls)

TurnItems(t, text, calls) ==
  [rows |-> IF text THEN {Said(t)} ELSE {}, calls |-> IF calls THEN {t} ELSE {},
   outputs |-> {}]

HasStructuralContext(i) == i.rows # {} \/ i.calls # {}

-----------------------------------------------------------------------------
Away    == [at |-> "idle", kind |-> "run", lock |-> None, stateful |-> FALSE]
Nothing == [items |-> NoItems, stateful |-> FALSE]
NoLoop  == [at |-> "out", by |-> None, kind |-> "run", stateful |-> FALSE,
            items |-> NoItems, transcript |-> None, turn |-> 0, calls |-> FALSE,
            driven |-> TRUE, keep |-> 0, extra |-> 0, guarded |-> FALSE,
            after |-> "return", snapshot |-> {}]

Init ==
  /\ coord = [lock |-> None, refs |-> 0]
  /\ caller = [c \in Callers |-> Away]
  /\ loop = NoLoop
  /\ session = [cursor |-> None, pending |-> NoItems]
  /\ known = Nothing /\ turns = 0
  /\ history = [rows |-> {}, active |-> {}, summed |-> {}]
  /\ queue = <<>> /\ inbox = <<>>
  /\ stateful \in BOOLEAN
  /\ env = [unsent |-> Texts \cup Mail, troubles |-> 0]
  /\ excused = {} /\ cut = {}

Trouble(f) ==
  /\ f \in Troubles /\ env.troubles < MaxTroubles
  /\ env' = [env EXCEPT !.troubles = @ + 1]
NoTrouble == UNCHANGED env

Replay == Message(history.active \cup history.summed)
AddRows(rs) == history' = [history EXCEPT !.rows = @ \cup rs, !.active = @ \cup rs]

InitialItemsNoPending(keeps) ==
  IF keeps /\ session.cursor # None THEN NoItems ELSE Replay

\* run() replays the history when neither the provider nor the saved inputs
\* hold it.
Replays(keeps) == IF keeps THEN session.cursor = None
                           ELSE ~HasStructuralContext(session.pending)

\* What run() starts from besides the new message.
InitialItems(keeps) ==
  IF Replays(keeps) THEN Join(session.pending, Replay) ELSE session.pending

\* What the provider works from when it is sent these items.
Seen(keeps, items) ==
  IF keeps /\ session.cursor # None THEN Join(known.items, items) ELSE items

\* The cursor is a response id of a provider of the other kind: rebuild_agent
\* keeps it, and a provider with server-side state does not know it.
Foreign(keeps) == session.cursor # None /\ known.stateful # keeps

-----------------------------------------------------------------------------
(* The users, the peers and the configuration. *)

\* A full queue loses its oldest text.
Push(m) == queue' = Append(IF Len(queue) >= MaxQueue THEN Tail(queue) ELSE queue, m)

Spend(m) == m \in env.unsent /\ env' = [env EXCEPT !.unsent = @ \ {m}]

Enqueue(m) ==
  /\ Spend(m) /\ Push(m)
  /\ UNCHANGED <<entry, loop, remote, history, inbox, stateful, losses>>

Deliver(m) ==
  /\ Spend(m) /\ inbox' = Append(inbox, m)
  /\ UNCHANGED <<entry, loop, remote, history, queue, stateful, losses>>

SwapProvider ==
  /\ Trouble("swap")
  /\ stateful' = ~stateful
  /\ UNCHANGED <<entry, loop, remote, history, inputs, losses>>

-----------------------------------------------------------------------------
(* SessionRunCoordinator.acquire: the reference is taken before the wait.  *)
(* Waiters are admitted in any order here, in arrival order by asyncio.    *)

LockObjects == 0..Cardinality(Callers)
UnusedLock == CHOOSE l \in LockObjects : \A c \in Callers : caller[c].lock # l

Inside == {c \in Callers : caller[c].at = "in"}
Free(lock) == \A c \in Inside : caller[c].lock # lock

Call(c, kind) ==
  LET lock == IF coord.lock = None THEN UnusedLock ELSE coord.lock
  IN /\ caller[c].at = "idle"
     /\ coord' = [lock |-> lock, refs |-> coord.refs + 1]
     /\ caller' = [caller EXCEPT ![c] =
          [at |-> "waiting", kind |-> kind, lock |-> lock, stateful |-> stateful]]
     /\ UNCHANGED <<loop, remote, history, inputs, stateful, env, losses>>

ReleaseAlwaysEvicts(c) ==
  /\ coord' = [lock |-> None, refs |-> 0]
  /\ caller' = [caller EXCEPT ![c] = Away]

\* The entry is evicted with its last reference.
Release(c) ==
  /\ coord' = IF coord.refs = 1 THEN [lock |-> None, refs |-> 0]
              ELSE [coord EXCEPT !.refs = @ - 1]
  /\ caller' = [caller EXCEPT ![c] = Away]

Admitted(c, kind) ==
  caller[c].at = "waiting" /\ caller[c].kind = kind /\ Free(caller[c].lock)

Enter(c, items, transcript) ==
  /\ caller' = [caller EXCEPT ![c].at = "in"]
  /\ loop' = [NoLoop EXCEPT !.at = "top", !.by = c, !.kind = caller[c].kind,
                            !.stateful = caller[c].stateful,
                            !.items = items, !.transcript = transcript]
  /\ UNCHANGED <<coord, remote, inputs, stateful, losses>>

\* run: initial items first, then the new row, which they do not include.
BeginRun(c, m) ==
  /\ Admitted(c, "run") /\ Spend(m)
  /\ Enter(c, Join(InitialItems(caller[c].stateful), Message({m})), None)
  /\ AddRows({m})

\* The text is empty, its row or attachments cannot be stored (what was stored
\* is discarded), or the wait is cancelled: the caller gets the exception.
RefuseRun(c) ==
  /\ \/ Admitted(c, "run") /\ NoTrouble
     \/ caller[c].at = "waiting" /\ Trouble("cancel")
  /\ Release(c)
  /\ UNCHANGED <<loop, remote, history, inputs, stateful, losses>>

\* resume_on_inbox: only with mail, and without the session's pending inputs.
BeginResume(c) ==
  /\ Admitted(c, "resume") /\ inbox # <<>>
  /\ Enter(c, NoItems, IF caller[c].stateful THEN None ELSE Replay)
  /\ UNCHANGED <<history, env>>

NothingToResume(c) ==
  /\ Admitted(c, "resume") /\ inbox = <<>>
  /\ Release(c)
  /\ UNCHANGED <<loop, remote, history, inputs, stateful, env, losses>>

-----------------------------------------------------------------------------
(* run_loop.  A run ends through Return, or is broken off and ends there.  *)

At(pc) == loop.at = pc

Goto(pc) == loop' = [loop EXCEPT !.at = pc]

\* Calls whose outputs the run has in hand, or would have had.
HeldCalls ==
  (loop.items.outputs \cup IF loop.calls /\ loop.at \in {"record", "tools"}
                          THEN {loop.turn} ELSE {}) \ session.pending.outputs

Return == loop' = NoLoop /\ Release(loop.by) /\ UNCHANGED losses

GiveUp(taken) ==
  /\ loop' = NoLoop /\ Release(loop.by)
  /\ excused' = excused \cup Told(loop.items) \cup taken
  /\ cut' = cut \cup HeldCalls

\* The queue is emptied first; a text whose row cannot be stored is dropped.
DrainQueue ==
  /\ loop.at \in {"top", "late"}
  /\ LET taken == {queue[i] : i \in DOMAIN queue} IN
     \E stored \in SUBSET taken :
       /\ IF stored = taken THEN NoTrouble ELSE Trouble("persist")
       /\ AddRows(stored)
       /\ loop' = [loop EXCEPT !.items = Join(@, Message(stored)),
                    !.at = IF @ = "top" THEN "inbox" ELSE "lateinbox"]
  /\ queue' = <<>>
  /\ UNCHANGED <<entry, remote, inbox, stateful, losses>>

OldestGroup ==
  {m \in {inbox[i] : i \in DOMAIN inbox} : From[m] = From[Head(inbox)]}

\* One sender's messages become one stored row and one item.  An error before
\* the row is stored leaves the inbox as it was, one of the mark too.
TakeInbox(ms) ==
  /\ AddRows(ms)
  /\ \/ /\ ms = (IF inbox = <<>> THEN {} ELSE OldestGroup)
        /\ inbox' = SelectSeq(inbox, LAMBDA m : m \notin ms)
        /\ NoTrouble
     \/ inbox # <<>> /\ ms = {} /\ Trouble("persist") /\ UNCHANGED inbox
     \/ inbox # <<>> /\ ms = OldestGroup /\ Trouble("mark") /\ UNCHANGED inbox

DrainInbox ==
  /\ At("inbox")
  /\ \E ms \in SUBSET Mail :
       /\ TakeInbox(ms)
       /\ IF ms # {} /\ loop.keep >= MaxKeepAlive
          THEN GiveUp(ms)
          ELSE /\ loop' = [loop EXCEPT !.at = "send",
                             !.items = Join(@, Message(ms)),
                             !.keep = IF ms # {} THEN @ + 1 ELSE @]
               /\ UNCHANGED <<entry, losses>>
  /\ UNCHANGED <<remote, queue, stateful>>

KeepAliveUncounted(items) ==
  loop' = IF items = NoItems THEN [loop EXCEPT !.at = "guard"]
          ELSE [loop EXCEPT !.at = "compact", !.after = "continue", !.items = items]

\* What arrived while the model was wrapping up keeps the loop going.
KeepAlive(items) ==
  loop' = IF items = NoItems THEN [loop EXCEPT !.at = "guard"]
          ELSE [loop EXCEPT !.at = "compact", !.after = "continue", !.items = items,
                            !.keep = @ + 1]

LateInbox ==
  /\ At("lateinbox")
  /\ \E ms \in SUBSET Mail :
       TakeInbox(ms) /\ KeepAlive(Join(loop.items, Message(ms)))
  /\ UNCHANGED <<entry, remote, queue, stateful, losses>>

\* provider_request: the new items, or the whole transcript of the run.
Sent ==
  IF loop.stateful \/ loop.transcript = None THEN loop.items
  ELSE Join(loop.transcript, loop.items)

\* The cursor is read again before every request, but only run() replays: the
\* turn after a compaction within a run, and resume_on_inbox, go out with
\* neither cursor nor history.
Unreplayed ==
  IF loop.stateful /\ session.cursor = None /\ (loop.turn > 0 \/ loop.kind = "resume")
  THEN Replay.rows ELSE {}

\* The request is under way until the answer; its items count as unsent so long.
Send ==
  /\ At("send")
  /\ loop' = [loop EXCEPT !.at = "reply", !.extra = IF loop.driven THEN @ + 1 ELSE @]
  /\ excused' = excused \cup Unreplayed
  /\ UNCHANGED <<entry, remote, history, inputs, stateful, env, cut>>

Asked == Seen(loop.stateful, Sent)

\* A request is refused when calls and outputs do not pair, or for its cursor.
Refused == Mismatched(Asked) # {} \/ (loop.stateful /\ Foreign(TRUE))

Reply(text, calls) ==
  LET t == turns + 1
      made == TurnItems(t, text, calls)
  IN /\ At("reply") /\ ~Refused /\ t <= MaxTurns
     /\ turns' = t
     /\ known' = [items |-> Join(Asked, made), stateful |-> loop.stateful]
     /\ session' = [cursor |-> t, pending |-> NoItems]
     /\ loop' = [loop EXCEPT !.at = "record", !.turn = t, !.calls = calls,
                   !.items = NoItems,
                   !.transcript = IF loop.stateful THEN None ELSE Join(Sent, made)]
     /\ UNCHANGED <<entry, history, inputs, stateful, env, losses>>

ProviderFails ==
  /\ At("reply")
  /\ \/ (Refused \/ turns = MaxTurns) /\ NoTrouble
     \/ Trouble("provider")
  /\ GiveUp({})
  /\ UNCHANGED <<remote, history, inputs, stateful>>

Record ==
  /\ At("record")
  /\ AddRows(known.items.rows \cap {Said(loop.turn)})
  /\ Goto(IF loop.calls THEN "tools"
          ELSE IF loop.keep < MaxKeepAlive THEN "late" ELSE "guard")
  /\ UNCHANGED <<entry, remote, inputs, stateful, env, losses>>

\* Every call gets an output and a row, failed tools included; a tool that asks
\* the user a question pauses the run.
ExecuteTools(question) ==
  /\ At("tools")
  /\ AddRows({Did(loop.turn)})
  /\ loop' = [loop EXCEPT !.at = IF question THEN "pause" ELSE "top",
                !.items = Outputs({loop.turn}), !.calls = FALSE, !.driven = FALSE]
  /\ UNCHANGED <<entry, remote, inputs, stateful, env, losses>>

PausePayload ==
  IF loop.stateful THEN loop.items ELSE Join(loop.transcript, loop.items)

Pause ==
  /\ At("pause")
  /\ session' = [session EXCEPT !.pending = PausePayload]
  /\ Return
  /\ UNCHANGED <<known, turns, history, inputs, stateful, env>>

\* Once per run, while tasks this session gave to others are running.
CompletionGuard(outstanding) ==
  /\ At("guard")
  /\ loop' = IF outstanding /\ ~loop.guarded
             THEN [loop EXCEPT !.at = "top", !.guarded = TRUE, !.driven = TRUE]
             ELSE [loop EXCEPT !.at = "compact", !.after = "return"]
  /\ UNCHANGED <<entry, remote, history, inputs, stateful, env, losses>>

\* After maybe_compact, whose errors are only logged.
Compacted ==
  IF loop.after = "return" THEN Return
  ELSE /\ loop' = [loop EXCEPT !.at = "top", !.driven = TRUE]
       /\ UNCHANGED <<entry, losses>>

SkipCompaction ==
  /\ \/ At("compact") /\ NoTrouble
     \/ loop.at \in {"summarise", "reset"} /\ Trouble("summary")
  /\ Compacted
  /\ UNCHANGED <<remote, history, inputs, stateful>>

\* The history is rendered, then the model writes the summary.
StartCompaction ==
  /\ At("compact") /\ history.active # {}
  /\ loop' = [loop EXCEPT !.at = "summarise", !.snapshot = Replay.rows]
  /\ UNCHANGED <<entry, remote, history, inputs, stateful, env, losses>>

SummariseActive ==
  history' = [history EXCEPT !.active = {}, !.summed = loop.snapshot \ @]

\* The summary's row has the highest sequence number: all before it leave the
\* active history, and what the summary covers is what was rendered for it.
Summarise == history' = [history EXCEPT !.active = {}, !.summed = loop.snapshot]

StoreSummary ==
  /\ At("summarise")
  /\ Summarise /\ Goto("reset")
  /\ UNCHANGED <<entry, remote, inputs, stateful, env, losses>>

ResetCursor ==
  /\ At("reset")
  /\ session' = [session EXCEPT !.cursor = None]
  /\ known' = Nothing
  /\ Compacted
  /\ UNCHANGED <<turns, history, inputs, stateful, env>>

Interrupt ==
  /\ ~At("out") /\ Trouble("cancel")
  /\ GiveUp({})
  /\ UNCHANGED <<remote, history, inputs, stateful>>

Crash ==
  /\ Trouble("crash")
  /\ coord' = [lock |-> None, refs |-> 0]
  /\ caller' = [c \in Callers |-> Away]
  /\ loop' = NoLoop /\ queue' = <<>>
  /\ excused' = excused \cup Told(loop.items)
  /\ cut' = cut \cup HeldCalls
  /\ UNCHANGED <<remote, history, inbox, stateful>>

-----------------------------------------------------------------------------
RunLoop ==
  \/ DrainQueue \/ DrainInbox \/ Send \/ ProviderFails
  \/ \E a \in Answers : Reply(a[1], a[2])
  \/ Record \/ LateInbox \/ Pause \/ Interrupt
  \/ \E question \in BOOLEAN : ExecuteTools(question)
  \/ \E outstanding \in BOOLEAN : CompletionGuard(outstanding)
  \/ SkipCompaction \/ StartCompaction \/ StoreSummary \/ ResetCursor

Next ==
  \/ \E m \in Texts : Enqueue(m)
  \/ \E m \in Mail : Deliver(m)
  \/ SwapProvider \/ Crash
  \/ \E c \in Callers :
       \/ \E kind \in {"run", "resume"} : Call(c, kind)
       \/ \E m \in Texts : BeginRun(c, m)
       \/ RefuseRun(c) \/ BeginResume(c) \/ NothingToResume(c)
  \/ RunLoop

Spec == Init /\ [][Next]_vars

-----------------------------------------------------------------------------
(* Properties. *)

\* Every variable has the shape the code gives it, and a text that waits in the
\* queue is not stored yet.
TypeOK ==
  /\ coord \in [lock : LockObjects \cup {None}, refs : 0..Cardinality(Callers)]
  /\ caller \in [Callers -> [at : {"idle", "waiting", "in"}, kind : {"run", "resume"},
                             lock : LockObjects \cup {None}, stateful : BOOLEAN]]
  /\ loop.items \in Items /\ loop.transcript \in Items \cup {None}
  /\ loop.keep \in 0..MaxKeepAlive /\ loop.turn \in 0..MaxTurns
  /\ session.cursor \in {None} \cup 1..turns /\ session.pending \in Items
  /\ history \in [{"rows", "active", "summed"} -> SUBSET Rows]
  /\ queue \in Seq(Texts) /\ Len(queue) <= MaxQueue /\ inbox \in Seq(Mail)
  /\ \A i \in DOMAIN queue : queue[i] \notin env.unsent \cup history.rows
  /\ excused \subseteq Rows /\ cut \subseteq Turns

\* Two turns of a session never overlap, whoever starts, ends or is cancelled
\* while others wait (SessionRunCoordinator: "a fresh lock object after
\* eviction is safe because nothing references the old one").
OneTurnAtATime ==
  /\ Cardinality(Inside) <= 1
  /\ \A c \in Callers : caller[c].at # "idle" => caller[c].lock = coord.lock

Quiet == Inside = {}

\* What the next run() would tell the provider besides its new message.
NextSeen == Seen(stateful, InitialItems(stateful))

\* Between runs, everything stored in the session reaches the model with the
\* next message: whenever the history is replayed, without exception, whatever
\* was interrupted, compacted, swapped or killed before.  As long as the cursor
\* or saved inputs stand for the history, it lacks what a broken-off or bounded
\* run had taken and not sent and what a request without a replay left out, as
\* one does after a compaction, and nothing else (MailIsTold).
NothingForgotten ==
  Quiet /\ ~(stateful /\ Foreign(TRUE)) =>
    history.rows \subseteq
      Told(NextSeen) \cup (IF Replays(stateful) THEN {} ELSE excused)

\* "If the lead is killed mid-conversation, restarting it re-drains the same
\* inbox and continues" (architecture.md:174): mail taken from the inbox is in
\* the conversation by the next message at the latest.  Not what a run had that
\* was killed, nor what the drain took that met the keep-alive limit, nor what
\* the request after a compaction left out.
MailIsTold ==
  Quiet /\ ~(stateful /\ Foreign(TRUE)) =>
    Mail \cap history.rows \subseteq Told(NextSeen)

\* Between runs, every tool call the provider knows has its output in the saved
\* inputs, unless a run was broken off between the two (cut): a paused session
\* can always be continued, whatever wakes it first.
CallsAnswered ==
  Quiet /\ ~Foreign(stateful) => Mismatched(NextSeen) \subseteq cut

\* Peers and users that keep writing cannot keep a run going: the turns of a
\* run that no tool call caused are bounded.
ExternalTurnsBounded == loop.extra <= MaxKeepAlive + 2
=============================================================================
