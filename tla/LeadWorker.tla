------------------------------ MODULE LeadWorker ------------------------------
(***************************************************************************)
(* A lead that runs in a worker process: the driver of the terminal UI     *)
(* (tui/app.py), the LeadSupervisor that owns the process, the worker's    *)
(* pumps (worker_core.py), the restart watcher and /restart-lead.  A       *)
(* command goes down the worker's stdin; its result comes back as an event *)
(* without an id, on a queue that run, a configuration reload and shutdown *)
(* all read.  A step ends at an await that really waits; streamed events   *)
(* and the drawing of the screen are left out.                             *)
(***************************************************************************)
EXTENDS Naturals, Sequences, FiniteSets

CONSTANTS
  MaxTexts,     \* bound: how often the user types a text
  MaxRuns,      \* bound: runs and resumes the driver starts
  Troubles,     \* what may happen besides: restarts, reloads, failures
  MaxTroubles   \* bound: how often something of it does

ASSUME LeadWorkerAssumption ==
  /\ MaxTexts \in Nat /\ MaxRuns \in Nat /\ MaxTroubles \in Nat
  /\ Troubles \subseteq {"restart-lead", "request_restart", "reload", "other lead",
                         "worker dies", "worker hangs", "spawn fails", "store fails"}

VARIABLES
  tui,        \* "up", "closing" (on_unmount), "gone"
  lead,       \* PerLeadState: queues and events, and where its driver is
  sup,        \* LeadSupervisor
  restarter,  \* where each caller of restart() or shutdown() is
  reload,     \* request_config_reload: where it is, its correlation id
  worker,     \* worker[g]: the g-th process
  flag,       \* sessions.restart_requested_at
  inbox,      \* the session has pending messages
  env,        \* texts typed and troubles so far
  seen        \* history: last result, interrupts, restarts begun, last request

vars == <<tui, lead, sup, restarter, reload, worker, flag, inbox, env, seen>>

Workers    == 1..(1 + MaxTroubles)
Restarters == {"slash", "watcher", "exit"}
Runs       == 1..MaxRuns
Commands   == [kind : {"run", "resume"}, id : Runs]
              \cup [kind : {"reload"}, id : 1..MaxTroubles]
              \cup [kind : {"input", "shutdown"}, id : {0}]
\* "ended" is _run_complete and _run_failed, "asks" a run that awaits the user.
Events     == [kind : {"ended", "asks"}, id : Runs]
              \cup [kind : {"reloaded"}, id : 1..MaxTroubles]
              \cup [kind : {"ack", "eof"}, id : {0}]
Ends       == {"ended", "asks"}

NotSpawned == [up |-> "no", pipe |-> <<>>, eof |-> FALSE, stop |-> FALSE,
               cmds |-> <<>>, inputs |-> 0, run |-> 0]
Spawned    == [NotSpawned EXCEPT !.up = "yes"]
Alive(g)   == worker[g].up \in {"yes", "hung", "leaving"}
Steps(g)   == worker[g].up = "yes"

Init ==
  /\ tui = "up"
  /\ lead = [queue |-> <<>>, answer |-> FALSE, busy |-> FALSE, awaiting |-> FALSE,
             at |-> "idle", run |-> "run", id |-> 0, shown |-> TRUE]
  /\ sup = [handle |-> 1, closed |-> FALSE, events |-> <<>>, spawned |-> 1]
  /\ restarter = [r \in Restarters |-> "off"]
  /\ reload = [at |-> "off", id |-> 0]
  /\ worker = [g \in Workers |-> IF g = 1 THEN Spawned ELSE NotSpawned]
  /\ flag = FALSE /\ inbox = FALSE
  /\ env = [texts |-> 0, troubles |-> 0]
  /\ seen = [asked |-> 0, got |-> 0, interrupted |-> FALSE,
             wasInterrupted |-> FALSE, restarts |-> 0,
             request |-> 0, late |-> FALSE]

Trouble(f) ==
  /\ f \in Troubles /\ env.troubles < MaxTroubles
  /\ env' = [env EXCEPT !.troubles = @ + 1]

-----------------------------------------------------------------------------
(* The supervisor's queue, lock and pipe. *)

RunLockFree == lead.at \notin {"wait", "stranded"} /\ reload.at \notin {"wait", "stranded"}

\* _require_handle, and stdin still open.
Usable == sup.handle # 0 /\ ~sup.closed
Open   == sup.handle # 0 /\ Alive(sup.handle) /\ ~worker[sup.handle].eof

Write(kind, id) ==
  worker' = [worker EXCEPT ![sup.handle].pipe = Append(@, [kind |-> kind, id |-> id])]

\* The reader task hands what worker g prints to the queue, while it runs.
Emit(g, kind, id) ==
  sup' = [sup EXCEPT !.events = IF sup.handle = g
                                THEN Append(@, [kind |-> kind, id |-> id]) ELSE @]

Next1 == Head(sup.events)
TakeEvent == sup.events # <<>> /\ sup' = [sup EXCEPT !.events = Tail(@)]

-----------------------------------------------------------------------------
(* The driver and the user. *)

Idle(l) == [l EXCEPT !.at = "idle", !.busy = FALSE, !.awaiting = FALSE]

\* What becomes of a text depends on what the screen says the lead does.
Type ==
  /\ tui = "up" /\ lead.shown /\ env.texts < MaxTexts
  /\ env' = [env EXCEPT !.texts = @ + 1]
  /\ \/ /\ lead.awaiting /\ ~lead.answer
        /\ lead' = [lead EXCEPT !.answer = TRUE, !.awaiting = FALSE]
        /\ UNCHANGED worker
     \/ /\ IF lead.awaiting THEN lead.answer ELSE lead.busy
        /\ IF Usable /\ Open THEN Write("input", 0) ELSE UNCHANGED worker
        /\ UNCHANGED lead
     \/ /\ ~lead.awaiting /\ ~lead.busy
        /\ lead' = [lead EXCEPT !.queue = Append(@, "run")]
        /\ UNCHANGED worker
  /\ UNCHANGED <<tui, sup, restarter, reload, flag, inbox, seen>>

Wake ==
  /\ tui = "up" /\ inbox /\ ~lead.busy /\ ~lead.awaiting /\ lead.queue = <<>>
  /\ lead' = [lead EXCEPT !.queue = <<"resume">>]
  /\ UNCHANGED <<tui, sup, restarter, reload, worker, flag, inbox, env, seen>>

DriverTakes ==
  /\ lead.at = "idle" /\ lead.queue # <<>> /\ lead.id < MaxRuns
  /\ lead' = [lead EXCEPT !.at = "lock", !.run = Head(lead.queue),
                          !.queue = Tail(@), !.busy = TRUE]
  /\ UNCHANGED <<tui, sup, restarter, reload, worker, flag, inbox, env, seen>>

\* run() and resume_on_inbox(), once they have the run lock.
StartRun ==
  /\ lead.at = "lock" /\ RunLockFree
  /\ IF Usable /\ Open
     THEN /\ lead' = [lead EXCEPT !.at = "wait", !.id = @ + 1]
          /\ Write(lead.run, lead.id + 1)
     ELSE lead' = Idle(lead) /\ UNCHANGED worker
  /\ UNCHANGED <<tui, sup, restarter, reload, flag, inbox, env, seen>>

RunReads ==
  /\ lead.at = "wait" /\ TakeEvent
  /\ lead' = CASE Next1.kind \in {"ended", "eof"} -> Idle(lead)
               [] Next1.kind = "asks" -> [lead EXCEPT !.at = "answer", !.awaiting = TRUE]
               [] OTHER -> lead
  /\ seen' = IF Next1.kind \in Ends
             THEN [seen EXCEPT !.asked = lead.id, !.got = Next1.id,
                                 !.wasInterrupted = seen.interrupted] ELSE seen
  /\ UNCHANGED <<tui, restarter, reload, worker, flag, inbox, env>>

DriverAnswers ==
  /\ lead.at = "answer" /\ lead.answer /\ lead.id < MaxRuns
  /\ lead' = [lead EXCEPT !.at = "lock", !.run = "run", !.answer = FALSE]
  /\ UNCHANGED <<tui, sup, restarter, reload, worker, flag, inbox, env, seen>>

\* Cancelling the run task ends the wait, not the worker's run.
Cancelled ==
  /\ lead' = Idle(lead)
  /\ seen' = [seen EXCEPT !.interrupted = @ \/ lead.at \in {"wait", "stranded"}]

HasRunTask == lead.at \in {"lock", "wait", "stranded"}

Interrupt ==
  /\ tui = "up" /\ lead.shown /\ HasRunTask /\ Cancelled
  /\ UNCHANGED <<tui, sup, restarter, reload, worker, flag, inbox, env>>

\* The user turns to another lead, and later back.
SwitchLead ==
  /\ tui = "up"
  /\ \/ lead.shown /\ Trouble("other lead")
     \/ ~lead.shown /\ UNCHANGED env
  /\ lead' = [lead EXCEPT !.shown = ~@]
  /\ UNCHANGED <<tui, sup, restarter, reload, worker, flag, inbox, seen>>

-----------------------------------------------------------------------------
(* Configuration reloads. *)

StartReload ==
  /\ tui = "up" /\ reload.at = "off" /\ Trouble("reload")
  /\ RunLockFree /\ Usable /\ Open
  /\ reload' = [at |-> "wait", id |-> reload.id + 1]
  /\ Write("reload", reload.id + 1)
  /\ UNCHANGED <<tui, lead, sup, restarter, flag, inbox, seen>>

\* Anything but its own acknowledgement is thrown away.
ReloadReads ==
  /\ reload.at = "wait" /\ TakeEvent
  /\ reload' = IF Next1.kind = "eof" \/ Next1 = [kind |-> "reloaded", id |-> reload.id]
               THEN [reload EXCEPT !.at = "off"] ELSE reload
  /\ UNCHANGED <<tui, lead, restarter, worker, flag, inbox, env, seen>>

ReloadTimesOut ==
  /\ reload.at \in {"wait", "stranded"}
  /\ reload' = [reload EXCEPT !.at = "off"]
  /\ UNCHANGED <<tui, lead, sup, restarter, worker, flag, inbox, env, seen>>

-----------------------------------------------------------------------------
(* The worker. *)

PumpToTheEnd(g) ==
  LET w == worker[g]
  IN /\ Steps(g) /\ ~w.stop
     /\ \/ /\ w.pipe # <<>> /\ Head(w.pipe).kind = "input"
           /\ worker' = [worker EXCEPT ![g].pipe = Tail(@),
                                       ![g].inputs = @ + 1]
        \/ /\ w.pipe # <<>> /\ Head(w.pipe).kind # "input"
           /\ worker' = [worker EXCEPT ![g].pipe = Tail(@),
                                       ![g].cmds = Append(@, Head(w.pipe))]
     /\ UNCHANGED <<tui, lead, sup, restarter, reload, flag, inbox, env, seen>>

\* The command pump: what the user types passes the queued commands.
Pump(g) ==
  LET w == worker[g]
  IN /\ Steps(g) /\ ~w.stop
     /\ \/ /\ w.pipe # <<>> /\ Head(w.pipe).kind = "input"
           /\ worker' = [worker EXCEPT ![g].pipe = Tail(@),
                                       ![g].inputs = @ + 1]
        \/ /\ w.pipe # <<>> /\ Head(w.pipe).kind # "input"
           /\ worker' = [worker EXCEPT ![g].pipe = Tail(@),
                                       ![g].cmds = Append(@, Head(w.pipe))]
        \/ /\ w.pipe = <<>> /\ w.eof
           /\ worker' = [worker EXCEPT ![g].stop = TRUE]
     /\ UNCHANGED <<tui, lead, sup, restarter, reload, flag, inbox, env, seen>>

Exit(g) == worker' = [worker EXCEPT ![g].up = "leaving"]

\* The command loop; commands that are queued go before a stop.
NextCommand(g) ==
  LET w == worker[g]
      c == Head(w.cmds)
  IN /\ Steps(g) /\ w.run = 0 /\ w.cmds # <<>>
     /\ \/ /\ c.kind \in {"run", "resume"}
           /\ worker' = [worker EXCEPT ![g].cmds = Tail(@), ![g].run = c.id]
           /\ UNCHANGED sup
        \/ /\ c.kind = "reload"
           /\ worker' = [worker EXCEPT ![g].cmds = Tail(@)]
           /\ Emit(g, "reloaded", c.id)
        \/ /\ c.kind = "shutdown"
           /\ worker' = [worker EXCEPT ![g].cmds = Tail(@), ![g].stop = TRUE,
                                       ![g].up = "leaving"]
           /\ Emit(g, "ack", 0)
     /\ UNCHANGED <<tui, lead, restarter, reload, flag, inbox, env, seen>>

StopLoop(g) ==
  /\ Steps(g) /\ worker[g].run = 0 /\ worker[g].cmds = <<>> /\ worker[g].stop
  /\ Exit(g)
  /\ UNCHANGED <<tui, lead, sup, restarter, reload, flag, inbox, env, seen>>

\* A run drains the input queue and the inbox while it goes on.
RunDrains(g) ==
  /\ Steps(g) /\ worker[g].run # 0 /\ (worker[g].inputs # 0 \/ inbox)
  /\ worker' = [worker EXCEPT ![g].inputs = 0]
  /\ inbox' = FALSE
  /\ UNCHANGED <<tui, lead, sup, restarter, reload, flag, env, seen>>

FinishRun(g) ==
  /\ Steps(g) /\ worker[g].run # 0
  /\ \E e \in Ends : Emit(g, e, worker[g].run)
  /\ worker' = [worker EXCEPT ![g].run = 0]
  /\ UNCHANGED <<tui, lead, restarter, reload, flag, inbox, env, seen>>

\* The lead has changed its own code and asks for a new worker.
RequestRestart(g) ==
  /\ Steps(g) /\ worker[g].run # 0 /\ Trouble("request_restart")
  /\ flag' = TRUE
  /\ seen' = [seen EXCEPT !.request = seen.restarts + 1,
                          !.late = restarter["watcher"] = "started"]
  /\ UNCHANGED <<tui, lead, sup, restarter, reload, worker, inbox>>

\* The process ends; the reader of its stdout meets the end of file.
Die(g) ==
  /\ worker' = [worker EXCEPT ![g] = [NotSpawned EXCEPT !.up = "dead"]]
  /\ Emit(g, "eof", 0)

Leave(g) ==
  /\ worker[g].up = "leaving" /\ Die(g)
  /\ UNCHANGED <<tui, lead, restarter, reload, flag, inbox, env, seen>>

WorkerFails(g) ==
  /\ Steps(g)
  /\ \/ Trouble("worker dies") /\ Die(g)
     \/ /\ Trouble("worker hangs") /\ UNCHANGED sup
        /\ worker' = [worker EXCEPT ![g].up = "hung"]
  /\ UNCHANGED <<tui, lead, restarter, reload, flag, inbox, seen>>

-----------------------------------------------------------------------------
(* Restarts: the watcher's, the user's, and the shutdown on exit. *)

Move(r, to) == restarter' = [restarter EXCEPT ![r] = to]

\* cancel_in_flight_run looks at the lead on the screen.
CancelInFlight ==
  IF lead.shown /\ HasRunTask THEN Cancelled ELSE UNCHANGED <<lead, seen>>

AskRestartClearing(r) ==
  /\ tui = "up" /\ restarter[r] = "off"
  /\ \/ r = "watcher" /\ flag /\ UNCHANGED env
     \/ r = "slash" /\ lead.shown /\ Trouble("restart-lead")
  /\ flag' = FALSE /\ CancelInFlight /\ Move(r, "lock")
  /\ UNCHANGED <<tui, sup, reload, worker, inbox>>

AskRestart(r) ==
  /\ tui = "up" /\ restarter[r] = "off"
  /\ \/ r = "watcher" /\ flag /\ UNCHANGED env
     \/ r = "slash" /\ lead.shown /\ Trouble("restart-lead")
  /\ CancelInFlight /\ Move(r, "lock")
  /\ UNCHANGED <<tui, sup, reload, worker, flag, inbox>>

Inside == {"drain", "reap", "fork"}
RestartLockUnused == TRUE

RestartLockFree == \A r \in {"slash", "watcher"} : restarter[r] \notin Inside

\* A waiter blocked on the old queue never hears of the new one.
Strand(at) == IF at = "wait" THEN "stranded" ELSE at

SameQueue(s) == [s EXCEPT !.closed = FALSE]

FreshQueue(s) == [s EXCEPT !.closed = FALSE, !.events = <<>>]

\* What follows shutdown(), which has left the supervisor as s: start() does
\* nothing when there is a worker, else it makes a new queue for a new one.
Start(r, s) ==
  \/ /\ r = "exit"
     /\ sup' = s /\ Move(r, "done") /\ UNCHANGED <<lead, reload>>
  \/ /\ r # "exit" /\ s.handle # 0
     /\ sup' = [s EXCEPT !.closed = FALSE]
     /\ Move(r, "started") /\ UNCHANGED <<lead, reload>>
  \/ /\ r # "exit" /\ s.handle = 0
     /\ "wait" \in {lead.at, reload.at} => s.events = <<>>
     /\ sup' = FreshQueue(s)
     /\ lead' = [lead EXCEPT !.at = Strand(@)]
     /\ reload' = [reload EXCEPT !.at = Strand(@)]
     /\ Move(r, "fork")

\* Closes stdin and sends SIGTERM.
Terminated(ws) ==
  IF Alive(sup.handle)
  THEN [ws EXCEPT ![sup.handle].eof = TRUE, ![sup.handle].stop = @ \/ Steps(sup.handle)]
  ELSE ws

\* shutdown(): nothing to do, or the command sent, or the pipe found broken.
Shutdown(r) ==
  /\ restarter[r] = "lock" /\ (r = "exit" \/ RestartLockFree)
  /\ \/ (sup.closed \/ sup.handle = 0) /\ Start(r, sup) /\ UNCHANGED worker
     \/ /\ Usable
        /\ sup' = [sup EXCEPT !.closed = TRUE]
        /\ IF Open THEN Write("shutdown", 0) /\ Move(r, "drain")
                   ELSE worker' = Terminated(worker) /\ Move(r, "reap")
        /\ UNCHANGED <<lead, reload>>
  /\ UNCHANGED <<tui, flag, inbox, env, seen>>

\* _drain_until_kind, under a timeout.
AwaitAck(r) ==
  /\ restarter[r] = "drain"
  /\ \/ /\ TakeEvent
        /\ IF Next1.kind \in {"ack", "eof"}
           THEN worker' = Terminated(worker) /\ Move(r, "reap")
           ELSE UNCHANGED <<worker, restarter>>
     \/ UNCHANGED sup /\ worker' = Terminated(worker) /\ Move(r, "reap")
  /\ UNCHANGED <<tui, lead, reload, flag, inbox, env, seen>>

KillUnlessHung(r) ==
  /\ restarter[r] = "reap" /\ Steps(sup.handle)
  /\ Die(sup.handle)
  /\ UNCHANGED <<tui, lead, restarter, reload, flag, inbox, env, seen>>

Kill(r) ==
  /\ restarter[r] = "reap" /\ Alive(sup.handle)
  /\ Die(sup.handle)
  /\ UNCHANGED <<tui, lead, restarter, reload, flag, inbox, env, seen>>

Released(s) == [s EXCEPT !.handle = 0]

Reap(r) ==
  /\ restarter[r] = "reap" /\ ~Alive(sup.handle)
  /\ Start(r, Released(sup))
  /\ UNCHANGED <<tui, worker, flag, inbox, env, seen>>

Fork(r) ==
  /\ restarter[r] = "fork"
  /\ \/ /\ LET g == sup.spawned + 1
           IN /\ worker' = [worker EXCEPT ![g] = Spawned]
              /\ sup' = [sup EXCEPT !.handle = g, !.spawned = g]
        /\ UNCHANGED env
     \/ Trouble("spawn fails") /\ UNCHANGED <<worker, sup>>
  /\ seen' = [seen EXCEPT !.interrupted = FALSE, !.restarts = @ + 1]
  /\ Move(r, "started")
  /\ UNCHANGED <<tui, lead, reload, flag, inbox>>

\* /restart-lead resets what the screen says of the lead, restarted or not, in
\* one go: nothing is awaited once the restart has returned.
SlashDone ==
  /\ restarter["slash"] = "started"
  /\ lead' = [lead EXCEPT !.busy = FALSE, !.awaiting = FALSE]
  /\ Move("slash", "off")
  /\ UNCHANGED <<tui, sup, reload, worker, flag, inbox, env, seen>>

\* The watcher clears the request, then tells the lead.
WatcherClears ==
  /\ restarter["watcher"] = "started"
  /\ \/ flag' = FALSE /\ UNCHANGED env /\ Move("watcher", "post")
     \/ Trouble("store fails") /\ UNCHANGED flag /\ Move("watcher", "off")
  /\ UNCHANGED <<tui, lead, sup, reload, worker, inbox, seen>>

WatcherPosts ==
  /\ restarter["watcher"] = "post"
  /\ \/ inbox' = TRUE /\ UNCHANGED env
     \/ Trouble("store fails") /\ UNCHANGED inbox
  /\ Move("watcher", "off")
  /\ UNCHANGED <<tui, lead, sup, reload, worker, flag, seen>>

\* on_unmount cancels the driver and the watcher, a restart of its included,
\* and then shuts the supervisor down; /restart-lead goes on meanwhile.
Unmount ==
  /\ tui = "up" /\ tui' = "closing"
  /\ lead' = [Idle(lead) EXCEPT !.at = "gone"]
  /\ restarter' = [restarter EXCEPT !["watcher"] = "off", !["exit"] = "lock"]
  /\ sup' = IF restarter["watcher"] \in {"drain", "reap"} THEN Released(sup) ELSE sup
  /\ reload' = [reload EXCEPT !.at = "off"]
  /\ UNCHANGED <<worker, flag, inbox, env, seen>>

\* The process ends, with its pipes; also by a kill.
Quit ==
  /\ tui = "up" \/ (tui = "closing" /\ restarter["exit"] = "done")
  /\ tui' = "gone"
  /\ lead' = [Idle(lead) EXCEPT !.at = "gone"]
  /\ restarter' = [r \in Restarters |-> "off"]
  /\ reload' = [reload EXCEPT !.at = "off"]
  /\ sup' = Released(sup)
  /\ worker' = [g \in Workers |-> IF Alive(g) THEN [worker[g] EXCEPT !.eof = TRUE] ELSE worker[g]]
  /\ UNCHANGED <<flag, inbox, env, seen>>

\* One step of the command loop, of a caller of restart() or shutdown(), of the
\* restart watcher, and of who waits for an event.
Loop(g)    == NextCommand(g) \/ StopLoop(g) \/ FinishRun(g) \/ Leave(g)
Proceed(r) == Shutdown(r) \/ AwaitAck(r) \/ Kill(r) \/ Reap(r) \/ Fork(r)
Watcher    == \/ AskRestart("watcher") \/ Proceed("watcher")
              \/ WatcherClears \/ WatcherPosts
Reader     == RunReads \/ ReloadReads

Next ==
  \/ Type \/ Wake \/ DriverTakes \/ StartRun \/ DriverAnswers \/ Reader
  \/ Interrupt \/ SwitchLead
  \/ StartReload \/ ReloadTimesOut
  \/ \E g \in Workers :
       \/ Pump(g) \/ Loop(g) \/ RunDrains(g) \/ RequestRestart(g) \/ WorkerFails(g)
  \/ Watcher \/ AskRestart("slash") \/ SlashDone
  \/ \E r \in {"slash", "exit"} : Proceed(r)
  \/ Unmount \/ Quit

\* The event loops of both processes run what is ready, waits that have a
\* timeout end, and a run of the agent ends unless its process hangs.
Fairness ==
  /\ \A g \in Workers : WF_vars(Pump(g)) /\ WF_vars(Loop(g))
  /\ WF_vars(Watcher) /\ WF_vars(Proceed("slash")) /\ WF_vars(Reader)

Spec == Init /\ [][Next]_vars /\ Fairness

-----------------------------------------------------------------------------
TypeOK ==
  /\ tui \in {"up", "closing", "gone"}
  /\ lead \in [queue : Seq({"run", "resume"}), answer : BOOLEAN, busy : BOOLEAN,
               awaiting : BOOLEAN, run : {"run", "resume"}, id : 0..MaxRuns, shown : BOOLEAN,
               at : {"idle", "lock", "wait", "stranded", "answer", "gone"}]
  /\ sup \in [handle : {0} \cup Workers, closed : BOOLEAN,
              events : Seq(Events), spawned : Workers]
  /\ restarter \in [Restarters -> Inside \cup {"off", "lock", "started", "post", "done"}]
  /\ reload \in [at : {"off", "wait", "stranded"}, id : 0..MaxTroubles]
  /\ worker \in [Workers -> [up : {"no", "yes", "hung", "leaving", "dead"},
                             pipe : Seq(Commands), eof : BOOLEAN, stop : BOOLEAN,
                             cmds : Seq(Commands), inputs : 0..MaxTexts, run : 0..MaxRuns]]
  /\ flag \in BOOLEAN /\ inbox \in BOOLEAN

\* A call of run or resume_on_inbox gets the result of its own command, unless
\* an earlier call on the same worker was cancelled: events carry no id, and a
\* restart must not hand on what the worker before had left in the queue.
ResultIsOwn == seen.got # seen.asked => seen.wasInterrupted

\* While the UI runs, a session has at most one worker: two would both drain
\* its inbox and append to its history.
OneWorker ==
  tui = "up" => \A g, h \in Workers : Alive(g) /\ Alive(h) => g = h

\* A restart request is cleared only after a restart that began a new process,
\* or failed to, after the request was made; a request of the new worker made
\* before the watcher's clear is the exception.
RequestIsServed ==
  seen.request > seen.restarts => flag \/ seen.late

\* A request is taken up: no caller of restart() blocks the others for ever,
\* whatever the worker does.
RequestIsCleared == flag ~> (~flag \/ tui # "up")

\* No worker outlives the UI, however it ended, unless its process hangs.
WorkerFollowsTui ==
  (tui = "gone") ~> \A g \in Workers : ~Alive(g) \/ worker[g].up = "hung"

\* "type your next message to continue": when the screen shows the lead idle,
\* its driver does not wait for an answer to an old question.
NextMessageContinues ==
  tui = "up" /\ ~lead.busy /\ ~lead.awaiting => lead.at # "answer"
=============================================================================
