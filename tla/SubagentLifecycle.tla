-------------------------- MODULE SubagentLifecycle --------------------------
(***************************************************************************)
(* Sub-agent subprocesses of one runtime (core/subagents/, the task and    *)
(* spawn tools, FeatherRuntime.shutdown): who launches them, who claims    *)
(* them when they end, and what is written about them in the task store.   *)
(*                                                                         *)
(* Everything but the children runs on one event loop, so a step is what   *)
(* happens between two awaits that really wait: a store call, a process    *)
(* launch, the wait for a killed process.  SubagentRegistry's lock is      *)
(* never held across such a wait, hence its calls belong to the step of    *)
(* their caller.  A batch of tool calls of the lead runs concurrently      *)
(* (asyncio.gather in _execute_tool_calls); the next batch starts when all *)
(* have returned.  A child writes to the shared task store on its own.     *)
(* task_runs rows are left out: they are written and shown, never read to  *)
(* decide anything.                                                        *)
(***************************************************************************)
EXTENDS Naturals, FiniteSets

CONSTANTS
  Tasks,      \* durable task rows
  Left,       \* those an earlier runtime left behind, stopped at its shutdown
  Launches,   \* attempts to start a subprocess
  Calls,      \* the tool calls of one batch
  Tools,      \* the tools the lead uses
  Faults,     \* what may go wrong
  None

ASSUME SubagentAssumption ==
  /\ Tools \subseteq {"spawn", "resume", "stop", "terminate", "update"}
  /\ Faults \subseteq {"launch", "tasks", "mailbox", "interrupt", "crash"}
  /\ Left \subseteq Tasks
  /\ None \notin Tasks \cup Launches
  /\ IsFiniteSet(Launches) /\ IsFiniteSet(Tasks) /\ IsFiniteSet(Calls)

VARIABLES
  task,       \* task[t]: the row in the task store
  child,      \* child[l]: the process and what it was launched for
  registry,   \* launches whose LiveSubagent is in the SubagentRegistry
  reports,    \* reports[l]: messages in_reply_to l's correlation id (history)
  calls,      \* the lead's tool calls
  reaper,     \* where the reaper is in its pass
  phase       \* of the runtime

vars == <<task, child, registry, reports, calls, reaper, phase>>

Completed == "COMPLETED"    \* any of the three completed_* statuses
Terminal  == {Completed, "FAILED", "STOPPED"}

\* A spawn mints a session, named after its launch; a resume reuses one.  The
\* session of a task that was left behind is named after the task.
Sessions == Launches \cup Left

TaskStatuses == {"NONE", "QUEUED", "RUNNING", "BLOCKED"} \cup Terminal

Task == [status : TaskStatuses,
         final : BOOLEAN,                  \* has a final output
         owner : Sessions \cup {None}]     \* responsible_session_id

\* How a process ended: with an envelope whose status is completed and that
\* has, or lacks, a text; with another envelope or none; by a signal.
Exits == {"report", "blank", "failed"}
Dead  == Exits \cup {"killed"}

Child == [proc : {"none", "alive"} \cup Dead,
          asking : BOOLEAN,                \* waits in request_input
         closing : BOOLEAN,               \* between the writes of task_output
          reaped : BOOLEAN,                \* claimed by the reaper (history)
         nth : Nat,                       \* place in the registry's dict
          of : Tasks \cup {None}, sess : Sessions \cup {None}]

Call == [tool : {"none", "spawn", "resume", "stop", "terminate"},
         at : {"idle", "start", "launch", "register", "undo", "record",
               "kill", "report", "close"},
         arg : Tasks \cup Sessions \cup {None},
         l : Launches \cup {None}]

Reaper == [at : {"idle", "run", "verdict", "send"},
           l : Launches \cup {None}, todo : SUBSET Launches]

NoCall  == [tool |-> "none", at |-> "idle", arg |-> None, l |-> None]
NoReap  == [at |-> "idle", l |-> None, todo |-> {}]

TypeOK ==
  /\ task \in [Tasks -> Task]
  /\ child \in [Launches -> Child]
  /\ registry \in SUBSET Launches
  /\ reports \in [Launches -> Nat]
  /\ calls \in [Calls -> Call]
  /\ reaper \in Reaper
  /\ phase \in {"running", "stopping", "down"}

Init ==
  /\ task = [t \in Tasks |->
       IF t \in Left THEN [status |-> "STOPPED", final |-> FALSE, owner |-> t]
                     ELSE [status |-> "NONE", final |-> FALSE, owner |-> None]]
  /\ child = [l \in Launches |-> [proc |-> "none",
                asking |-> FALSE, closing |-> FALSE, reaped |-> FALSE,
                nth |-> 0, of |-> None, sess |-> None]]
  /\ registry = {}
  /\ reports = [l \in Launches |-> 0]
  /\ calls = [c \in Calls |-> NoCall]
  /\ reaper = NoReap
  /\ phase = "running"

Unused == {l \in Launches : child[l].of = None}
Alive(l) == child[l].proc = "alive"
Exited(l) == child[l].proc \in Dead

\* registry.get(session)
Entries(s) == {l \in registry : child[l].sess = s}

Goto(c, stage) == calls' = [calls EXCEPT ![c].at = stage]
Return(c) == calls' = [calls EXCEPT ![c] = NoCall]

\* (Broken variant: the wrong column is written.)
SetTaskOwner(t, status) == task' = [task EXCEPT ![t].owner = status]

SetTask(t, status) == task' = [task EXCEPT ![t].status = status]

Ended(r, how) == [r EXCEPT !.proc = how, !.asking = FALSE, !.closing = FALSE]

\* SIGTERM, and SIGKILL after two seconds; nothing if it has exited.
Signalled(r) == IF r.proc = "alive" THEN Ended(r, "killed") ELSE r

-----------------------------------------------------------------------------
(* A batch of the lead                                                     *)

\* task_create
PlanTask(t) ==
  /\ phase = "running" /\ \A c \in Calls : calls[c] = NoCall
  /\ task[t].status = "NONE"
  /\ SetTask(t, "QUEUED")
  /\ UNCHANGED <<child, registry, reports, calls, reaper, phase>>

\* task_update of the lead, in any batch, or of a child about its own task:
\* any status, unchecked.
UpdateTask(t, status) ==
  /\ "update" \in Tools
  /\ task[t].status # "NONE"
  /\ \/ phase = "running"
     \/ \E l \in Launches :
          Alive(l) /\ child[l].of = t /\ task[t].owner = child[l].sess
  /\ SetTask(t, status)
  /\ UNCHANGED <<child, registry, reports, calls, reaper, phase>>

\* The lead names tasks and sessions that tools have told it about.
Requests ==
  LET known == {t \in Tasks : task[t].status # "NONE"}
      started == {child[l].sess : l \in Launches \ Unused}
      args(tool) == IF tool = "terminate" THEN started
                    ELSE IF tool = "spawn" THEN known \cup {None} ELSE known
  IN  UNION {[tool : {tool}, at : {"start"}, arg : args(tool), l : {None}]
               : tool \in Tools \ {"update"}}

\* Bounded by the launches and tasks that are left.
CallTools ==
  /\ phase = "running" /\ \A c \in Calls : calls[c] = NoCall
  /\ calls' \in [Calls -> Requests \cup {NoCall}]
  /\ calls' # calls
  /\ LET launching == {c \in Calls : calls'[c].tool \in {"spawn", "resume"}}
         creating == {c \in launching : calls'[c].arg = None}
     IN  /\ Cardinality(launching) <= Cardinality(Unused)
         /\ Cardinality(creating) <=
              Cardinality({t \in Tasks : task[t].status = "NONE"})
  /\ UNCHANGED <<task, child, registry, reports, reaper, phase>>

\* The process to launch.
Prepare(c, l, t, s) ==
  /\ l \in Unused
  /\ child' = [child EXCEPT ![l].of = t, ![l].sess = s]
  /\ calls' = [calls EXCEPT ![c].at = "launch", ![c].l = l]

-----------------------------------------------------------------------------
(* spawn_agent and task_resume                                             *)

\* _resolve_or_create_task without a task_id, then create_run.
SpawnNew(c, l, t) ==
  /\ calls[c].at = "start" /\ calls[c].tool = "spawn" /\ calls[c].arg = None
  /\ task[t].status = "NONE"
  /\ task' = [task EXCEPT ![t].status = "QUEUED", ![t].owner = l]
  /\ Prepare(c, l, t, l)
  /\ UNCHANGED <<registry, reports, reaper, phase>>

\* ... and with the id of a planned task.
SpawnPlanned(c, l) ==
  /\ calls[c].at = "start" /\ calls[c].tool = "spawn" /\ calls[c].arg # None
  /\ task[calls[c].arg].status = "QUEUED"
  /\ Prepare(c, l, calls[c].arg, l)
  /\ UNCHANGED <<task, registry, reports, reaper, phase>>

Resumable(t) ==
  /\ task[t].owner # None
  /\ task[t].status # Completed
  /\ Entries(task[t].owner) = {}

Resume(c, l) ==
  /\ calls[c].at = "start" /\ calls[c].tool = "resume"
  /\ Resumable(calls[c].arg)
  /\ Prepare(c, l, calls[c].arg, task[calls[c].arg].owner)
  /\ UNCHANGED <<task, registry, reports, reaper, phase>>

Launch(c) ==
  /\ calls[c].at = "launch"
  /\ child' = [child EXCEPT ![calls[c].l].proc = "alive"]
  /\ Goto(c, "register")
  /\ UNCHANGED <<task, registry, reports, reaper, phase>>

LaunchFails(c) ==
  /\ calls[c].at = "launch" /\ "launch" \in Faults
  /\ SetTask(child[calls[c].l].of, "FAILED")
  /\ Return(c)
  /\ UNCHANGED <<child, registry, reports, reaper, phase>>

\* registry.register: the entry goes to the end of the dict.
Register(c) ==
  /\ calls[c].at = "register"
  /\ Entries(child[calls[c].l].sess) = {}
  /\ registry' = registry \cup {calls[c].l}
  /\ child' = [child EXCEPT ![calls[c].l].nth =
                 1 + Cardinality({l \in Launches : child[l].nth > 0})]
  /\ Goto(c, "record")
  /\ UNCHANGED <<task, reports, reaper, phase>>

\* It raises if the session is there already.
RegisterRefused(c) ==
  /\ calls[c].at = "register"
  /\ Entries(child[calls[c].l].sess) # {}
  /\ Goto(c, "undo")
  /\ UNCHANGED <<task, child, registry, reports, reaper, phase>>

\* (Broken variant: the process is not killed.)
UndoLaunchNoKill(c) ==
  /\ calls[c].at = "undo"
  /\ SetTask(child[calls[c].l].of, "FAILED")
  /\ Return(c)
  /\ UNCHANGED <<child, registry, reports, reaper, phase>>

UndoLaunch(c) ==
  /\ calls[c].at = "undo"
  /\ child' = [child EXCEPT ![calls[c].l] = Signalled(@)]
  /\ SetTask(child[calls[c].l].of, "FAILED")
  /\ Return(c)
  /\ UNCHANGED <<registry, reports, reaper, phase>>

\* update_task(RUNNING), whatever has happened since the launch.
RecordLaunch(c) ==
  LET r == child[calls[c].l]
  IN  /\ calls[c].at = "record"
      /\ task' = [task EXCEPT ![r.of].status = "RUNNING", ![r.of].owner =
                                IF calls[c].tool = "spawn" THEN r.sess ELSE @]
      /\ Return(c)
      /\ UNCHANGED <<child, registry, reports, reaper, phase>>

-----------------------------------------------------------------------------
(* terminate_agent and task_stop                                           *)

Target(c) ==
  IF calls[c].tool = "terminate" THEN calls[c].arg
  ELSE IF calls[c].tool = "stop" THEN task[calls[c].arg].owner ELSE None

\* (Broken variant: the entry stays registered while the child is killed.)
ClaimToKillNoRemove(c) ==
  /\ calls[c].at = "start"
  /\ \E l \in Entries(Target(c)) :
       /\ ~Exited(l)
       /\ calls' = [calls EXCEPT ![c].at = "kill", ![c].l = l]
  /\ UNCHANGED <<task, child, registry, reports, reaper, phase>>

\* registry.get and registry.remove of a child that has not exited.
ClaimToKill(c) ==
  /\ calls[c].at = "start"
  /\ \E l \in Entries(Target(c)) :
       /\ ~Exited(l)
       /\ registry' = registry \ {l}
       /\ calls' = [calls EXCEPT ![c].at = "kill", ![c].l = l]
  /\ UNCHANGED <<task, child, reports, reaper, phase>>

\* task_stop: no live process.
StopIdle(c) ==
  /\ calls[c].at = "start" /\ calls[c].tool = "stop"
  /\ Entries(Target(c)) = {}
  /\ Goto(c, "close")
  /\ UNCHANGED <<task, child, registry, reports, reaper, phase>>

Kill(c) ==
  /\ calls[c].at = "kill"
  /\ child' = [child EXCEPT ![calls[c].l] = Signalled(@)]
  /\ Goto(c, "report")
  /\ UNCHANGED <<task, registry, reports, reaper, phase>>

ReportKill(c) ==
  /\ calls[c].at = "report"
  /\ reports' = [reports EXCEPT ![calls[c].l] = @ + 1]
  /\ IF calls[c].tool = "stop" THEN Goto(c, "close") ELSE Return(c)
  /\ UNCHANGED <<task, child, registry, reaper, phase>>

\* update_task(STOPPED), whatever the task's status is by now.
CloseTask(c) ==
  /\ calls[c].at = "close"
  /\ SetTask(calls[c].arg, "STOPPED")
  /\ Return(c)
  /\ UNCHANGED <<child, registry, reports, reaper, phase>>

-----------------------------------------------------------------------------
(* Calls that end early                                                    *)

\* The guards that answer with an error or "nothing to do".
Refused(c) ==
  \/ /\ calls[c].tool = "spawn" /\ calls[c].arg # None
     /\ task[calls[c].arg].status # "QUEUED"
  \/ calls[c].tool = "resume" /\ ~Resumable(calls[c].arg)
  \/ calls[c].tool = "terminate" /\ \A l \in Entries(Target(c)) : Exited(l)
  \/ calls[c].tool = "stop" /\ \E l \in Entries(Target(c)) : Exited(l)

Refuse(c) ==
  /\ calls[c].at = "start" /\ Refused(c)
  /\ Return(c)
  /\ UNCHANGED <<task, child, registry, reports, reaper, phase>>

\* A store call of the tool raises: terminate_agent and the last step of a
\* launch swallow the exception, the others fail with it.
StoreError(c) ==
  /\ \/ calls[c].at \in {"record", "close"} /\ "tasks" \in Faults
     \/ calls[c].at = "report" /\ "mailbox" \in Faults
     \/ calls[c].at = "report" /\ calls[c].tool = "stop" /\ "tasks" \in Faults
  /\ Return(c)
  /\ UNCHANGED <<task, child, registry, reports, reaper, phase>>

\* A run is cancelled, and every tool call with it.  A process being launched
\* is closed by asyncio, one being killed has got its signal.
CancelCalls ==
  LET hit == {calls[c].l : c \in {d \in Calls :
                             calls[d].at \in {"register", "undo", "kill"}}}
  IN  /\ child' = [l \in Launches |->
                     IF l \in hit THEN Signalled(child[l]) ELSE child[l]]
      /\ calls' = [c \in Calls |-> NoCall]

\* The user interrupts the run.
Interrupt ==
  /\ "interrupt" \in Faults
  /\ \E c \in Calls : calls[c] # NoCall
  /\ CancelCalls
  /\ UNCHANGED <<task, registry, reports, reaper, phase>>

-----------------------------------------------------------------------------
(* The reaper                                                              *)

\* Snapshot entries that have exited and whose session is still registered.
Claimable(snapshot) ==
  {l \in snapshot : Exited(l) /\ Entries(child[l].sess) # {}}

\* From one await to the next: on to the next exited entry of the snapshot;
\* registry.remove(its session id) decides what is delivered.
Advance(snapshot) ==
  IF Claimable(snapshot) = {}
    THEN reaper' = NoReap /\ UNCHANGED <<registry, child>>
    ELSE \E l \in Claimable(snapshot) : \E e \in Entries(child[l].sess) :
           /\ \A k \in Claimable(snapshot) : child[l].nth <= child[k].nth
           /\ registry' = registry \ {e}
           /\ child' = [child EXCEPT ![e].reaped = TRUE]
           /\ reaper' = [at |-> "run", l |-> e, todo |->
                            {k \in snapshot : child[k].nth > child[l].nth}]

Poll ==
  /\ phase = "running" /\ reaper = NoReap
  /\ Claimable(registry) # {}
  /\ Advance(registry)
  /\ UNCHANGED <<task, reports, calls, phase>>

\* (Broken variant: nothing is sent for a blocked task.)
CloseRunSilent ==
  /\ reaper.at = "run"
  /\ reaper' = IF task[child[reaper.l].of].status = "BLOCKED"
                 THEN NoReap ELSE [reaper EXCEPT !.at = "verdict"]
  /\ UNCHANGED <<task, child, registry, reports, calls, phase>>

\* The drainers, finish_run, get_task: a blocked task keeps its status.
CloseRun ==
  /\ reaper.at = "run"
  /\ reaper' = [reaper EXCEPT !.at =
       IF task[child[reaper.l].of].status = "BLOCKED" THEN "send" ELSE "verdict"]
  /\ UNCHANGED <<task, child, registry, reports, calls, phase>>

\* (Broken variant: the text is not recorded as the final output.)
VerdictNoOutput ==
  LET r == child[reaper.l]
      done == r.proc = "report" \/ (r.proc = "blank" /\ task[r.of].final)
  IN  /\ reaper.at = "verdict"
      /\ task' = [task EXCEPT ![r.of].status = IF done THEN Completed ELSE "FAILED"]
      /\ reaper' = [reaper EXCEPT !.at = "send"]
      /\ UNCHANGED <<child, registry, reports, calls, phase>>

\* A completed envelope with a final output, or with a text that becomes
\* one, completes the task; everything else fails it.
Verdict ==
  LET r == child[reaper.l]
      done == r.proc = "report" \/ (r.proc = "blank" /\ task[r.of].final)
  IN  /\ reaper.at = "verdict"
      /\ task' = [task EXCEPT ![r.of].status = IF done THEN Completed ELSE "FAILED",
                              ![r.of].final = @ \/ done]
      /\ reaper' = [reaper EXCEPT !.at = "send"]
      /\ UNCHANGED <<child, registry, reports, calls, phase>>

SendReport ==
  /\ reaper.at = "send"
  /\ reports' = [reports EXCEPT ![reaper.l] = @ + 1]
  /\ Advance(reaper.todo)
  /\ UNCHANGED <<task, calls, phase>>

\* The mailbox raises: logged, and on to the next entry.
SendReportFails ==
  /\ reaper.at = "send" /\ "mailbox" \in Faults
  /\ Advance(reaper.todo)
  /\ UNCHANGED <<task, reports, calls, phase>>

\* The task store raises: the pass ends, the claimed entry is gone.
ReaperFails ==
  /\ reaper.at \in {"run", "verdict"} /\ "tasks" \in Faults
  /\ reaper' = NoReap
  /\ UNCHANGED <<task, child, registry, reports, calls, phase>>

-----------------------------------------------------------------------------
(* A child                                                                 *)

\* request_input: its task, as long as the task is assigned to its session.
Ask(l) ==
  /\ Alive(l) /\ ~child[l].asking
  /\ task[child[l].of].owner = child[l].sess
  /\ SetTask(child[l].of, "BLOCKED")
  /\ child' = [child EXCEPT ![l].asking = TRUE]
  /\ UNCHANGED <<registry, reports, calls, reaper, phase>>

\* An answer, or the end of the wait.
Resolve(l) ==
  /\ Alive(l) /\ child[l].asking
  /\ SetTask(child[l].of, "RUNNING")
  /\ child' = [child EXCEPT ![l].asking = FALSE]
  /\ UNCHANGED <<registry, reports, calls, reaper, phase>>

\* task_output(is_final), also next to a request_input of the same batch:
\* the output, and then the status, whatever it has become in between.
RecordOutput(l) ==
  LET t == child[l].of
  IN  /\ Alive(l) /\ ~child[l].closing
      /\ task[t].owner = child[l].sess
      /\ task[t].status \notin {"STOPPED", Completed}
      /\ task' = [task EXCEPT ![t].final = TRUE]
      /\ child' = [child EXCEPT ![l].closing = TRUE]
      /\ UNCHANGED <<registry, reports, calls, reaper, phase>>

CompleteTask(l) ==
  /\ Alive(l) /\ child[l].closing
  /\ SetTask(child[l].of, Completed)
  /\ child' = [child EXCEPT ![l].closing = FALSE]
  /\ UNCHANGED <<registry, reports, calls, reaper, phase>>

Exit(l, how) ==
  /\ Alive(l)
  /\ child[l].asking \/ child[l].closing => how = "failed"
  /\ child' = [child EXCEPT ![l] = Ended(@, how)]
  /\ UNCHANGED <<task, registry, reports, calls, reaper, phase>>

-----------------------------------------------------------------------------
(* The runtime                                                             *)

\* FeatherRuntime.shutdown looks at no tool call: whoever calls it (the
\* command line, the TUI's driver and screen, the hub, a worker) has ended
\* its run before, by cancelling it if it was at work.
BeginShutdown ==
  /\ phase = "running"
  /\ CancelCalls
  /\ phase' = "stopping"
  /\ UNCHANGED <<task, registry, reports, reaper>>

\* SubagentReaper.stop gives up waiting for a pass and cancels it.
CancelReaper ==
  /\ phase = "stopping" /\ reaper # NoReap
  /\ reaper' = NoReap
  /\ UNCHANGED <<task, child, registry, reports, calls, phase>>

\* _terminate_live_subagents, one entry.
TerminateOne(l) ==
  LET t == child[l].of
  IN  /\ phase = "stopping" /\ reaper = NoReap
      /\ l \in registry
      /\ registry' = registry \ {l}
      /\ child' = [child EXCEPT ![l] = Signalled(@)]
      /\ task' = [task EXCEPT ![t].status =
           IF @ \in Terminal THEN @ ELSE IF Alive(l) THEN "STOPPED" ELSE "FAILED"]
      /\ UNCHANGED <<reports, calls, reaper, phase>>

EndShutdown ==
  /\ phase = "stopping" /\ reaper = NoReap /\ registry = {}
  /\ phase' = "down"
  /\ UNCHANGED <<task, child, registry, reports, calls, reaper>>

\* SIGKILL of the runtime's process; its children live on.
Crash ==
  /\ "crash" \in Faults /\ phase # "down"
  /\ registry' = {} /\ calls' = [c \in Calls |-> NoCall] /\ reaper' = NoReap
  /\ phase' = "down"
  /\ UNCHANGED <<task, child, reports>>

Restart ==
  /\ phase = "down"
  /\ phase' = "running"
  /\ UNCHANGED <<task, child, registry, reports, calls, reaper>>

-----------------------------------------------------------------------------
CallStep(c) ==
  \/ \E l \in Launches :
       \/ \E t \in Tasks : SpawnNew(c, l, t)
       \/ SpawnPlanned(c, l) \/ Resume(c, l)
  \/ Launch(c) \/ LaunchFails(c) \/ Register(c) \/ RegisterRefused(c)
  \/ UndoLaunch(c) \/ RecordLaunch(c)
  \/ ClaimToKill(c) \/ StopIdle(c) \/ Kill(c) \/ ReportKill(c) \/ CloseTask(c)
  \/ Refuse(c) \/ StoreError(c)

ReaperStep ==
  \/ Poll \/ CloseRun \/ Verdict \/ SendReport \/ SendReportFails \/ ReaperFails

ChildStep(l) ==
  \/ Ask(l) \/ Resolve(l) \/ RecordOutput(l) \/ CompleteTask(l)
  \/ \E how \in Exits : Exit(l, how)

RuntimeStep ==
  \/ BeginShutdown \/ CancelReaper \/ \E l \in Launches : TerminateOne(l)
  \/ EndShutdown \/ Crash \/ Restart

Next ==
  \/ \E t \in Tasks :
       \/ PlanTask(t)
       \/ \E status \in TaskStatuses \ {"NONE"} : UpdateTask(t, status)
  \/ CallTools
  \/ \E c \in Calls : CallStep(c)
  \/ Interrupt
  \/ ReaperStep
  \/ \E l \in Launches : ChildStep(l)
  \/ RuntimeStep

Spec == Init /\ [][Next]_vars

\* The event loop resumes every coroutine that can go on, and the reaper
\* polls for ever.  Nothing is assumed of children, the lead or the user.
FairSpec == Spec /\ WF_vars(ReaperStep) /\ \A c \in Calls : WF_vars(CallStep(c))

-----------------------------------------------------------------------------
(* Properties                                                              *)

\* Calls that answer for a process that is not registered.
HeldByCall(l) ==
  \E c \in Calls : calls[c].l = l /\ calls[c].at \in {"register", "undo", "kill"}

\* The "single-delivery claim" of reaper, terminate_agent, task_stop and
\* shutdown: the lead never gets two final reports for one launch.
AtMostOneReport == \A l \in Launches : reports[l] <= 1

\* Every live child is registered, or in the hands of a tool call that is
\* launching or killing it: it will be reaped or can be terminated, and
\* after a shutdown none is left running.  The exceptions: a child that the
\* reaper took for its predecessor, its session having been stopped and resumed
\* while the pass waited for a store, and a runtime that was killed.
NoOrphan ==
  \A l \in Launches :
    Alive(l) => l \in registry \/ HeldByCall(l) \/ child[l].reaped

\* "A task is not truly finished until it has a final task_output": unless
\* task_update says so, no order of task_output, reaper verdicts, stops and
\* resumes completes a task that has none.
CompletedHasOutput ==
  \A t \in Tasks : task[t].status = Completed => task[t].final

\* A child that exits gets its final report posted, so that the lead cannot
\* wait for ever: by the next reaper pass, unless a shutdown comes first.
ExitIsReported ==
  \A l \in Launches :
    Exited(l) /\ (l \in registry \/ reaper.l = l)
      ~> reports[l] > 0 \/ phase # "running"
=============================================================================
