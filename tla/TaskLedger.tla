------------------------------ MODULE TaskLedger ------------------------------
(***************************************************************************)
(* Plans, tasks and their timeline (storage/task_store.py) under the calls *)
(* of task_create and task_update, and what else changes a task, that a    *)
(* batch, the lead and its sub-agents make at the same time.  Each reads,  *)
(* writes and logs what it did in separate statements and may be           *)
(* interrupted between any two.  A statement and its commit are one step   *)
(* here; AgentMessageStore is about what happens between them.             *)
(***************************************************************************)
EXTENDS Naturals, Sequences, FiniteSets

CONSTANTS
  MaxCalls,   \* calls of the tools
  PlanPaths,  \* plan_filepath
  MaxCuts     \* interrupts

VARIABLES
  plans,     \* rows, oldest first: their path and the call that made them
  tasks,     \* rows, oldest first: their plan and status
  events,    \* status events, oldest first: task and status; and "created"
  call,      \* each call: what it does, where it is, what it has read
  blurred    \* tasks of whose changes two overlapped or one was cut in between,
             \* since the last that did not

tlvars == <<plans, tasks, events, call, blurred>>

Calls    == 1..MaxCalls
None     == "none"
NoCall   == [op |-> None, at |-> "new", path |-> None, task |-> 0,
             plan |-> 0, status |-> None, seen |-> 0]

Init ==
  /\ plans = <<>> /\ tasks = <<>> /\ events = <<>>
  /\ call = [c \in Calls |-> NoCall] /\ blurred = {}

Goto(c, at)  == call' = [call EXCEPT ![c].at = at]
Fresh(c)     == call[c].at = "new" /\ \A d \in 1..(c - 1) : call[d].at # "new"
At(c, at)    == call[c].at = at
Logging(k)   == {c \in Calls : call[c].task = k /\ call[c].at \in {"reread", "log"}}
Of(path)     == {p \in DOMAIN plans : plans[p].path = path}
Newest(ps)   == CHOOSE p \in ps : \A q \in ps : q <= p

-----------------------------------------------------------------------------
\* task_create

BeginCreate(c, path) ==
  /\ Fresh(c)
  /\ call' = [call EXCEPT ![c] = [NoCall EXCEPT
       !.op = "create", !.path = path, !.seen = Len(plans),
       !.at = IF path = None THEN "insert" ELSE "find"]]
  /\ UNCHANGED <<plans, tasks, events, blurred>>

\* find_plan_by_filepath: the newest of that path.
FindPlan(c) ==
  LET ps == Of(call[c].path) IN
  /\ At(c, "find")
  /\ call' = [call EXCEPT ![c].at = IF ps = {} THEN "plan" ELSE "insert",
                          ![c].plan = IF ps = {} THEN 0 ELSE Newest(ps)]
  /\ UNCHANGED <<plans, tasks, events, blurred>>

CreatePlan(c) ==
  /\ At(c, "plan")
  /\ plans' = Append(plans, [path |-> call[c].path, by |-> c])
  /\ call' = [call EXCEPT ![c].at = "insert", ![c].plan = Len(plans) + 1]
  /\ UNCHANGED <<tasks, events, blurred>>

InsertTask(c) ==
  /\ At(c, "insert")
  /\ tasks' = Append(tasks, [plan |-> call[c].plan, status |-> "queued"])
  /\ call' = [call EXCEPT ![c].at = "created", ![c].task = Len(tasks) + 1]
  /\ UNCHANGED <<plans, events, blurred>>

LogCreated(c) ==
  /\ At(c, "created") /\ Goto(c, "done")
  /\ events' = Append(events, [task |-> call[c].task, says |-> "created"])
  /\ UNCHANGED <<plans, tasks, blurred>>

-----------------------------------------------------------------------------
\* update_task, for task_update and for what else changes a task

Begin(c, k, status) ==
  /\ Fresh(c)
  /\ call' = [call EXCEPT ![c] = [NoCall EXCEPT
       !.op = "update", !.at = "update", !.task = k, !.status = status]]
  /\ UNCHANGED <<plans, tasks, events, blurred>>

\* update_task: the fields, what the row says then, the event.
Update(c) ==
  LET k == call[c].task IN
  /\ At(c, "update") /\ Goto(c, "reread")
  /\ tasks' = [tasks EXCEPT ![k].status = call[c].status]
  /\ blurred' = IF Logging(k) # {} THEN blurred \cup {k} ELSE blurred \ {k}
  /\ UNCHANGED <<plans, events>>

Reread(c) ==
  /\ At(c, "reread")
  /\ call' = [call EXCEPT ![c].at = "log", ![c].status = tasks[call[c].task].status]
  /\ UNCHANGED <<plans, tasks, events, blurred>>

LogStatus(c) ==
  /\ At(c, "log") /\ Goto(c, "done")
  /\ events' = Append(events, [task |-> call[c].task, says |-> call[c].status])
  /\ UNCHANGED <<plans, tasks, blurred>>

\* An interrupt, an error of the store, the death of a sub-agent.
Cut(c) ==
  /\ call[c].at \notin {"new", "done", "cut"} /\ Goto(c, "cut")
  /\ Cardinality({d \in Calls : At(d, "cut")}) < MaxCuts
  /\ blurred' = IF call[c].at \in {"reread", "log"} THEN blurred \cup {call[c].task} ELSE blurred
  /\ UNCHANGED <<plans, tasks, events>>

CallStep(c) ==
  \/ \E path \in PlanPaths \cup {None} : BeginCreate(c, path)
  \/ FindPlan(c) \/ CreatePlan(c) \/ InsertTask(c) \/ LogCreated(c)
  \/ \E k \in DOMAIN tasks, status \in {"running", "stopped"} : Begin(c, k, status)
  \/ Update(c) \/ Reread(c) \/ LogStatus(c) \/ Cut(c)

Next == \E c \in Calls : CallStep(c)

Spec == Init /\ [][Next]_tlvars

-----------------------------------------------------------------------------

\* Every variable keeps its shape.
TypeOK ==
  /\ \A p \in DOMAIN plans : plans[p].path \in PlanPaths /\ plans[p].by \in Calls
  /\ \A k \in DOMAIN tasks : /\ tasks[k].plan \in 0..Len(plans)
                             /\ tasks[k].status \in {"queued", "running", "stopped"}
  /\ \A e \in DOMAIN events : events[e].task \in DOMAIN tasks
  /\ \A c \in Calls : call[c].task \in 0..Len(tasks) /\ call[c].plan \in 0..Len(plans)
  /\ blurred \subseteq DOMAIN tasks

\* A path gets a second plan only from calls that ran at the same time: one
\* that began when there was a plan joins it, or a newer one
\* (task_tools.py:107-123, task_store.py:88-103).
PlanIsReused ==
  /\ \A p, q \in DOMAIN plans :
       p < q /\ plans[p].path = plans[q].path => call[plans[q].by].seen < p
  /\ \A c \in Calls, p \in DOMAIN plans :
       call[c].op = "create" /\ call[c].plan # 0 /\ plans[p].path = call[c].path
         => p <= call[c].plan \/ call[c].seen < p

\* The last status in a task's timeline is the task's, once the calls that
\* changed it have logged it.
EndsWithStatus(k) ==
  LET told == {e \in DOMAIN events : events[e].task = k /\ events[e].says # "created"}
  IN  Logging(k) = {} =>
        tasks[k].status = IF told = {} THEN "queued" ELSE events[Newest(told)].says

\* It is so after every change that no other overlapped and nothing cut in
\* between: what an earlier overlap or interrupt left wrong is put right
\* (task_store.py:279-290).
TimelineIsTrue == \A k \in DOMAIN tasks \ blurred : EndsWithStatus(k)

LedgerTellsTheStory == PlanIsReused /\ TimelineIsTrue
=============================================================================
