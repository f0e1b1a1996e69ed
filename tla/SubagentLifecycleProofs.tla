----------------------- MODULE SubagentLifecycleProofs -----------------------
(***************************************************************************)
(* Proofs about SubagentLifecycle, for any number of tasks, launches and   *)
(* concurrent tool calls.                                                  *)
(***************************************************************************)
EXTENDS SubagentLifecycle, FiniteSetTheorems, TLAPS

-----------------------------------------------------------------------------
(* Types                                                                   *)

\* The stages of a call that works on a launch.
Working == {"launch", "register", "undo", "record", "kill", "report"}

\* What a call of each tool works on.
CallKnown(r) ==
  /\ r.at \in Working => r.l \in Launches
  /\ r.tool = "spawn" => r.arg \in Tasks \cup {None}
  /\ r.tool = "resume" => r.arg \in Tasks

ReaperKnown ==
  IF reaper.at = "idle" THEN reaper = NoReap ELSE reaper.l \in Launches

Typed ==
  /\ TypeOK
  /\ \A c \in Calls : CallKnown(calls[c])
  /\ ReaperKnown

\* A request of the lead is a call at its start.
LEMMA RequestIsCall ==
  ASSUME TypeOK, NEW r \in Requests \cup {NoCall}
  PROVE  /\ r \in Call
         /\ r.at \in {"start", "idle"}
         /\ CallKnown(r)
<1>1. CASE r = NoCall
  BY <1>1 DEF NoCall, Call, CallKnown, Working
<1>2. CASE r \in Requests
  <2> DEFINE known == {t \in Tasks : task[t].status # "NONE"}
             started == {child[l].sess : l \in Launches \ Unused}
             args(tool) == IF tool = "terminate" THEN started
                           ELSE IF tool = "spawn" THEN known \cup {None} ELSE known
  <2>1. PICK tool \in Tools \ {"update"} :
          r \in [tool : {tool}, at : {"start"}, arg : args(tool), l : {None}]
    BY <1>2 DEF Requests
  <2>2. tool \in {"spawn", "resume", "stop", "terminate"}
    BY SubagentAssumption
  <2>3. started \subseteq Sessions \cup {None}
    BY DEF TypeOK, Child
  <2>4. /\ r.tool = tool /\ r.at = "start" /\ r.arg \in args(tool) /\ r.l = None
        /\ r = [tool |-> r.tool, at |-> r.at, arg |-> r.arg, l |-> r.l]
    BY <2>1
  <2>5. /\ tool = "spawn" => args(tool) = known \cup {None}
        /\ tool \in {"resume", "stop"} => args(tool) = known
        /\ tool = "terminate" => args(tool) = started
    OBVIOUS
  <2>6. r.arg \in Tasks \cup Sessions \cup {None}
    BY <2>2, <2>3, <2>4, <2>5
  <2>7. r \in Call
    BY <2>2, <2>4, <2>6 DEF Call
  <2>8. CallKnown(r)
    BY <2>2, <2>4, <2>5 DEF CallKnown, Working
  <2>9. QED
    BY <2>4, <2>7, <2>8
<1>3. QED
  BY <1>1, <1>2

\* The place of a new registry entry is a natural number.
LEMMA NextPlace ==
  1 + Cardinality({l \in Launches : child[l].nth > 0}) \in Nat
<1>1. IsFiniteSet({l \in Launches : child[l].nth > 0})
  BY SubagentAssumption, FS_Subset
<1>2. QED
  BY <1>1, FS_CardinalityType

\* The types of the parts of the state, for use without their definitions.
LEMMA Parts ==
  ASSUME Typed
  PROVE  /\ \A l \in Launches :
              /\ child[l] \in Child
              /\ child[l].proc \in {"none", "alive", "report", "blank",
                                    "failed", "killed"}
              /\ child[l].of \in Tasks \cup {None}
              /\ child[l].sess \in Sessions \cup {None}
              /\ child[l].nth \in Nat
         /\ \A t \in Tasks :
              /\ task[t] \in Task
              /\ task[t].owner \in Sessions \cup {None}
         /\ \A c \in Calls : calls[c] \in Call /\ CallKnown(calls[c])
BY DEF Typed, TypeOK, Child, Task, Dead, Exits

\* Moving a call to another stage, or ending it, keeps the calls typed.
LEMMA GotoTyped ==
  ASSUME Typed, NEW c \in Calls,
         NEW stage \in {"launch", "register", "undo", "record", "kill",
                        "report", "close"},
         stage \in Working => calls[c].l \in Launches,
         Goto(c, stage) \/ Return(c)
  PROVE  calls' \in [Calls -> Call] /\ \A d \in Calls : CallKnown(calls'[d])
<1>1. calls \in [Calls -> Call] /\ \A d \in Calls : CallKnown(calls[d])
  BY DEF Typed, TypeOK
<1>2. CASE Goto(c, stage)
  <2>1. calls' = [calls EXCEPT ![c].at = stage]
    BY <1>2 DEF Goto
  <2>2. [calls[c] EXCEPT !.at = stage] \in Call
    BY <1>1 DEF Call
  <2>3. CallKnown([calls[c] EXCEPT !.at = stage])
    BY <1>1 DEF CallKnown, Call
  <2>4. QED
    BY <1>1, <2>1, <2>2, <2>3
<1>3. CASE Return(c)
  <2>1. calls' = [calls EXCEPT ![c] = NoCall]
    BY <1>3 DEF Return
  <2>2. NoCall \in Call /\ CallKnown(NoCall)
    BY DEF NoCall, Call, CallKnown, Working
  <2>3. QED
    BY <1>1, <2>1, <2>2
<1>4. QED
  BY <1>2, <1>3

\* A call that takes up a launch keeps the calls typed.
LEMMA TakeUpTyped ==
  ASSUME Typed, NEW c \in Calls, NEW l \in Launches,
         NEW stage \in {"launch", "kill"},
         calls' = [calls EXCEPT ![c].at = stage, ![c].l = l]
  PROVE  calls' \in [Calls -> Call] /\ \A d \in Calls : CallKnown(calls'[d])
<1>1. calls \in [Calls -> Call] /\ \A d \in Calls : CallKnown(calls[d])
  BY DEF Typed, TypeOK
<1>2. [calls[c] EXCEPT !.at = stage, !.l = l] \in Call
  BY <1>1 DEF Call
<1>3. CallKnown([calls[c] EXCEPT !.at = stage, !.l = l])
  BY <1>1 DEF CallKnown, Call
<1>4. calls' = [calls EXCEPT ![c] = [calls[c] EXCEPT !.at = stage, !.l = l]]
  BY <1>1
<1>5. QED
  BY <1>1, <1>2, <1>3, <1>4

\* A new status keeps the tasks typed.
LEMMA SetTaskTyped ==
  ASSUME Typed, NEW t, NEW status \in TaskStatuses, SetTask(t, status)
  PROVE  task' \in [Tasks -> Task]
BY DEF Typed, TypeOK, SetTask, Task

\* Killing keeps a process record a record.
LEMMA SignalledTyped ==
  ASSUME NEW r \in Child
  PROVE  /\ Signalled(r) \in Child
         /\ Signalled(r).proc # "alive"
         /\ Signalled(r).of = r.of
         /\ Signalled(r).sess = r.sess
         /\ Signalled(r).closing => r.closing
         /\ r.proc # "alive" => Signalled(r).proc = r.proc
         /\ r.proc = "alive" => Signalled(r).proc = "killed"
BY DEF Signalled, Ended, Child, Dead, Exits

\* So does taking another entry from the registry.
LEMMA AdvanceTyped ==
  ASSUME Typed, NEW S \in SUBSET Launches, Advance(S)
  PROVE  /\ child' \in [Launches -> Child]
         /\ registry' \in SUBSET Launches
         /\ reaper' \in Reaper
         /\ ReaperKnown'
<1>1. /\ child \in [Launches -> Child] /\ registry \in SUBSET Launches
  BY DEF Typed, TypeOK
<1>2. CASE Claimable(S) = {}
  BY <1>1, <1>2 DEF Advance, NoReap, Reaper, ReaperKnown
<1>3. CASE Claimable(S) # {}
  <2>1. PICK l \in Claimable(S) : \E e \in Entries(child[l].sess) :
          /\ registry' = registry \ {e}
          /\ child' = [child EXCEPT ![e].reaped = TRUE]
          /\ reaper' = [at |-> "run", l |-> e, todo |->
                          {k \in S : child[k].nth > child[l].nth}]
    BY <1>3 DEF Advance
  <2>2. PICK e \in Entries(child[l].sess) :
          /\ registry' = registry \ {e}
          /\ child' = [child EXCEPT ![e].reaped = TRUE]
          /\ reaper' = [at |-> "run", l |-> e, todo |->
                          {k \in S : child[k].nth > child[l].nth}]
    BY <2>1
  <2>0. e \in Launches
    BY <1>1 DEF Entries
  <2>3. child' \in [Launches -> Child]
    BY <1>1, <2>2 DEF Child
  <2>4. QED
    BY <1>1, <2>0, <2>2, <2>3 DEF Reaper, ReaperKnown
<1>4. QED
  BY <1>2, <1>3

LEMMA TypedInit == Init => Typed
<1> SUFFICES ASSUME Init PROVE Typed
  OBVIOUS
<1>1. task \in [Tasks -> Task]
  BY SubagentAssumption DEF Init, Task, TaskStatuses, Terminal, Completed, Sessions
<1>2. child \in [Launches -> Child]
  BY DEF Init, Child
<1>3. calls \in [Calls -> Call] /\ \A c \in Calls : CallKnown(calls[c])
  BY DEF Init, NoCall, Call, CallKnown, Working
<1>4. /\ registry \in SUBSET Launches /\ reports \in [Launches -> Nat]
      /\ phase = "running" /\ reaper = NoReap
  BY DEF Init
<1>5. QED
  BY <1>1, <1>2, <1>3, <1>4 DEF Typed, TypeOK, NoReap, Reaper, ReaperKnown

\* What a step that leaves some of the variables alone has to establish.
LEMMA TypedFrame ==
  ASSUME Typed,
         task' \in [Tasks -> Task], child' \in [Launches -> Child],
         registry' \in SUBSET Launches, reports' \in [Launches -> Nat],
         \/ UNCHANGED calls
         \/ calls' \in [Calls -> Call] /\ \A d \in Calls : CallKnown(calls'[d]),
         UNCHANGED reaper \/ (reaper' \in Reaper /\ ReaperKnown'),
         phase' \in {"running", "stopping", "down"}
  PROVE  Typed'
BY DEF Typed, TypeOK, ReaperKnown

LEMMA LeadTyped ==
  ASSUME Typed, NEW c \in Calls, CallStep(c)
  PROVE  Typed'
<1> USE DEF Working
<1>0. /\ task \in [Tasks -> Task] /\ child \in [Launches -> Child]
      /\ registry \in SUBSET Launches /\ reports \in [Launches -> Nat]
      /\ phase \in {"running", "stopping", "down"}
      /\ calls[c] \in Call /\ CallKnown(calls[c])
  BY DEF Typed, TypeOK
<1> USE <1>0
<1>1. ASSUME NEW l \in Launches, NEW t \in Tasks \cup {None},
             NEW s \in Sessions \cup {None}, Prepare(c, l, t, s)
      PROVE  /\ child' \in [Launches -> Child]
             /\ calls' \in [Calls -> Call]
             /\ \A d \in Calls : CallKnown(calls'[d])
  <2>1. child' = [child EXCEPT ![l] = [child[l] EXCEPT !.of = t, !.sess = s]]
    BY <1>1 DEF Prepare
  <2>2. [child[l] EXCEPT !.of = t, !.sess = s] \in Child
    BY <1>1 DEF Child
  <2>3. calls' = [calls EXCEPT ![c].at = "launch", ![c].l = l]
    BY <1>1 DEF Prepare
  <2>4. QED
    BY <2>1, <2>2, <2>3, TakeUpTyped
<1>2. ASSUME NEW l \in Launches, NEW t \in Tasks, SpawnNew(c, l, t)
      PROVE  Typed'
  <2>1. task' \in [Tasks -> Task]
    <3> DEFINE r == [task[t] EXCEPT !.status = "QUEUED", !.owner = l]
    <3>1. task' = [task EXCEPT ![t] = r]
      BY <1>2 DEF SpawnNew
    <3>2. r \in Task
      BY Parts DEF Task, TaskStatuses, Sessions
    <3>3. QED
      BY <3>1, <3>2 DEF Typed, TypeOK
  <2>2. QED
    BY <1>1, <1>2, <2>1, TypedFrame DEF SpawnNew, Sessions
<1>3. ASSUME NEW l \in Launches, SpawnPlanned(c, l) PROVE Typed'
  BY <1>1, <1>3, TypedFrame DEF SpawnPlanned, Sessions, CallKnown
<1>4. ASSUME NEW l \in Launches, Resume(c, l) PROVE Typed'
  <2>1. calls[c].arg \in Tasks
    BY <1>4 DEF Resume, CallKnown
  <2>2. task[calls[c].arg].owner \in Sessions \cup {None}
    BY <2>1, Parts
  <2>3. QED
    BY <1>1, <1>4, <2>1, <2>2, TypedFrame DEF Resume
<1>5. CASE Launch(c)
  <2>1. calls[c].l \in Launches
    BY <1>5 DEF Launch, CallKnown
  <2>2. child' \in [Launches -> Child]
    BY <1>5 DEF Launch, Child
  <2>3. QED
    BY <1>5, <2>1, <2>2, GotoTyped, TypedFrame DEF Launch
<1>6. CASE LaunchFails(c)
  <2>1. task' \in [Tasks -> Task]
    BY <1>6, SetTaskTyped DEF LaunchFails, TaskStatuses, Terminal
  <2>2. QED
    BY <1>6, <2>1, GotoTyped, TypedFrame DEF LaunchFails
<1>7. CASE Register(c)
  <2>1. calls[c].l \in Launches
    BY <1>7 DEF Register, CallKnown
  <2>2. child' \in [Launches -> Child]
    BY <1>7, NextPlace DEF Register, Child
  <2>3. QED
    BY <1>7, <2>1, <2>2, GotoTyped, TypedFrame DEF Register
<1>8. CASE RegisterRefused(c)
  <2>1. calls[c].l \in Launches
    BY <1>8 DEF RegisterRefused, CallKnown
  <2>2. QED
    BY <1>8, <2>1, GotoTyped, TypedFrame DEF RegisterRefused
<1>9. CASE UndoLaunch(c)
  <2>1. calls[c].l \in Launches
    BY <1>9 DEF UndoLaunch, CallKnown
  <2>2. child' \in [Launches -> Child]
    BY <1>9, <2>1, SignalledTyped DEF UndoLaunch
  <2>3. task' \in [Tasks -> Task]
    BY <1>9, SetTaskTyped DEF UndoLaunch, TaskStatuses, Terminal
  <2>4. QED
    BY <1>9, <2>2, <2>3, GotoTyped, TypedFrame DEF UndoLaunch
<1>10. CASE RecordLaunch(c)
  <2>1. child[calls[c].l].sess \in Sessions \cup {None}
    BY <1>10, Parts DEF RecordLaunch, CallKnown
  <2>2. task' \in [Tasks -> Task]
    <3> DEFINE k == child[calls[c].l]
               r == [task[k.of] EXCEPT !.status = "RUNNING", !.owner =
                       IF calls[c].tool = "spawn" THEN k.sess ELSE @]
    <3>1. task' = [task EXCEPT ![k.of] = r]
      BY <1>10 DEF RecordLaunch
    <3>2. k.of \in Tasks => r \in Task
      BY <2>1, Parts DEF Task, TaskStatuses
    <3>3. QED
      BY <3>1, <3>2
  <2>3. QED
    BY <1>10, <2>2, GotoTyped, TypedFrame DEF RecordLaunch
<1>11. CASE ClaimToKill(c)
  <2>1. PICK l \in Entries(Target(c)) :
          /\ registry' = registry \ {l}
          /\ calls' = [calls EXCEPT ![c].at = "kill", ![c].l = l]
    BY <1>11 DEF ClaimToKill
  <2>2. l \in Launches
    BY DEF Entries
  <2>3. QED
    BY <1>11, <2>1, <2>2, TakeUpTyped, TypedFrame DEF ClaimToKill
<1>12. CASE StopIdle(c)
  BY <1>12, GotoTyped, TypedFrame DEF StopIdle
<1>13. CASE Kill(c)
  <2>1. calls[c].l \in Launches
    BY <1>13 DEF Kill, CallKnown
  <2>2. child' \in [Launches -> Child]
    BY <1>13, <2>1, SignalledTyped DEF Kill
  <2>3. QED
    BY <1>13, <2>1, <2>2, GotoTyped, TypedFrame DEF Kill
<1>14. CASE ReportKill(c)
  <2>1. reports' \in [Launches -> Nat]
    <3>1. calls[c].l \in Launches
      BY <1>14 DEF ReportKill, CallKnown
    <3>2. reports' = [reports EXCEPT ![calls[c].l] = @ + 1]
      BY <1>14 DEF ReportKill
    <3>3. QED
      BY <3>1, <3>2
  <2>2. QED
    BY <1>14, <2>1, GotoTyped, TypedFrame DEF ReportKill
<1>15. CASE CloseTask(c)
  <2>1. task' \in [Tasks -> Task]
    BY <1>15, SetTaskTyped DEF CloseTask, TaskStatuses, Terminal
  <2>2. QED
    BY <1>15, <2>1, GotoTyped, TypedFrame DEF CloseTask
<1>16. CASE Refuse(c) \/ StoreError(c)
  BY <1>16, GotoTyped, TypedFrame DEF Refuse, StoreError
<1>17. QED
  BY <1>2, <1>3, <1>4, <1>5, <1>6, <1>7, <1>8, <1>9, <1>10, <1>11, <1>12,
     <1>13, <1>14, <1>15, <1>16 DEF CallStep

LEMMA ReaperTyped ==
  ASSUME Typed, ReaperStep
  PROVE  Typed'
<1>0. /\ task \in [Tasks -> Task] /\ child \in [Launches -> Child]
      /\ registry \in SUBSET Launches /\ reports \in [Launches -> Nat]
      /\ phase \in {"running", "stopping", "down"}
      /\ reaper \in Reaper /\ ReaperKnown
  BY DEF Typed, TypeOK
<1> USE <1>0
<1>1. CASE Poll
  BY <1>1, AdvanceTyped, TypedFrame DEF Poll
<1>2. CASE CloseRun
  <2>1. reaper' \in Reaper /\ ReaperKnown'
    BY <1>2 DEF CloseRun, Reaper, ReaperKnown
  <2>2. QED
    BY <1>2, <2>1, TypedFrame DEF CloseRun
<1>3. CASE Verdict
  <2>1. reaper' \in Reaper /\ ReaperKnown'
    BY <1>3 DEF Verdict, Reaper, ReaperKnown
  <2>2. task' \in [Tasks -> Task]
    <3> DEFINE r == child[reaper.l]
               done == \/ r.proc = "report"
                       \/ r.proc = "blank" /\ task[r.of].final
               status == IF done THEN Completed ELSE "FAILED"
    <3>1. task' = [task EXCEPT ![r.of].status = status,
                               ![r.of].final = task[r.of].final \/ done]
      BY <1>3 DEF Verdict
    <3>2. status \in TaskStatuses
      BY DEF TaskStatuses, Terminal
    <3>3. (done \in BOOLEAN) /\ ((task[r.of].final \/ done) \in BOOLEAN)
      OBVIOUS
    <3> HIDE DEF done, status
    <3>4. QED
      BY <3>1, <3>2, <3>3 DEF Task
  <2>4. QED
    BY <1>3, <2>1, <2>2, TypedFrame DEF Verdict
<1>4. CASE SendReport
  <2>1. reports' \in [Launches -> Nat]
    <3>1. reaper.l \in Launches
      BY <1>4 DEF SendReport, ReaperKnown
    <3>2. reports' = [reports EXCEPT ![reaper.l] = @ + 1]
      BY <1>4 DEF SendReport
    <3>3. QED
      BY <3>1, <3>2
  <2>2. reaper.todo \in SUBSET Launches
    BY DEF Reaper
  <2>3. QED
    BY <1>4, <2>1, <2>2, AdvanceTyped, TypedFrame DEF SendReport
<1>5. CASE SendReportFails
  <2>1. reaper.todo \in SUBSET Launches
    BY DEF Reaper
  <2>2. QED
    BY <1>5, <2>1, AdvanceTyped, TypedFrame DEF SendReportFails
<1>6. CASE ReaperFails
  <2>1. reaper' \in Reaper /\ ReaperKnown'
    BY <1>6 DEF ReaperFails, NoReap, Reaper, ReaperKnown
  <2>2. QED
    BY <1>6, <2>1, TypedFrame DEF ReaperFails
<1>7. QED
  BY <1>1, <1>2, <1>3, <1>4, <1>5, <1>6 DEF ReaperStep

LEMMA ChildTyped ==
  ASSUME Typed, NEW l \in Launches, ChildStep(l)
  PROVE  Typed'
<1>0. /\ task \in [Tasks -> Task] /\ child \in [Launches -> Child]
      /\ registry \in SUBSET Launches /\ reports \in [Launches -> Nat]
      /\ phase \in {"running", "stopping", "down"}
  BY DEF Typed, TypeOK
<1> USE <1>0
<1>1. CASE Ask(l) \/ Resolve(l)
  <2>1. task' \in [Tasks -> Task]
    BY <1>1, SetTaskTyped DEF Ask, Resolve, TaskStatuses
  <2>2. child' \in [Launches -> Child]
    <3>1. PICK b \in BOOLEAN : child' = [child EXCEPT ![l].asking = b]
      BY <1>1 DEF Ask, Resolve
    <3>2. QED
      BY <3>1 DEF Child
  <2>3. QED
    BY <1>1, <2>1, <2>2, TypedFrame DEF Ask, Resolve
<1>2. CASE RecordOutput(l)
  <2>1. task' \in [Tasks -> Task]
    BY <1>2 DEF RecordOutput, Task
  <2>2. child' \in [Launches -> Child]
    BY <1>2 DEF RecordOutput, Child
  <2>3. QED
    BY <1>2, <2>1, <2>2, TypedFrame DEF RecordOutput
<1>3. CASE CompleteTask(l)
  <2>1. task' \in [Tasks -> Task]
    BY <1>3, SetTaskTyped DEF CompleteTask, TaskStatuses, Terminal
  <2>2. child' \in [Launches -> Child]
    BY <1>3 DEF CompleteTask, Child
  <2>3. QED
    BY <1>3, <2>1, <2>2, TypedFrame DEF CompleteTask
<1>4. ASSUME NEW how \in Exits, Exit(l, how) PROVE Typed'
  <2>1. child' \in [Launches -> Child]
    <3>1. Ended(child[l], how) \in Child
      BY <1>4 DEF Ended, Child, Dead
    <3>2. child' = [child EXCEPT ![l] = Ended(child[l], how)]
      BY <1>4 DEF Exit
    <3>3. QED
      BY <3>1, <3>2
  <2>2. QED
    BY <1>4, <2>1, TypedFrame DEF Exit
<1>5. QED
  BY <1>1, <1>2, <1>3, <1>4 DEF ChildStep

LEMMA CancelTyped ==
  ASSUME Typed, CancelCalls
  PROVE  /\ child' \in [Launches -> Child]
         /\ calls' \in [Calls -> Call]
         /\ \A d \in Calls : CallKnown(calls'[d])
<1>1. child \in [Launches -> Child]
  BY DEF Typed, TypeOK
<1>2. child' \in [Launches -> Child]
  BY <1>1, SignalledTyped DEF CancelCalls
<1>3. calls' \in [Calls -> Call] /\ \A d \in Calls : CallKnown(calls'[d])
  BY DEF CancelCalls, NoCall, Call, CallKnown, Working
<1>4. QED
  BY <1>2, <1>3

LEMMA RuntimeTyped ==
  ASSUME Typed, RuntimeStep
  PROVE  Typed'
<1>0. /\ task \in [Tasks -> Task] /\ child \in [Launches -> Child]
      /\ registry \in SUBSET Launches /\ reports \in [Launches -> Nat]
      /\ phase \in {"running", "stopping", "down"}
  BY DEF Typed, TypeOK
<1>1. NoReap \in Reaper /\ (reaper' = NoReap => ReaperKnown')
  BY DEF NoReap, Reaper, ReaperKnown
<1> USE <1>0
<1>2. CASE EndShutdown \/ Restart
  BY <1>2, TypedFrame DEF EndShutdown, Restart
<1>3. CASE CancelReaper
  BY <1>1, <1>3, TypedFrame DEF CancelReaper
<1>4. ASSUME NEW l \in Launches, TerminateOne(l) PROVE Typed'
  <2>1. child' \in [Launches -> Child]
    BY <1>4, SignalledTyped DEF TerminateOne
  <2>2. task' \in [Tasks -> Task]
    <3>1. PICK status \in Terminal :
            task' = [task EXCEPT ![child[l].of].status = status]
      BY <1>4 DEF TerminateOne, Terminal
    <3>2. status \in TaskStatuses
      BY DEF TaskStatuses
    <3>3. QED
      BY <3>1, <3>2 DEF Task
  <2>3. QED
    BY <1>4, <2>1, <2>2, TypedFrame DEF TerminateOne
<1>5. CASE Crash
  <2>1. calls' \in [Calls -> Call] /\ \A d \in Calls : CallKnown(calls'[d])
    BY <1>5 DEF Crash, NoCall, Call, CallKnown, Working
  <2>2. QED
    BY <1>1, <1>5, <2>1, TypedFrame DEF Crash
<1>6. CASE BeginShutdown
  BY <1>6, CancelTyped, TypedFrame DEF BeginShutdown
<1>7. QED
  BY <1>2, <1>3, <1>4, <1>5, <1>6 DEF RuntimeStep

LEMMA TypedStep == Typed /\ [Next]_vars => Typed'
<1> SUFFICES ASSUME Typed, [Next]_vars PROVE Typed'
  OBVIOUS
<1>0. /\ task \in [Tasks -> Task] /\ child \in [Launches -> Child]
      /\ registry \in SUBSET Launches /\ reports \in [Launches -> Nat]
      /\ phase \in {"running", "stopping", "down"}
  BY DEF Typed, TypeOK
<1>1. ASSUME NEW t \in Tasks, PlanTask(t) PROVE Typed'
  <2>1. task' \in [Tasks -> Task]
    BY <1>1, SetTaskTyped DEF PlanTask, TaskStatuses
  <2>2. QED
    BY <1>0, <1>1, <2>1, TypedFrame DEF PlanTask
<1>2. ASSUME NEW t \in Tasks, NEW status \in TaskStatuses \ {"NONE"},
             UpdateTask(t, status)
      PROVE  Typed'
  <2>1. task' \in [Tasks -> Task]
    BY <1>2, SetTaskTyped DEF UpdateTask
  <2>2. QED
    BY <1>0, <1>2, <2>1, TypedFrame DEF UpdateTask
<1>3. CASE CallTools
  <2>1. \A r \in Requests \cup {NoCall} : r \in Call /\ CallKnown(r)
    BY RequestIsCall DEF Typed
  <2>2. calls' \in [Calls -> Requests \cup {NoCall}]
    BY <1>3 DEF CallTools
  <2>3. calls' \in [Calls -> Call] /\ \A d \in Calls : CallKnown(calls'[d])
    BY <2>1, <2>2
  <2>4. QED
    BY <1>0, <1>3, <2>3, TypedFrame DEF CallTools
<1>4. CASE Interrupt
  BY <1>0, <1>4, CancelTyped, TypedFrame DEF Interrupt
<1>5. CASE UNCHANGED vars
  BY <1>0, <1>5, TypedFrame DEF vars
<1>6. QED
  BY <1>1, <1>2, <1>3, <1>4, <1>5, LeadTyped, ReaperTyped, ChildTyped,
     RuntimeTyped DEF Next

\* Every call works on a launch, task or session of the kind its tool needs,
\* and the reaper is idle or has a launch in hand.
THEOREM TypedAlways == Spec => []Typed
<1>1. QED
  BY TypedInit, TypedStep, PTL DEF Spec

\* The variables keep their types, for any number of tasks and launches.
THEOREM TypesHold == Spec => []TypeOK
<1>1. Typed => TypeOK
  BY DEF Typed
<1>2. QED
  BY <1>1, TypedAlways, PTL

-----------------------------------------------------------------------------
(* Children have an owner                                                  *)

\* NoOrphan is inductive when no step of one actor can take a child from the
\* hands of another: what each step does to one launch.
LEMMA NoOrphanStep ==
  ASSUME "crash" \notin Faults, Typed, NoOrphan, [Next]_vars
  PROVE  NoOrphan'
<1>0. /\ task \in [Tasks -> Task] /\ child \in [Launches -> Child]
      /\ registry \in SUBSET Launches /\ calls \in [Calls -> Call]
      /\ \A c \in Calls : CallKnown(calls[c])
  BY DEF Typed, TypeOK
<1>1. SUFFICES ASSUME NEW k \in Launches, Alive(k)'
               PROVE  (k \in registry \/ HeldByCall(k) \/ child[k].reaped)'
  BY DEF NoOrphan
<1>2. Alive(k) => k \in registry \/ HeldByCall(k) \/ child[k].reaped
  BY DEF NoOrphan
<1> USE <1>0, <1>1, <1>2
\* A step that keeps child, registry and the calls that hold one.
<1>3. ASSUME Alive(k), k \in registry => k \in registry', child'[k].reaped = child[k].reaped,
             \A c \in Calls : \/ calls'[c] = calls[c]
                             \/ calls[c].at \notin {"register", "undo", "kill"}
      PROVE  (k \in registry \/ HeldByCall(k) \/ child[k].reaped)'
  BY <1>3 DEF HeldByCall
<1>4. ASSUME NEW c \in Calls, CallStep(c)
      PROVE  (k \in registry \/ HeldByCall(k) \/ child[k].reaped)'
  <2>1. ASSUME NEW l \in Launches, NEW t \in Tasks \cup {None}, NEW s,
               calls[c].at = "start", Prepare(c, l, t, s), registry' = registry
        PROVE  (k \in registry \/ HeldByCall(k) \/ child[k].reaped)'
    BY <1>3, <2>1 DEF Prepare, Alive, Child
  <2>2. ASSUME NEW l \in Launches, NEW t \in Tasks, SpawnNew(c, l, t)
        PROVE  (k \in registry \/ HeldByCall(k) \/ child[k].reaped)'
    BY <2>1, <2>2 DEF SpawnNew
  <2>3. ASSUME NEW l \in Launches, SpawnPlanned(c, l) \/ Resume(c, l)
        PROVE  (k \in registry \/ HeldByCall(k) \/ child[k].reaped)'
    BY <2>1, <2>3 DEF SpawnPlanned, Resume, CallKnown
  <2>4. CASE Launch(c)
    BY <1>3, <2>4 DEF Launch, Goto, Alive, HeldByCall, Call
  <2>5. CASE LaunchFails(c) \/ RecordLaunch(c) \/ StopIdle(c) \/ ReportKill(c)
             \/ CloseTask(c) \/ Refuse(c) \/ StoreError(c)
    BY <1>3, <2>5 DEF LaunchFails, RecordLaunch, StopIdle, ReportKill,
                      CloseTask, Refuse, StoreError, Goto, Return, Alive, Call
  <2>6. CASE Register(c)
    <3>1. CASE k = calls[c].l
      BY <2>6, <3>1 DEF Register
    <3>2. CASE k # calls[c].l
      BY <2>6, <3>2 DEF Register, Goto, Alive, HeldByCall, Child
    <3>3. QED
      BY <3>1, <3>2
  <2>7. CASE RegisterRefused(c)
    BY <2>7 DEF RegisterRefused, Goto, Alive, HeldByCall, Call
  <2>8. CASE UndoLaunch(c) \/ Kill(c)
    <3>1. child' = [child EXCEPT ![calls[c].l] = Signalled(@)]
      BY <2>8 DEF UndoLaunch, Kill
    <3>2. k # calls[c].l
      BY <3>1, SignalledTyped DEF Alive
    <3>3. QED
      BY <2>8, <3>1, <3>2 DEF UndoLaunch, Kill, Goto, Return, Alive,
                              HeldByCall
  <2>9. CASE ClaimToKill(c)
    <3>1. PICK l \in Entries(Target(c)) :
            /\ registry' = registry \ {l}
            /\ calls' = [calls EXCEPT ![c].at = "kill", ![c].l = l]
      BY <2>9 DEF ClaimToKill
    <3>2. calls[c].at = "start" /\ child' = child
      BY <2>9 DEF ClaimToKill
    <3>3. CASE k = l
      BY <3>1, <3>3 DEF HeldByCall, Call
    <3>4. CASE k # l
      BY <1>3, <3>1, <3>2, <3>4 DEF Alive
    <3>5. QED
      BY <3>3, <3>4
  <2>10. QED
    BY <1>4, <2>2, <2>3, <2>4, <2>5, <2>6, <2>7, <2>8, <2>9 DEF CallStep
<1>5. CASE ReaperStep
  <2>1. ASSUME NEW S, Advance(S), calls' = calls
        PROVE  (k \in registry \/ HeldByCall(k) \/ child[k].reaped)'
    <3>1. CASE Claimable(S) = {}
      BY <1>3, <2>1, <3>1 DEF Advance, Alive
    <3>2. CASE Claimable(S) # {}
      <4>1. PICK e : /\ registry' = registry \ {e}
                     /\ child' = [child EXCEPT ![e].reaped = TRUE]
        BY <2>1, <3>2 DEF Advance
      <4>2. QED
        BY <1>3, <2>1, <4>1 DEF Alive, Child
    <3>3. QED
      BY <3>1, <3>2
  <2>2. CASE Poll \/ SendReport \/ SendReportFails
    BY <2>1, <2>2 DEF Poll, SendReport, SendReportFails
  <2>3. CASE CloseRun \/ Verdict \/ ReaperFails
    BY <1>3, <2>3 DEF CloseRun, Verdict, ReaperFails, Alive
  <2>4. QED
    BY <1>5, <2>2, <2>3 DEF ReaperStep
<1>6. ASSUME NEW l \in Launches, ChildStep(l)
      PROVE  (k \in registry \/ HeldByCall(k) \/ child[k].reaped)'
  <2>1. registry' = registry /\ calls' = calls
    BY <1>6 DEF ChildStep, Ask, Resolve, RecordOutput, CompleteTask, Exit
  <2>2. Alive(k) /\ child'[k].reaped = child[k].reaped
    <3>1. CASE Ask(l) \/ Resolve(l) \/ RecordOutput(l) \/ CompleteTask(l)
      BY <3>1 DEF Ask, Resolve, RecordOutput, CompleteTask, Alive, Child
    <3>2. ASSUME NEW how \in Exits, Exit(l, how)
          PROVE  Alive(k) /\ child'[k].reaped = child[k].reaped
      BY <3>2 DEF Exit, Ended, Exits, Alive, Child
    <3>3. QED
      BY <1>6, <3>1, <3>2 DEF ChildStep
  <2>3. QED
    BY <1>3, <2>1, <2>2
<1>7. CASE RuntimeStep /\ ~BeginShutdown
  <2>1. CASE CancelReaper \/ EndShutdown \/ Restart
    BY <1>3, <2>1 DEF CancelReaper, EndShutdown, Restart, Alive
  <2>2. ASSUME NEW l \in Launches, TerminateOne(l)
        PROVE  (k \in registry \/ HeldByCall(k) \/ child[k].reaped)'
    <3>1. /\ child' = [child EXCEPT ![l] = Signalled(@)]
          /\ registry' = registry \ {l} /\ calls' = calls
      BY <2>2 DEF TerminateOne
    <3>2. k # l
      BY <3>1, SignalledTyped DEF Alive
    <3>3. QED
      BY <1>3, <3>1, <3>2 DEF Alive
  <2>3. QED
    BY <1>7, <2>1, <2>2 DEF RuntimeStep, Crash
<1>8. CASE Interrupt \/ BeginShutdown
  <2> DEFINE hit == {calls[c].l : c \in {d \in Calls :
                       calls[d].at \in {"register", "undo", "kill"}}}
  <2>1. /\ child' = [l \in Launches |->
                       IF l \in hit THEN Signalled(child[l]) ELSE child[l]]
        /\ registry' = registry
    BY <1>8 DEF Interrupt, BeginShutdown, CancelCalls
  <2>2. k \notin hit
    BY <2>1, SignalledTyped DEF Alive
  <2>3. ~HeldByCall(k)
    BY <2>2 DEF HeldByCall
  <2>4. QED
    BY <2>1, <2>2, <2>3 DEF Alive
<1>9. ASSUME NEW t \in Tasks, NEW status,
             PlanTask(t) \/ UpdateTask(t, status)
      PROVE  (k \in registry \/ HeldByCall(k) \/ child[k].reaped)'
  BY <1>3, <1>9 DEF PlanTask, UpdateTask, Alive
<1>10. CASE CallTools
  BY <1>3, <1>10 DEF CallTools, NoCall, Alive
<1>11. CASE UNCHANGED vars
  BY <1>3, <1>11 DEF vars, Alive
<1>12. QED
  BY <1>4, <1>5, <1>6, <1>7, <1>8, <1>9, <1>10, <1>11 DEF Next

\* No interleaving of spawns, resumes, stops, terminates, interrupts, reaper
\* passes and shutdowns leaves a running child that nobody answers for, as
\* long as the runtime's process is not killed.
THEOREM ChildrenHaveOwner ==
  ASSUME "crash" \notin Faults
  PROVE  Spec => []NoOrphan
<1>1. Init => NoOrphan
  BY DEF Init, NoOrphan, Alive
<1>2. Typed /\ NoOrphan /\ [Next]_vars => NoOrphan'
  BY NoOrphanStep
<1>3. QED
  BY <1>1, <1>2, TypedAlways, PTL DEF Spec

-----------------------------------------------------------------------------
(* One report per launch                                                   *)

\* Call c will launch k or answer for it.
Answering == {"launch", "register", "kill", "report"}
Holds(c, k) == calls[c].l = k /\ calls[c].at \in Answering

\* The right to report on k: nobody has it before k is prepared; then one call,
\* the registry or the reaper, and whoever has it has not used it.
OneRight(k) ==
  /\ child[k].of = None =>
       /\ \A c \in Calls : ~Holds(c, k)
       /\ k \notin registry /\ reaper.l # k /\ reports[k] = 0
  /\ \A c \in Calls : Holds(c, k) =>
       /\ k \notin registry /\ reaper.l # k /\ reports[k] = 0
       /\ \A d \in Calls : Holds(d, k) => d = c
  /\ k \in registry => reaper.l # k /\ reports[k] = 0
  /\ reaper.l = k => reports[k] = 0
  /\ reports[k] <= 1

OneRightEach == \A k \in Launches : OneRight(k)

\* A call gives a right up, or does nothing to the launch it works on.
LEMMA RightKept ==
  ASSUME Typed, NEW k \in Launches, OneRight(k),
         reports'[k] = reports[k], reaper'.l \in {reaper.l, None},
         child'[k].of = child[k].of, k \in registry' => k \in registry,
         \A c \in Calls : Holds(c, k)' => Holds(c, k)
  PROVE  OneRight(k)'
<1>1. None # k
  BY SubagentAssumption
<1>2. QED
  BY <1>1 DEF OneRight

\* A call takes up a launch that nobody has touched.
LEMMA PrepareRight ==
  ASSUME Typed, OneRightEach, NEW c \in Calls, NEW l \in Launches,
         NEW t \in Tasks, NEW s, Prepare(c, l, t, s),
         calls[c].at = "start", UNCHANGED <<registry, reports, reaper>>
  PROVE  OneRightEach'
<1>1. /\ child \in [Launches -> Child] /\ calls \in [Calls -> Call]
      /\ None \notin Tasks
  BY SubagentAssumption DEF Typed, TypeOK
<1>2. SUFFICES ASSUME NEW k \in Launches PROVE OneRight(k)'
  BY DEF OneRightEach
<1>3. OneRight(k) /\ child[l].of = None
  BY DEF OneRightEach, Prepare, Unused
<1>4. /\ child' = [child EXCEPT ![l] = [child[l] EXCEPT !.of = t, !.sess = s]]
      /\ calls' = [calls EXCEPT ![c] = [calls[c] EXCEPT !.at = "launch", !.l = l]]
  BY <1>1 DEF Prepare
<1>5. \A d \in Calls \ {c} : calls'[d] = calls[d]
  BY <1>1, <1>4
<1>6. calls'[c].at = "launch" /\ calls'[c].l = l
  BY <1>1, <1>4 DEF Call
<1>7. CASE k = l
  <2>1. \A d \in Calls : Holds(d, k)' <=> d = c
    BY <1>3, <1>5, <1>6, <1>7 DEF Holds, OneRight, Answering
  <2>2. child'[k].of # None
    BY <1>1, <1>4, <1>7 DEF Child
  <2>3. /\ k \notin registry /\ reaper.l # k /\ reports[k] = 0
    BY <1>3, <1>7 DEF OneRight
  <2>4. QED
    BY <2>1, <2>2, <2>3 DEF OneRight
<1>8. CASE k # l
  <2>1. child'[k] = child[k]
    BY <1>1, <1>4, <1>8
  <2>2. \A d \in Calls : Holds(d, k)' => Holds(d, k)
    BY <1>5, <1>6, <1>8 DEF Holds
  <2>3. QED
    BY <1>3, <2>1, <2>2, RightKept
<1>9. QED
  BY <1>7, <1>8

\* The reaper takes the right of the entry it removes, after it has used or
\* dropped the one it had.
LEMMA AdvanceRight ==
  ASSUME Typed, OneRightEach, NEW S \in SUBSET Launches, Advance(S),
         calls' = calls,
         \/ reports' = reports
         \/ /\ reaper.l \in Launches
            /\ reports' = [reports EXCEPT ![reaper.l] = @ + 1]
  PROVE  OneRightEach'
<1>1. /\ child \in [Launches -> Child] /\ reports \in [Launches -> Nat]
      /\ registry \in SUBSET Launches
  BY DEF Typed, TypeOK
<1>2. SUFFICES ASSUME NEW k \in Launches PROVE OneRight(k)'
  BY DEF OneRightEach
<1>3. OneRight(k) /\ k # None
  BY SubagentAssumption DEF OneRightEach
<1>4. \A c \in Calls : Holds(c, k)' <=> Holds(c, k)
  BY DEF Holds
<1>5. CASE Claimable(S) = {}
  <2>1. registry' = registry /\ child' = child /\ reaper'.l = None
    BY <1>5 DEF Advance, NoReap
  <2>2. QED
    BY <1>1, <1>3, <1>4, <2>1 DEF OneRight
<1>6. CASE Claimable(S) # {}
  <2>1. PICK e \in registry :
          /\ registry' = registry \ {e}
          /\ child' = [child EXCEPT ![e].reaped = TRUE]
          /\ reaper'.l = e
    BY <1>6 DEF Advance, Entries
  <2>2. child'[k].of = child[k].of
    BY <1>1, <2>1 DEF Child
  <2>3. QED
    BY <1>1, <1>3, <1>4, <2>1, <2>2 DEF OneRight
<1>7. QED
  BY <1>5, <1>6

LEMMA OneRightCall ==
  ASSUME Typed, OneRightEach, NEW c \in Calls, CallStep(c)
  PROVE  OneRightEach'
<1>0. /\ child \in [Launches -> Child] /\ reports \in [Launches -> Nat]
      /\ registry \in SUBSET Launches /\ calls \in [Calls -> Call]
      /\ CallKnown(calls[c])
  BY DEF Typed, TypeOK
<1>1. ASSUME NEW l \in Launches, NEW t \in Tasks, SpawnNew(c, l, t)
      PROVE  OneRightEach'
  BY <1>1, PrepareRight DEF SpawnNew
<1>2. ASSUME NEW l \in Launches, SpawnPlanned(c, l) PROVE OneRightEach'
  <2>1. calls[c].arg \in Tasks
    BY <1>0, <1>2 DEF SpawnPlanned, CallKnown
  <2>2. QED
    BY <1>2, <2>1, PrepareRight DEF SpawnPlanned
<1>3. ASSUME NEW l \in Launches, Resume(c, l) PROVE OneRightEach'
  <2>1. calls[c].arg \in Tasks
    BY <1>0, <1>3 DEF Resume, CallKnown
  <2>2. QED
    BY <1>3, <2>1, PrepareRight DEF Resume
<1>4. CASE \/ Launch(c) \/ LaunchFails(c) \/ RegisterRefused(c) \/ UndoLaunch(c)
           \/ RecordLaunch(c) \/ StopIdle(c) \/ Kill(c) \/ CloseTask(c)
           \/ Refuse(c) \/ StoreError(c)
  <2>1. SUFFICES ASSUME NEW k \in Launches PROVE OneRight(k)'
    BY DEF OneRightEach
  <2>2. OneRight(k)
    BY DEF OneRightEach
  <2>3. reports' = reports /\ reaper' = reaper /\ registry' = registry
    BY <1>4 DEF Launch, LaunchFails, RegisterRefused, UndoLaunch, RecordLaunch,
                StopIdle, Kill, CloseTask, Refuse, StoreError
  <2>4. child'[k].of = child[k].of
    <3>1. CASE child' = child
      BY <3>1
    <3>2. CASE Launch(c)
      BY <1>0, <3>2 DEF Launch, Child
    <3>3. CASE UndoLaunch(c) \/ Kill(c)
      <4>1. child' = [child EXCEPT ![calls[c].l] = Signalled(@)]
        BY <3>3 DEF UndoLaunch, Kill
      <4>2. QED
        BY <1>0, <4>1, SignalledTyped
    <3>4. QED
      BY <1>4, <3>1, <3>2, <3>3
         DEF LaunchFails, RegisterRefused, RecordLaunch, StopIdle, CloseTask,
             Refuse, StoreError
  <2>5. ASSUME NEW stage, Goto(c, stage),
               stage \in Answering => calls[c].at \in Answering
        PROVE  \A d \in Calls : Holds(d, k)' => Holds(d, k)
    BY <1>0, <2>5 DEF Goto, Holds, Call
  <2>6. ASSUME Return(c)
        PROVE  \A d \in Calls : Holds(d, k)' => Holds(d, k)
    BY <1>0, <2>6 DEF Return, NoCall, Holds, Answering, Call
  <2>7. \A d \in Calls : Holds(d, k)' => Holds(d, k)
    BY <1>4, <2>5, <2>6
       DEF Launch, LaunchFails, RegisterRefused, UndoLaunch, RecordLaunch,
           StopIdle, Kill, CloseTask, Refuse, StoreError, Answering
  <2>8. QED
    BY <2>2, <2>3, <2>4, <2>7, RightKept
<1>5. CASE Register(c)
  <2>1. SUFFICES ASSUME NEW k \in Launches PROVE OneRight(k)'
    BY DEF OneRightEach
  <2>2. OneRight(k)
    BY DEF OneRightEach
  <2>3. /\ reports' = reports /\ reaper' = reaper
        /\ registry' = registry \cup {calls[c].l}
        /\ calls[c].at = "register"
        /\ calls' = [calls EXCEPT ![c].at = "record"]
    BY <1>5 DEF Register, Goto
  <2>4. child'[k].of = child[k].of
    BY <1>0, <1>5 DEF Register, Child
  <2>5. \A d \in Calls : Holds(d, k)' <=> Holds(d, k) /\ d # c
    BY <1>0, <2>3 DEF Holds, Answering, Call
  <2>6. CASE k = calls[c].l
    <3>1. Holds(c, k)
      BY <2>3, <2>6 DEF Holds, Answering
    <3>2. QED
      BY <2>2, <2>3, <2>4, <2>5, <3>1 DEF OneRight
  <2>7. CASE k # calls[c].l
    BY <2>2, <2>3, <2>4, <2>5, <2>7, RightKept
  <2>8. QED
    BY <2>6, <2>7
<1>6. CASE ClaimToKill(c)
  <2>1. SUFFICES ASSUME NEW k \in Launches PROVE OneRight(k)'
    BY DEF OneRightEach
  <2>2. OneRight(k)
    BY DEF OneRightEach
  <2>3. PICK l \in registry :
          /\ registry' = registry \ {l}
          /\ calls' = [calls EXCEPT ![c].at = "kill", ![c].l = l]
    BY <1>6 DEF ClaimToKill, Entries
  <2>4. /\ reports' = reports /\ reaper' = reaper /\ child' = child
        /\ calls[c].at = "start"
    BY <1>6 DEF ClaimToKill
  <2>5. \A d \in Calls : Holds(d, k)' <=> Holds(d, k) \/ (d = c /\ k = l)
    BY <1>0, <2>3, <2>4 DEF Holds, Answering, Call
  <2>6. QED
    BY <2>2, <2>3, <2>4, <2>5 DEF OneRight
<1>7. CASE ReportKill(c)
  <2>1. SUFFICES ASSUME NEW k \in Launches PROVE OneRight(k)'
    BY DEF OneRightEach
  <2>2. OneRight(k)
    BY DEF OneRightEach
  <2>3. /\ registry' = registry /\ reaper' = reaper /\ child' = child
        /\ calls[c].at = "report"
        /\ reports' = [reports EXCEPT ![calls[c].l] = @ + 1]
        /\ Goto(c, "close") \/ Return(c)
    BY <1>7 DEF ReportKill
  <2>4. \A d \in Calls : Holds(d, k)' <=> Holds(d, k) /\ d # c
    BY <1>0, <2>3 DEF Holds, Answering, Call, Goto, Return, NoCall
  <2>5. CASE k = calls[c].l
    <3>1. Holds(c, k)
      BY <2>3, <2>5 DEF Holds, Answering
    <3>2. reports'[k] = reports[k] + 1
      BY <1>0, <2>3, <2>5
    <3>3. QED
      BY <1>0, <2>2, <2>3, <2>4, <3>1, <3>2 DEF OneRight
  <2>6. CASE k # calls[c].l
    <3>1. reports'[k] = reports[k]
      BY <1>0, <2>3, <2>6
    <3>2. QED
      BY <2>2, <2>3, <2>4, <3>1, RightKept
  <2>7. QED
    BY <2>5, <2>6
<1>8. QED
  BY <1>1, <1>2, <1>3, <1>4, <1>5, <1>6, <1>7 DEF CallStep

LEMMA OneRightReaper ==
  ASSUME Typed, OneRightEach, ReaperStep
  PROVE  OneRightEach'
<1>0. reaper \in Reaper /\ ReaperKnown /\ registry \in SUBSET Launches
  BY DEF Typed, TypeOK
<1>1. CASE Poll
  BY <1>0, <1>1, AdvanceRight DEF Poll
<1>2. CASE SendReport
  <2>1. reaper.l \in Launches /\ reaper.todo \in SUBSET Launches
    BY <1>0, <1>2 DEF SendReport, Reaper, ReaperKnown
  <2>2. QED
    BY <1>2, <2>1, AdvanceRight DEF SendReport
<1>3. CASE SendReportFails
  BY <1>0, <1>3, AdvanceRight DEF SendReportFails, Reaper
<1>4. CASE CloseRun \/ Verdict \/ ReaperFails
  <2>1. reaper'.l \in {reaper.l, None}
    BY <1>0, <1>4 DEF CloseRun, Verdict, ReaperFails, NoReap, Reaper
  <2>2. UNCHANGED <<child, registry, reports, calls>>
    BY <1>4 DEF CloseRun, Verdict, ReaperFails
  <2>3. QED
    BY <2>1, <2>2, RightKept DEF OneRightEach, Holds
<1>5. QED
  BY <1>1, <1>2, <1>3, <1>4 DEF ReaperStep

LEMMA OneRightStep == Typed /\ OneRightEach /\ [Next]_vars => OneRightEach'
<1> SUFFICES ASSUME Typed, OneRightEach, [Next]_vars,
                    NEW k \in Launches
             PROVE  OneRight(k)'
  BY DEF OneRightEach
<1>0. /\ child \in [Launches -> Child] /\ calls \in [Calls -> Call]
      /\ OneRight(k)
  BY DEF Typed, TypeOK, OneRightEach
<1>1. ASSUME NEW c \in Calls, CallStep(c) PROVE OneRight(k)'
  BY <1>1, OneRightCall DEF OneRightEach
<1>2. CASE ReaperStep
  BY <1>2, OneRightReaper DEF OneRightEach
<1>3. ASSUME NEW l \in Launches, ChildStep(l) PROVE OneRight(k)'
  <2>1. UNCHANGED <<registry, reports, calls, reaper>>
    BY <1>3 DEF ChildStep, Ask, Resolve, RecordOutput, CompleteTask, Exit
  <2>2. child'[k].of = child[k].of
    <3>1. CASE Ask(l) \/ Resolve(l) \/ RecordOutput(l) \/ CompleteTask(l)
      BY <1>0, <3>1 DEF Ask, Resolve, RecordOutput, CompleteTask, Child
    <3>2. ASSUME NEW how \in Exits, Exit(l, how)
          PROVE  child'[k].of = child[k].of
      BY <1>0, <3>2 DEF Exit, Ended, Child
    <3>3. QED
      BY <1>3, <3>1, <3>2 DEF ChildStep
  <2>3. QED
    BY <1>0, <2>1, <2>2, RightKept DEF Holds
<1>4. CASE RuntimeStep /\ ~BeginShutdown
  <2>1. CASE EndShutdown \/ Restart
    BY <1>0, <2>1, RightKept DEF EndShutdown, Restart, Holds
  <2>2. CASE CancelReaper \/ Crash
    BY <1>0, <2>2, RightKept
       DEF CancelReaper, Crash, NoReap, NoCall, Holds, Answering
  <2>3. ASSUME NEW l \in Launches, TerminateOne(l) PROVE OneRight(k)'
    <3>1. /\ child' = [child EXCEPT ![l] = Signalled(@)]
          /\ registry' = registry \ {l}
          /\ UNCHANGED <<reports, calls, reaper>>
      BY <2>3 DEF TerminateOne
    <3>2. child'[k].of = child[k].of
      BY <1>0, <3>1, SignalledTyped
    <3>3. QED
      BY <1>0, <3>1, <3>2, RightKept DEF Holds
  <2>4. QED
    BY <1>4, <2>1, <2>2, <2>3 DEF RuntimeStep
<1>5. CASE Interrupt \/ BeginShutdown
  <2>0. CancelCalls
    BY <1>5 DEF Interrupt, BeginShutdown
  <2>1. child'[k].of = child[k].of
    BY <1>0, <2>0, SignalledTyped DEF CancelCalls
  <2>2. \A c \in Calls : ~Holds(c, k)'
    BY <2>0 DEF CancelCalls, Holds, NoCall, Answering
  <2>3. UNCHANGED <<registry, reports, reaper>>
    BY <1>5 DEF Interrupt, BeginShutdown
  <2>4. QED
    BY <1>0, <2>1, <2>2, <2>3, RightKept
<1>6. CASE CallTools
  <2>1. calls' \in [Calls -> Requests \cup {NoCall}]
    BY <1>6 DEF CallTools
  <2>2. \A c \in Calls : calls'[c].at \in {"start", "idle"}
    BY <2>1, RequestIsCall DEF Typed
  <2>3. \A c \in Calls : ~Holds(c, k)'
    BY <2>2 DEF Holds, Answering
  <2>4. UNCHANGED <<child, registry, reports, reaper>>
    BY <1>6 DEF CallTools
  <2>5. QED
    BY <1>0, <2>3, <2>4, RightKept
<1>7. ASSUME NEW t \in Tasks, NEW status,
             PlanTask(t) \/ UpdateTask(t, status)
      PROVE  OneRight(k)'
  BY <1>0, <1>7, RightKept DEF PlanTask, UpdateTask, Holds
<1>8. CASE UNCHANGED vars
  BY <1>0, <1>8, RightKept DEF vars, Holds
<1>9. QED
  BY <1>1, <1>2, <1>3, <1>4, <1>5, <1>6, <1>7, <1>8 DEF Next

LEMMA OneRightInit == Init => OneRightEach
<1> SUFFICES ASSUME Init, NEW k \in Launches PROVE OneRight(k)
  BY DEF OneRightEach
<1>1. \A c \in Calls : ~Holds(c, k)
  BY DEF Init, NoCall, Holds, Answering
<1>2. registry = {} /\ reports[k] = 0 /\ reaper.l = None
  BY DEF Init, NoReap
<1>3. QED
  BY <1>1, <1>2, SubagentAssumption DEF OneRight

\* The reaper, task_stop, terminate_agent and the shutdown never post two final
\* reports for one launch, whatever fails and however their steps interleave.
THEOREM ReportedOnce == Spec => []AtMostOneReport
<1>1. OneRightEach => AtMostOneReport
  BY DEF OneRightEach, OneRight, AtMostOneReport
<1>2. QED
  BY <1>1, OneRightInit, OneRightStep, TypedAlways, PTL DEF Spec

-----------------------------------------------------------------------------
(* A completed task has its output                                         *)

\* Processes and calls belong to a task, and a child between the two writes of
\* task_output has made the first.
Launched(l) == child[l].of \in Tasks

OutputFirst ==
  /\ \A c \in Calls : calls[c].at \in Working => Launched(calls[c].l)
  /\ \A l \in Launches :
       child[l].proc # "none" \/ l \in registry => Launched(l)
  /\ \A l \in Launches : child[l].closing =>
       Launched(l) /\ task[child[l].of].final
  /\ CompletedHasOutput

\* What a step may do to the tasks: it takes no output away and completes
\* only what has one.
Kept == \A t \in Tasks :
  /\ task[t].final => task'[t].final
  /\ task'[t].status = Completed => task[t].status = Completed \/ task'[t].final

LEMMA SetTaskKeeps ==
  ASSUME Typed, NEW t, NEW status, status # Completed \/ task[t].final,
         SetTask(t, status)
  PROVE  Kept
BY DEF Typed, TypeOK, Task, SetTask, Kept

\* A step that starts nothing and opens no task_output.
LEMMA OutputFrame ==
  ASSUME Typed, OutputFirst, Kept,
         \A l \in Launches :
           /\ Launched(l) => child'[l].of = child[l].of
           /\ child'[l].closing => child[l].closing
           /\ child'[l].proc # "none" \/ l \in registry' => Launched(l),
         \A c \in Calls : calls'[c].at \in Working =>
           calls'[c].l \in Launches /\ Launched(calls'[c].l)
  PROVE  OutputFirst'
<1>1. \A l \in Launches : Launched(l) => Launched(l)'
  BY DEF Launched
<1>2. CompletedHasOutput'
  BY DEF OutputFirst, CompletedHasOutput, Kept
<1>3. ASSUME NEW l \in Launches, child'[l].closing
      PROVE  (Launched(l) /\ task[child[l].of].final)'
  BY <1>1, <1>3 DEF OutputFirst, Kept, Launched
<1>4. QED
  BY <1>1, <1>2, <1>3 DEF OutputFirst

LEMMA OutputCall ==
  ASSUME Typed, OutputFirst, NEW c \in Calls, CallStep(c)
  PROVE  OutputFirst'
<1>0. /\ child \in [Launches -> Child] /\ task \in [Tasks -> Task]
      /\ registry \in SUBSET Launches /\ calls \in [Calls -> Call]
      /\ \A d \in Calls : CallKnown(calls[d])
      /\ None \notin Tasks
  BY SubagentAssumption DEF Typed, TypeOK
<1>1. /\ \A d \in Calls : calls[d].at \in Working =>
            calls[d].l \in Launches /\ Launched(calls[d].l)
      /\ \A l \in Launches : child[l].proc # "none" \/ l \in registry => Launched(l)
      /\ \A l \in Launches : child[l].closing =>
            Launched(l) /\ task[child[l].of].final
      /\ CompletedHasOutput
  BY <1>0 DEF OutputFirst, CallKnown
<1>2. task' = task => Kept
  BY DEF Kept
<1>3. ASSUME NEW l \in Launches, NEW t \in Tasks, NEW s,
             Prepare(c, l, t, s), Kept, registry' = registry
      PROVE  OutputFirst'
  <2>1. /\ child' = [child EXCEPT ![l] = [child[l] EXCEPT !.of = t, !.sess = s]]
        /\ calls' = [calls EXCEPT ![c] = [calls[c] EXCEPT !.at = "launch", !.l = l]]
        /\ child[l].of = None
    BY <1>0, <1>3 DEF Prepare, Unused
  <2>2. ~Launched(l) /\ l \notin registry
    BY <1>0, <1>1, <2>1 DEF Launched
  <2>3. child[l].proc = "none" /\ ~child[l].closing
    BY <1>1, <2>2
  <2>4. /\ Launched(l)' /\ child'[l].proc = "none" /\ child'[l].closing = FALSE
        /\ l \notin registry'
    BY <1>0, <1>3, <2>1, <2>2, <2>3 DEF Launched, Child
  <2>5. \A k \in Launches \ {l} : child'[k] = child[k]
    BY <1>0, <2>1
  <2>6. (\A d \in Calls : calls[d].at \in Working => Launched(calls[d].l))'
    BY <1>0, <1>1, <2>1, <2>4, <2>5 DEF Launched, Call
  <2>7. CompletedHasOutput'
    BY <1>1, <1>3 DEF Kept, CompletedHasOutput
  <2>8. \A k \in Launches : child'[k].proc # "none" \/ k \in registry' => Launched(k)'
    BY <1>1, <1>3, <2>4, <2>5 DEF Launched
  <2>9. \A k \in Launches : child'[k].closing =>
            Launched(k)' /\ task'[child'[k].of].final
    BY <1>1, <1>3, <2>4, <2>5 DEF Launched, Kept
  <2>10. QED
    BY <2>6, <2>7, <2>8, <2>9 DEF OutputFirst
<1>4. ASSUME NEW l \in Launches, NEW t \in Tasks, SpawnNew(c, l, t)
      PROVE  OutputFirst'
  <2>1. Kept
    BY <1>0, <1>4 DEF SpawnNew, Kept, Task, Completed
  <2>2. QED
    BY <1>3, <1>4, <2>1 DEF SpawnNew
<1>5. ASSUME NEW l \in Launches, SpawnPlanned(c, l) \/ Resume(c, l)
      PROVE  OutputFirst'
  <2>1. calls[c].arg \in Tasks
    BY <1>0, <1>5 DEF SpawnPlanned, Resume, CallKnown
  <2>2. PICK s : Prepare(c, l, calls[c].arg, s)
    BY <1>5 DEF SpawnPlanned, Resume
  <2>3. Kept /\ registry' = registry
    BY <1>2, <1>5 DEF SpawnPlanned, Resume
  <2>4. QED
    BY <1>3, <2>1, <2>2, <2>3
\* The calls of the other tools' steps: the same launch at the next stage, or
\* none.
<1>6. ASSUME NEW stage, Goto(c, stage), calls[c].at \in Working \/ stage \notin Working
      PROVE  \A d \in Calls : calls'[d].at \in Working =>
               calls'[d].l \in Launches /\ Launched(calls'[d].l)
  BY <1>0, <1>1, <1>6 DEF Goto, Call
<1>7. ASSUME Return(c)
      PROVE  \A d \in Calls : calls'[d].at \in Working =>
               calls'[d].l \in Launches /\ Launched(calls'[d].l)
  BY <1>0, <1>1, <1>7 DEF Return, NoCall, Working
<1>8. CASE Launch(c)
  <2>1. calls[c].l \in Launches /\ Launched(calls[c].l)
    BY <1>1, <1>8 DEF Launch, Working
  <2>2. \A l \in Launches :
          /\ Launched(l) => child'[l].of = child[l].of
          /\ child'[l].closing => child[l].closing
          /\ child'[l].proc # "none" \/ l \in registry' => Launched(l)
    BY <1>0, <1>1, <1>8, <2>1 DEF Launch, Child
  <2>3. QED
    BY <1>2, <1>6, <1>8, <2>2, OutputFrame DEF Launch, Working
<1>9. CASE Register(c)
  <2>1. calls[c].l \in Launches /\ Launched(calls[c].l)
    BY <1>1, <1>9 DEF Register, Working
  <2>2. \A l \in Launches :
          /\ Launched(l) => child'[l].of = child[l].of
          /\ child'[l].closing => child[l].closing
          /\ child'[l].proc # "none" \/ l \in registry' => Launched(l)
    BY <1>0, <1>1, <1>9, <2>1 DEF Register, Child
  <2>3. QED
    BY <1>2, <1>6, <1>9, <2>2, OutputFrame DEF Register, Working
<1>10. ASSUME child' = child \/ child' = [child EXCEPT ![calls[c].l] = Signalled(@)],
              registry' \subseteq registry
       PROVE  \A l \in Launches :
                /\ Launched(l) => child'[l].of = child[l].of
                /\ child'[l].closing => child[l].closing
                /\ child'[l].proc # "none" \/ l \in registry' => Launched(l)
  BY <1>0, <1>1, <1>10, SignalledTyped DEF Child
<1>11. CASE LaunchFails(c) \/ UndoLaunch(c) \/ CloseTask(c)
  <2>1. Kept
    BY <1>11, SetTaskKeeps DEF LaunchFails, UndoLaunch, CloseTask, Completed
  <2>2. QED
    BY <1>7, <1>10, <1>11, <2>1, OutputFrame DEF LaunchFails, UndoLaunch, CloseTask
<1>12. CASE RecordLaunch(c)
  <2>1. Kept
    BY <1>0, <1>12 DEF RecordLaunch, Kept, Task, Completed
  <2>2. QED
    BY <1>7, <1>10, <1>12, <2>1, OutputFrame DEF RecordLaunch
<1>13. CASE RegisterRefused(c) \/ StopIdle(c) \/ Kill(c)
  <2>1. PICK stage : Goto(c, stage) /\ (calls[c].at \in Working \/ stage \notin Working)
    BY <1>13 DEF RegisterRefused, StopIdle, Kill, Working
  <2>2. QED
    BY <1>2, <1>6, <1>10, <1>13, <2>1, OutputFrame DEF RegisterRefused, StopIdle, Kill
<1>14. CASE ClaimToKill(c)
  <2>1. PICK l \in registry :
          /\ registry' = registry \ {l}
          /\ calls' = [calls EXCEPT ![c].at = "kill", ![c].l = l]
    BY <1>14 DEF ClaimToKill, Entries
  <2>2. \A d \in Calls : calls'[d].at \in Working =>
          calls'[d].l \in Launches /\ Launched(calls'[d].l)
    BY <1>0, <1>1, <2>1 DEF Call
  <2>3. QED
    BY <1>2, <1>10, <1>14, <2>1, <2>2, OutputFrame DEF ClaimToKill
<1>15. CASE ReportKill(c) \/ Refuse(c) \/ StoreError(c)
  <2>1. Goto(c, "close") \/ Return(c)
    BY <1>15 DEF ReportKill, Refuse, StoreError
  <2>2. QED
    BY <1>2, <1>6, <1>7, <1>10, <1>15, <2>1, OutputFrame
       DEF ReportKill, Refuse, StoreError, Working
<1>16. QED
  BY <1>4, <1>5, <1>8, <1>9, <1>11, <1>12, <1>13, <1>14, <1>15 DEF CallStep

LEMMA OutputChild ==
  ASSUME Typed, OutputFirst, NEW l \in Launches, ChildStep(l)
  PROVE  OutputFirst'
<1>0. /\ child \in [Launches -> Child] /\ task \in [Tasks -> Task]
      /\ \A c \in Calls : calls[c].at \in Working =>
            calls[c].l \in Launches /\ Launched(calls[c].l)
      /\ \A k \in Launches : child[k].proc # "none" \/ k \in registry => Launched(k)
      /\ \A k \in Launches : child[k].closing =>
            Launched(k) /\ task[child[k].of].final
      /\ CompletedHasOutput
  BY DEF Typed, TypeOK, OutputFirst, CallKnown
<1>1. UNCHANGED <<registry, calls>>
  BY DEF ChildStep, Ask, Resolve, RecordOutput, CompleteTask, Exit
<1>2. CASE Ask(l) \/ Resolve(l)
  <2>1. Kept
    BY <1>2, SetTaskKeeps DEF Ask, Resolve, Completed
  <2>2. PICK b \in BOOLEAN : child' = [child EXCEPT ![l].asking = b]
    BY <1>2 DEF Ask, Resolve
  <2>3. \A k \in Launches : /\ child'[k].of = child[k].of
                            /\ child'[k].closing = child[k].closing
                            /\ child'[k].proc = child[k].proc
    BY <1>0, <2>2 DEF Child
  <2>4. QED
    BY <1>0, <1>1, <2>1, <2>3, OutputFrame
<1>3. CASE RecordOutput(l)
  <2>1. child[l].of \in Tasks
    BY <1>0, <1>3 DEF RecordOutput, Alive, Launched
  <2>2. /\ task' = [task EXCEPT ![child[l].of].final = TRUE]
        /\ child' = [child EXCEPT ![l].closing = TRUE]
    BY <1>3 DEF RecordOutput
  <2>3. \A k \in Launches : /\ child'[k].of = child[k].of
                            /\ child'[k].closing => child[k].closing \/ k = l
                            /\ child'[k].proc = child[k].proc
    BY <1>0, <2>2 DEF Child
  <2>4. \A t \in Tasks :
          /\ task[t].final => task'[t].final
          /\ t = child[l].of => task'[t].final
          /\ task'[t].status = task[t].status
    BY <1>0, <2>1, <2>2 DEF Task
  <2>5. CompletedHasOutput'
    BY <1>0, <2>4 DEF CompletedHasOutput
  <2>6. \A k \in Launches : child'[k].closing =>
          Launched(k)' /\ task'[child'[k].of].final
    BY <1>0, <2>1, <2>3, <2>4 DEF Launched
  <2>7. QED
    BY <1>0, <1>1, <2>3, <2>5, <2>6 DEF OutputFirst, Launched
<1>4. CASE CompleteTask(l)
  <2>1. task[child[l].of].final
    BY <1>0, <1>4 DEF CompleteTask
  <2>2. Kept
    BY <1>4, <2>1, SetTaskKeeps DEF CompleteTask
  <2>3. \A k \in Launches : /\ child'[k].of = child[k].of
                            /\ child'[k].closing => child[k].closing
                            /\ child'[k].proc = child[k].proc
    BY <1>0, <1>4 DEF CompleteTask, Child
  <2>4. QED
    BY <1>0, <1>1, <2>2, <2>3, OutputFrame
<1>5. ASSUME NEW how \in Exits, Exit(l, how) PROVE OutputFirst'
  <2>1. child' = [child EXCEPT ![l] = Ended(child[l], how)]
    BY <1>5 DEF Exit
  <2>2. \A k \in Launches : /\ child'[k].of = child[k].of
                            /\ child'[k].closing => child[k].closing
                            /\ child'[k].proc # "none" => child[k].proc # "none"
    BY <1>0, <1>5, <2>1 DEF Exit, Ended, Alive, Child
  <2>3. Kept
    BY <1>5 DEF Exit, Kept
  <2>4. QED
    BY <1>0, <1>1, <2>2, <2>3, OutputFrame
<1>6. QED
  BY <1>2, <1>3, <1>4, <1>5 DEF ChildStep

LEMMA OutputStep ==
  ASSUME "update" \notin Tools, Typed, OutputFirst, [Next]_vars
  PROVE  OutputFirst'
<1>0. /\ child \in [Launches -> Child] /\ task \in [Tasks -> Task]
      /\ registry \in SUBSET Launches
      /\ \A c \in Calls : calls[c].at \in Working =>
            calls[c].l \in Launches /\ Launched(calls[c].l)
      /\ \A l \in Launches : child[l].proc # "none" \/ l \in registry => Launched(l)
  BY DEF Typed, TypeOK, OutputFirst, CallKnown
<1>1. task' = task => Kept
  BY DEF Kept
\* A step outside the tool calls that at most ends processes and calls.
<1>2. ASSUME Kept, registry' \subseteq registry,
             calls' = calls \/ \A c \in Calls : calls'[c].at \notin Working,
             \A l \in Launches : /\ child'[l].of = child[l].of
                                 /\ child'[l].closing => child[l].closing
                                 /\ child'[l].proc # "none" => child[l].proc # "none"
      PROVE  OutputFirst'
  BY <1>0, <1>2, OutputFrame
<1>3. CASE ReaperStep
  <2>1. ASSUME NEW S, Advance(S), calls' = calls, task' = task
        PROVE  OutputFirst'
    <3>1. CASE Claimable(S) = {}
      BY <1>1, <1>2, <2>1, <3>1 DEF Advance
    <3>2. CASE Claimable(S) # {}
      <4>1. PICK e : /\ registry' = registry \ {e}
                     /\ child' = [child EXCEPT ![e].reaped = TRUE]
        BY <2>1, <3>2 DEF Advance
      <4>2. \A l \in Launches : /\ child'[l].of = child[l].of
                                /\ child'[l].closing = child[l].closing
                                /\ child'[l].proc = child[l].proc
        BY <1>0, <4>1 DEF Child
      <4>3. QED
        BY <1>1, <1>2, <2>1, <4>1, <4>2
    <3>3. QED
      BY <3>1, <3>2
  <2>2. CASE Poll \/ SendReport \/ SendReportFails
    BY <2>1, <2>2 DEF Poll, SendReport, SendReportFails
  <2>3. CASE CloseRun \/ ReaperFails
    BY <1>1, <1>2, <2>3 DEF CloseRun, ReaperFails
  <2>4. CASE Verdict
    <3>1. Kept
      <4> DEFINE r == child[reaper.l]
                 done == \/ r.proc = "report"
                         \/ r.proc = "blank" /\ task[r.of].final
                 status == IF done THEN Completed ELSE "FAILED"
      <4>1. task' = [task EXCEPT ![r.of].status = status,
                                 ![r.of].final = task[r.of].final \/ done]
        BY <2>4 DEF Verdict
      <4>2. status = Completed => done
        BY DEF Completed
      <4> HIDE DEF done, status
      <4>3. ASSUME NEW t \in Tasks, t # r.of PROVE task'[t] = task[t]
        BY <1>0, <4>1, <4>3 DEF Task
      <4>4. ASSUME r.of \in Tasks
            PROVE  /\ task'[r.of].status = status
                   /\ task'[r.of].final = (task[r.of].final \/ done)
        BY <1>0, <4>1, <4>4 DEF Task
      <4>5. QED
        BY <4>2, <4>3, <4>4 DEF Kept
    <3>2. QED
      BY <1>2, <2>4, <3>1 DEF Verdict
  <2>5. QED
    BY <1>3, <2>2, <2>3, <2>4 DEF ReaperStep
<1>4. CASE RuntimeStep /\ ~BeginShutdown
  <2>1. CASE CancelReaper \/ EndShutdown \/ Restart
    BY <1>1, <1>2, <2>1 DEF CancelReaper, EndShutdown, Restart
  <2>2. CASE Crash
    BY <1>1, <1>2, <2>2 DEF Crash, NoCall, Working
  <2>3. ASSUME NEW l \in Launches, TerminateOne(l) PROVE OutputFirst'
    <3>1. /\ child' = [child EXCEPT ![l] = Signalled(@)]
          /\ registry' = registry \ {l} /\ calls' = calls
      BY <2>3 DEF TerminateOne
    <3>2. Kept
      BY <1>0, <2>3 DEF TerminateOne, Kept, Task, Completed
    <3>3. \A k \in Launches : /\ child'[k].of = child[k].of
                              /\ child'[k].closing => child[k].closing
                              /\ child'[k].proc # "none" => child[k].proc # "none"
      BY <1>0, <3>1, SignalledTyped DEF Child
    <3>4. QED
      BY <1>2, <3>1, <3>2, <3>3
  <2>4. QED
    BY <1>4, <2>1, <2>2, <2>3 DEF RuntimeStep
<1>5. CASE Interrupt \/ BeginShutdown
  <2>0. CancelCalls
    BY <1>5 DEF Interrupt, BeginShutdown
  <2>1. \A l \in Launches : /\ child'[l].of = child[l].of
                            /\ child'[l].closing => child[l].closing
                            /\ child'[l].proc # "none" => child[l].proc # "none"
    BY <1>0, <2>0, SignalledTyped DEF CancelCalls, Child
  <2>2. \A c \in Calls : calls'[c].at \notin Working
    BY <2>0 DEF CancelCalls, NoCall, Working
  <2>3. task' = task /\ registry' = registry
    BY <1>5 DEF Interrupt, BeginShutdown
  <2>4. QED
    BY <1>1, <1>2, <2>1, <2>2, <2>3
<1>6. CASE CallTools
  <2>1. calls' \in [Calls -> Requests \cup {NoCall}]
    BY <1>6 DEF CallTools
  <2>2. \A c \in Calls : calls'[c].at \notin Working
    BY <2>1, RequestIsCall DEF Typed, Working
  <2>3. QED
    BY <1>1, <1>2, <1>6, <2>2 DEF CallTools
<1>7. ASSUME NEW t \in Tasks, PlanTask(t) PROVE OutputFirst'
  <2>1. Kept
    BY <1>7, SetTaskKeeps DEF PlanTask, Completed
  <2>2. QED
    BY <1>2, <1>7, <2>1 DEF PlanTask
<1>8. CASE UNCHANGED vars
  BY <1>1, <1>2, <1>8 DEF vars
<1>9. QED
  BY <1>3, <1>4, <1>5, <1>6, <1>7, <1>8, OutputCall, OutputChild
     DEF Next, UpdateTask

\* Unless task_update sets the status, a completed task has a final output,
\* however its child's task_output, the reaper's verdict, stops and resumes
\* follow on each other.
THEOREM CompletedTasksHaveOutput ==
  ASSUME "update" \notin Tools
  PROVE  Spec => []CompletedHasOutput
<1>1. Init => OutputFirst
  BY DEF Init, OutputFirst, CompletedHasOutput, Completed, NoCall, Working
<1>2. Typed /\ OutputFirst /\ [Next]_vars => OutputFirst'
  BY OutputStep
<1>3. OutputFirst => CompletedHasOutput
  BY DEF OutputFirst
<1>4. QED
  BY <1>1, <1>2, <1>3, TypedAlways, PTL DEF Spec
=============================================================================
