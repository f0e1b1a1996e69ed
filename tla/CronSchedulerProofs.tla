------------------------- MODULE CronSchedulerProofs --------------------------
(***************************************************************************)
(* Proofs about CronScheduler, for any jobs, schedules, limits and faults. *)
(***************************************************************************)
EXTENDS CronScheduler, TLAPS

-----------------------------------------------------------------------------
(* Types                                                                   *)

Dispatch == {"send", "sent", "failed", "write", "reread"}
Statuses == {"ACTIVE", "PAUSED", "COMPLETED"}

\* A row that can be written: an active one has a next run.
Writable(r) ==
  /\ r \in Row /\ r.status \in Statuses
  /\ r.status = "ACTIVE" => r.next # None

\* A row that is there has a schedule; one that is not has no next run.
RowKnown(r) ==
  /\ r.status \in Statuses => r.sched \in Schedules
  /\ r.status \notin Statuses => r.next = None
  /\ r.status = "ACTIVE" => r.next # None

TickKnown ==
  /\ tick.at \in Dispatch => tick.j \in Jobs /\ tick.batch[tick.j] \in Nat
  /\ tick.at = "write" => Writable(tick.new)

EditKnown ==
  edit.j # None => /\ Writable(edit.new) /\ edit.new.sched \in Schedules
                   /\ job[edit.j].status # "NEW"

Typed ==
  /\ TypeOK
  /\ \A j \in Jobs : RowKnown(job[j])
  /\ TickKnown
  /\ EditKnown


\* The schedule's next time is later than the one it is asked for, if it can
\* fire at all.
LEMMA NextFireLater ==
  ASSUME NEW s \in Schedules, NEW t \in Nat
  PROVE  /\ NextFire(s, t) \in Nat
         /\ CanFire(s, t) => NextFire(s, t) > t
<1>1. CASE s.kind = "once"
  <2>1. s.on \in Dates
    BY <1>1 DEF Schedules
  <2>2. QED
    BY <1>1, <2>1, CronAssumption DEF NextFire, CanFire
<1>2. CASE s.kind = "cron"
  <2> DEFINE n == s.every
             q == t \div n
  <2>1. n \in Nat \ {0}
    BY <1>2, CronAssumption DEF Schedules
  <2>2. q \in Nat /\ t < (q + 1) * n
    BY <2>1
  <2>3. (q + 1) * n \in Nat
    BY <2>1, <2>2
  <2>4. QED
    BY <1>2, <2>2, <2>3 DEF NextFire
<1>3. QED
  BY <1>1, <1>2 DEF Schedules

\* The types of the parts of the state, for use without their definitions.
LEMMA Parts ==
  ASSUME Typed
  PROVE  /\ now \in Nat /\ tick \in Tick /\ edit \in Edit /\ dispatching \subseteq Jobs
         /\ job \in [Jobs -> Row] /\ past \in [Jobs -> Past]
         /\ \A j \in Jobs : /\ job[j] \in Row /\ RowKnown(job[j])
                            /\ past[j] \in Past
                            /\ tick.batch[j] \in Times
         /\ TickKnown /\ EditKnown
BY DEF Typed, TypeOK, Tick

\* The next dispatch starts now, and is of a job of the batch.
LEMMA Taken ==
  ASSUME Typed, NEW t \in Tick, NextInBatch(t)
  PROVE  /\ tick' \in Tick
         /\ \/ tick' = Idle
            \/ /\ tick'.at = "send" /\ tick'.j \in Jobs
               /\ tick'.batch = t.batch /\ t.batch[tick'.j] \in Nat
               /\ tick'.firedAt = now
<1>1. CASE Batch(t) = {}
  BY <1>1 DEF NextInBatch, Idle, NoBatch, Tick, Times
<1>2. CASE Batch(t) # {}
  <2>1. PICK j \in Batch(t) :
          tick' = [t EXCEPT !.at = "send", !.j = j, !.firedAt = now, !.new = None]
    BY <1>2 DEF NextInBatch
  <2>2. j \in Jobs /\ t.batch[j] \in Nat
    BY <2>1 DEF Batch, Tick, Times
  <2>3. now \in Nat
    BY Parts
  <2>4. QED
    BY <2>1, <2>2, <2>3 DEF Tick
<1>3. QED
  BY <1>1, <1>2

\* A step that leaves rows and updates alone and ends a dispatch, or takes the
\* next one, keeps the types.
LEMMA TakenTyped ==
  ASSUME Typed, NEW t \in Tick, NextInBatch(t), UNCHANGED <<now, job, edit, past>>,
         dispatching' \subseteq Jobs
  PROVE  Typed'
<1>1. TypeOK'
  BY Parts, Taken DEF TypeOK
<1>2. TickKnown'
  BY Taken DEF TickKnown, Idle, Dispatch
<1>3. QED
  BY <1>1, <1>2 DEF Typed, EditKnown

\* FinishDispatch and ListDue take the next job of some batch, which holds no
\* more than the old one or what is due.
LEMMA BatchOf ==
  ASSUME Typed, FinishDispatch \/ ListDue
  PROVE  \E t \in Tick :
           /\ NextInBatch(t)
           /\ UNCHANGED <<now, job, edit, past>> /\ dispatching' \subseteq Jobs
           /\ \A k \in Jobs :
                \/ t.batch[k] = None
                \/ FinishDispatch /\ k # tick.j /\ t.batch[k] = tick.batch[k]
                \/ tick.at = "sleep" /\ Due(k) /\ t.batch[k] = job[k].next
<1>1. CASE FinishDispatch
  <2> DEFINE t == [tick EXCEPT !.batch[tick.j] = None]
  <2>1. t \in Tick
    BY Parts DEF Tick, Times
  <2>2. NextInBatch(t) /\ UNCHANGED <<now, job, edit, past>> /\ dispatching' \subseteq Jobs
    BY <1>1, Parts DEF FinishDispatch
  <2>3. \A k \in Jobs : t.batch[k] = IF k = tick.j THEN None ELSE tick.batch[k]
    BY Parts DEF Tick
  <2>4. QED
    BY <1>1, <2>1, <2>2, <2>3
<1>2. CASE ListDue
  <2>1. PICK S \in SUBSET Jobs :
          /\ \A j \in S : Due(j)
          /\ dispatching' = dispatching \cup S
          /\ NextInBatch([tick EXCEPT !.batch =
               [j \in Jobs |-> IF j \in S \ dispatching THEN job[j].next ELSE None]])
    BY <1>2 DEF ListDue
  <2> DEFINE t == [tick EXCEPT !.batch =
               [j \in Jobs |-> IF j \in S \ dispatching THEN job[j].next ELSE None]]
  <2>2. t \in Tick
    BY Parts DEF Tick, Times, Row
  <2>3. UNCHANGED <<now, job, edit, past>> /\ dispatching' \subseteq Jobs /\ tick.at = "sleep"
    BY <1>2, <2>1, Parts DEF ListDue
  <2>4. \A k \in Jobs : t.batch[k] = None \/ (Due(k) /\ t.batch[k] = job[k].next)
    BY <2>1, Parts DEF Tick
  <2>5. QED
    BY <2>1, <2>2, <2>3, <2>4
<1>3. QED
  BY <1>1, <1>2

\* At the start there are no rows, no loop and no update.
LEMMA TypedInit == Init => Typed
<1> SUFFICES ASSUME Init PROVE Typed
  OBVIOUS
<1>1. TypeOK
  BY CronAssumption
     DEF Init, TypeOK, Row, Tick, Edit, Past, NoBatch, NoEdit, Idle, Times
<1>2. \A j \in Jobs : RowKnown(job[j])
  BY DEF Init, RowKnown, Statuses
<1>3. TickKnown /\ EditKnown
  BY DEF Init, TickKnown, EditKnown, Idle, NoEdit, Dispatch
<1>4. QED
  BY <1>1, <1>2, <1>3 DEF Typed

\* What the tools do to a row or to an update in progress.
LEMMA TypedTools ==
  ASSUME Typed, ToolStep
  PROVE  Typed'
<1> USE Parts
<1>1. ASSUME NEW j \in Jobs, NEW s \in Schedules, CreateJob(j, s)
      PROVE  Typed'
  <2> DEFINE r == [status |-> "ACTIVE", sched |-> s, next |-> NextFire(s, now)]
  <2>1. r \in Row /\ RowKnown(r)
    BY NextFireLater, CronAssumption DEF Row, Times, RowKnown, Statuses
  <2>2. job' = [job EXCEPT ![j] = r]
    BY <1>1 DEF CreateJob
  <2>3. \A k \in Jobs : job'[k] \in Row /\ RowKnown(job'[k])
    BY <2>1, <2>2
  <2>4. job' \in [Jobs -> Row]
    BY <2>1, <2>2
  <2>5. EditKnown'
    BY <1>1, <2>2 DEF CreateJob, EditKnown, Edit
  <2>6. QED
    BY <1>1, <2>3, <2>4, <2>5 DEF CreateJob, Typed, TypeOK, TickKnown
<1>2. ASSUME NEW j \in Jobs, DeleteJob(j)
      PROVE  Typed'
  <2> DEFINE r == [status |-> "DELETED", sched |-> None, next |-> None]
  <2>1. r \in Row /\ RowKnown(r)
    BY DEF Row, Times, RowKnown, Statuses
  <2>2. job' = [job EXCEPT ![j] = r]
    BY <1>2 DEF DeleteJob
  <2>3. \A k \in Jobs : job'[k] \in Row /\ RowKnown(job'[k])
    BY <2>1, <2>2
  <2>4. job' \in [Jobs -> Row]
    BY <2>1, <2>2
  <2>5. EditKnown'
    BY <1>2, <2>2 DEF DeleteJob, EditKnown, Edit
  <2>6. QED
    BY <1>2, <2>3, <2>4, <2>5 DEF DeleteJob, Typed, TypeOK, TickKnown
<1>3. ASSUME NEW j \in Jobs, NEW s \in Schedules, NEW status \in Statuses,
             EditRead(j, s, status)
      PROVE  Typed'
  <2> DEFINE r == EditedRow(job[j], s, status)
  <2>1. /\ r.status = status /\ r.sched = s /\ r \in Row
        /\ status = "ACTIVE" => r.next # None
    BY <1>3, NextFireLater, CronAssumption
       DEF EditedRow, Recomputed, Row, Times, RowKnown, Statuses
  <2>2. edit' = [j |-> j, new |-> r, stale |-> FALSE, calls |-> edit.calls + 1]
    BY <1>3 DEF EditRead
  <2>3. edit'.calls \in 0..MaxEdits
    BY <1>3, CronAssumption DEF EditRead, Edit
  <2>4. edit' \in Edit
    BY <2>1, <2>2, <2>3 DEF Edit
  <2>5. EditKnown'
    BY <1>3, <2>1, <2>2 DEF EditRead, Present, EditKnown, Writable
  <2>6. QED
    BY <1>3, <2>4, <2>5 DEF EditRead, Typed, TypeOK, TickKnown
<1>4. ASSUME EditWrite
      PROVE  Typed'
  <2> DEFINE j == edit.j
  <2>1. j \in Jobs /\ edit.new \in Row /\ RowKnown(edit.new)
    BY <1>4 DEF EditWrite, Edit, EditKnown, Writable, RowKnown
  <2>2. job' \in [Jobs -> Row] /\ \A k \in Jobs : RowKnown(job'[k])
    BY <1>4, <2>1 DEF EditWrite
  <2>3. past' \in [Jobs -> Past]
    <3> DEFINE stale  == past[j].excused \/ edit.stale
               closed == edit.new.status = "COMPLETED"
               p      == [past[j] EXCEPT !.excused = stale, !.closed = closed]
    <3>1. stale \in BOOLEAN /\ closed \in BOOLEAN
      BY <2>1 DEF Past, Edit
    <3>2. p \in Past
      <4> HIDE DEF stale, closed
      <4>1. QED
        BY <2>1, <3>1 DEF Past
    <3>3. past' = [past EXCEPT ![j] = p]
      BY <1>4, <2>1 DEF EditWrite
    <3>4. QED
      BY <2>1, <3>2, <3>3
  <2>4. edit' \in Edit /\ edit'.j = None
    BY <1>4 DEF EditWrite, Edit, NoEdit
  <2>5. QED
    BY <1>4, <2>2, <2>3, <2>4 DEF EditWrite, Typed, TypeOK, TickKnown, EditKnown
<1>5. QED
  BY <1>1, <1>2, <1>3, <1>4 DEF ToolStep, Statuses

\* What a dispatch does to its row and to its own state.
LEMMA TypedDispatch ==
  ASSUME Typed, Send \/ SendFails \/ MarkRead \/ MarkWrite
  PROVE  Typed'
<1> USE Parts
<1>1. CASE Send
  <2>1. tick.j \in Jobs /\ tick.batch[tick.j] \in Nat
    BY <1>1 DEF Send, TickKnown, Dispatch
  <2>2. past' \in [Jobs -> Past]
    BY <1>1, <2>1 DEF Send, Past
  <2>3. tick' \in Tick /\ TickKnown'
    BY <1>1, <2>1 DEF Send, Tick, TickKnown, Dispatch
  <2>4. QED
    BY <1>1, <2>2, <2>3 DEF Send, Typed, TypeOK, EditKnown
<1>2. CASE SendFails
  <2>1. tick' \in Tick /\ TickKnown'
    BY <1>2 DEF SendFails, Tick, TickKnown, Dispatch
  <2>2. QED
    BY <1>2, <2>1 DEF SendFails, Typed, TypeOK, EditKnown
<1>3. CASE MarkRead
  <2> DEFINE r == job[tick.j]
             w == IF tick.at = "sent" THEN SucceededRow(r) ELSE FailedRow(r)
  <2>1. tick.j \in Jobs /\ tick.firedAt \in Nat /\ tick.batch[tick.j] \in Nat
    BY <1>3 DEF MarkRead, TickKnown, Dispatch, Tick
  <2>2. r \in Row /\ r.status \in Statuses /\ r.sched \in Schedules
    BY <1>3, <2>1 DEF MarkRead, Present, RowKnown, Statuses
  <2>3. Writable(SucceededRow(r))
    <3>1. CASE r.sched.kind = "cron"
      <4>1. NextFire(r.sched, tick.firedAt) \in Nat
        BY <2>1, <2>2, NextFireLater
      <4>2. QED
        BY <2>2, <3>1, <4>1, CronAssumption
           DEF SucceededRow, Writable, Row, Times, Statuses
    <3>2. CASE r.sched.kind # "cron"
      BY <2>2, <3>2 DEF SucceededRow, Writable, Row, Times, Statuses
    <3>3. QED
      BY <3>1, <3>2
  <2>4. Writable(FailedRow(r))
    <3>1. tick.firedAt + Retry \in Nat
      BY <2>1, CronAssumption
    <3>2. QED
      BY <2>2, <3>1, CronAssumption DEF FailedRow, Writable, Row, Times, Statuses
  <2>5. tick' = [tick EXCEPT !.at = "write", !.new = w] /\ Writable(w)
    BY <1>3, <2>3, <2>4 DEF MarkRead
  <2>6. tick' \in Tick /\ TickKnown'
    BY <2>1, <2>5 DEF Tick, TickKnown, Dispatch, Writable
  <2>7. QED
    BY <1>3, <2>6 DEF MarkRead, Typed, TypeOK, EditKnown
<1>4. CASE MarkWrite
  <2> DEFINE j == tick.j
             r == [job[j] EXCEPT !.status = tick.new.status, !.next = tick.new.next]
  <2>1. /\ j \in Jobs /\ tick.batch[j] \in Nat
        /\ Writable(tick.new)
    BY <1>4 DEF MarkWrite, TickKnown, Dispatch
  <2>2. Present(j) => r \in Row /\ RowKnown(r)
    BY <2>1 DEF Present, Writable, Row, RowKnown, Statuses
  <2>3. job' = IF Present(j) THEN [job EXCEPT ![j] = r] ELSE job
    BY <1>4, <2>1 DEF MarkWrite
  <2>4. job' \in [Jobs -> Row] /\ \A k \in Jobs : RowKnown(job'[k])
    BY <2>1, <2>2, <2>3
  <2>5. tick' \in Tick /\ TickKnown'
    BY <1>4, <2>1 DEF MarkWrite, Tick, TickKnown, Dispatch
  <2>6. edit' \in Edit /\ EditKnown'
    <3>1. edit' \in Edit /\ edit'.j = edit.j /\ edit'.new = edit.new
      BY <1>4 DEF MarkWrite, Edit
    <3>2. edit.j # None => job'[edit.j].status # "NEW"
      <4>1. Present(j) => r.status # "NEW"
        BY <2>1, <2>2 DEF Writable, Statuses, Row
      <4>2. QED
        BY <2>1, <2>3, <4>1, <3>1 DEF EditKnown, Edit
    <3>3. QED
      BY <3>1, <3>2 DEF EditKnown
  <2>7. QED
    BY <1>4, <2>4, <2>5, <2>6 DEF MarkWrite, Typed, TypeOK
<1>5. QED
  BY <1>1, <1>2, <1>3, <1>4

\* An exception, a halt and the clock.
LEMMA TypedOther ==
  ASSUME Typed, JobIsGone \/ StoreFails \/ Start \/ Halt \/ Pass
  PROVE  Typed'
<1> USE Parts
<1>0. Idle \in Tick /\ [Idle EXCEPT !.at = "off"] \in Tick
  BY DEF Idle, Tick, NoBatch, Times
<1>1. CutOff \in [Jobs -> Past]
  BY DEF CutOff, Past
<1>2. CASE JobIsGone \/ StoreFails
  <2>1. tick' = Idle /\ dispatching' \subseteq Jobs /\ UNCHANGED <<now, job, edit>>
    BY <1>2 DEF JobIsGone, StoreFails, Abort
  <2>2. past' \in [Jobs -> Past]
    <3>1. \A j \in Jobs, b \in BOOLEAN :
            [CutOff EXCEPT ![j].excused = @ \/ b] \in [Jobs -> Past]
      BY <1>1 DEF Past
    <3>2. CASE StoreFails
      <4>1. tick.j \in Jobs
        BY <3>2 DEF StoreFails, TickKnown, Dispatch
      <4>2. QED
        BY <3>1, <3>2, <4>1 DEF StoreFails
    <3>3. QED
      BY <1>1, <1>2, <3>2 DEF JobIsGone
  <2>3. TickKnown'
    BY <2>1 DEF TickKnown, Idle, Dispatch
  <2>4. QED
    BY <1>0, <2>1, <2>2, <2>3 DEF Typed, TypeOK, EditKnown
<1>3. CASE Start
  BY <1>0, <1>3 DEF Start, Typed, TypeOK, TickKnown, EditKnown, Idle, Dispatch
<1>4. CASE Halt
  <2>1. past' \in [Jobs -> Past]
    <3> DEFINE cut(j) == past[j].excused
                           \/ (j = tick.j /\ tick.at \notin {"send", "failed"})
    <3>1. \A j \in Jobs : [past[j] EXCEPT !.excused = cut(j), !.stranded = FALSE] \in Past
      <4>1. \A j \in Jobs : cut(j) \in BOOLEAN
        BY DEF Past
      <4> HIDE DEF cut
      <4>2. QED
        BY <4>1 DEF Past
    <3>2. past' = [j \in Jobs |-> [past[j] EXCEPT !.excused = cut(j), !.stranded = FALSE]]
      BY <1>4 DEF Halt
    <3>3. QED
      BY <3>1, <3>2
  <2>2. edit' \in Edit /\ EditKnown'
    <3>1. NoEdit(edit.calls) \in Edit /\ NoEdit(edit.calls).j = None
      BY DEF NoEdit, Edit
    <3>2. (edit' = edit \/ edit' = NoEdit(edit.calls)) /\ job' = job
      BY <1>4 DEF Halt
    <3>3. QED
      BY <3>1, <3>2 DEF EditKnown
  <2>3. TickKnown'
    BY <1>4 DEF Halt, TickKnown, Idle, Dispatch
  <2>4. QED
    BY <1>0, <1>4, <2>1, <2>2, <2>3 DEF Halt, Typed, TypeOK
<1>5. CASE Pass
  BY <1>5 DEF Pass, Typed, TypeOK, TickKnown, EditKnown
<1>6. QED
  BY <1>2, <1>3, <1>4, <1>5

\* Every step keeps the types.
LEMMA TypedNext == Typed /\ [Next]_vars => Typed'
<1> SUFFICES ASSUME Typed, [Next]_vars
             PROVE  Typed'
  OBVIOUS
<1>1. CASE ToolStep
  BY <1>1, TypedTools
<1>2. CASE Send \/ SendFails \/ MarkRead \/ MarkWrite
  BY <1>2, TypedDispatch
<1>3. CASE JobIsGone \/ StoreFails \/ Start \/ Halt \/ Pass
  BY <1>3, TypedOther
<1>4. CASE FinishDispatch \/ ListDue
  BY <1>4, BatchOf, TakenTyped
<1>5. CASE UNCHANGED vars
  BY <1>5 DEF vars, Typed, TypeOK, TickKnown, EditKnown
<1>6. QED
  BY <1>1, <1>2, <1>3, <1>4, <1>5 DEF Next, SchedulerStep

\* Every variable of the scheduler keeps its type, whatever the tools, the
\* stores and the clock do.
THEOREM TypesAlways == Spec => []TypeOK
<1>1. Typed => TypeOK
  BY DEF Typed
<1>2. QED
  BY <1>1, TypedInit, TypedNext, PTL DEF Spec

\* An active job always has a next run: no interleaving of a dispatch, which
\* reads and writes the row in two steps, with updates of the same job leaves
\* one that list_due_jobs can never see.
THEOREM ActiveAlwaysScheduled == Spec => []ActiveIsScheduled
<1>1. Typed => ActiveIsScheduled
  BY DEF Typed, RowKnown, ActiveIsScheduled
<1>2. QED
  BY <1>1, TypedInit, TypedNext, PTL DEF Spec

\* What a step that sends nothing keeps of a job's history.
Keeps(k) ==
  /\ past'[k].fired = past[k].fired /\ past'[k].closed = past[k].closed
  /\ past'[k].again = past[k].again /\ (past[k].excused => past'[k].excused)

\* A dispatch that is cut off after its prompt went out is excused.
LEMMA Excused ==
  ASSUME Typed, JobIsGone \/ StoreFails \/ Halt, NEW k \in Jobs
  PROVE  /\ Keeps(k)
         /\ tick.j = k /\ tick.at \in {"sent", "write", "reread"} =>
              past'[k].excused \/ JobIsGone
<1> USE Parts
<1>1. CutOff \in [Jobs -> Past] /\ \A c \in Jobs :
        /\ CutOff[c].fired = past[c].fired /\ CutOff[c].closed = past[c].closed
        /\ CutOff[c].excused = past[c].excused /\ CutOff[c].again = past[c].again
  BY DEF CutOff, Past
<1>2. CASE JobIsGone
  BY <1>1, <1>2 DEF JobIsGone, Keeps
<1>3. CASE StoreFails
  <2>1. tick.j \in Jobs
    BY <1>3 DEF StoreFails, TickKnown, Dispatch
  <2>2. past' = [CutOff EXCEPT ![tick.j].excused = @ \/ tick.at # "failed"]
    BY <1>3 DEF StoreFails
  <2>3. CASE k = tick.j
    <3> DEFINE cut == CutOff[k].excused \/ tick.at # "failed"
    <3>1. past'[k] = [CutOff[k] EXCEPT !.excused = cut]
      BY <1>1, <2>2, <2>3
    <3>2. CutOff[k] \in Past
      BY <1>1
    <3>3. /\ past'[k].excused = cut
          /\ past'[k].fired = past[k].fired /\ past'[k].closed = past[k].closed
          /\ past'[k].again = past[k].again
      <4> HIDE DEF cut
      <4>1. QED
        BY <1>1, <3>1, <3>2 DEF Past
    <3>4. QED
      BY <1>1, <3>3 DEF Keeps
  <2>4. CASE k # tick.j
    BY <1>1, <2>1, <2>2, <2>4 DEF Keeps
  <2>5. QED
    BY <2>3, <2>4
<1>4. CASE Halt
  BY <1>4 DEF Halt, Keeps, Past
<1>5. QED
  BY <1>2, <1>3, <1>4

-----------------------------------------------------------------------------
(* Completed jobs                                                          *)

\* A dispatch that will complete its job has sent the prompt.
SentBefore ==
  tick.at = "sent" \/ (tick.at = "write" /\ tick.new.status = "COMPLETED")
    => past[tick.j].fired # {}

\* At the start nothing is being dispatched.
LEMMA SentInit == Init => SentBefore
BY DEF Init, SentBefore, Idle

\* A dispatch is sent before it is marked, and the history of what was sent
\* only grows.
LEMMA SentNext == Typed /\ SentBefore /\ [Next]_vars => SentBefore'
<1> SUFFICES ASSUME Typed, SentBefore, [Next]_vars
             PROVE  SentBefore'
  OBVIOUS
<1> USE Parts
<1>1. CASE Send
  BY <1>1 DEF Send, SentBefore, TickKnown, Dispatch, Past
<1>2. CASE MarkRead
  BY <1>2 DEF MarkRead, SentBefore, FailedRow, TickKnown, Dispatch, Row
<1>3. CASE FinishDispatch \/ ListDue
  <2>1. tick'.at \in {"sleep", "send"}
    <3>1. PICK t \in Tick : NextInBatch(t)
      BY <1>3, BatchOf
    <3>2. QED
      BY <3>1, Taken DEF Idle
  <2>2. QED
    BY <2>1 DEF SentBefore
<1>4. CASE SendFails \/ MarkWrite \/ JobIsGone \/ StoreFails \/ Start \/ Halt
  <2>1. tick'.at \in {"failed", "reread", "sleep", "off"}
    <3>1. CASE SendFails
      BY <3>1 DEF SendFails, Tick
    <3>2. CASE MarkWrite
      BY <3>2 DEF MarkWrite, Tick
    <3>3. CASE JobIsGone \/ StoreFails \/ Start
      BY <3>3 DEF JobIsGone, StoreFails, Abort, Start, Idle
    <3>4. CASE Halt
      BY <3>4 DEF Halt, Idle
    <3>5. QED
      BY <1>4, <3>1, <3>2, <3>3, <3>4
  <2>2. QED
    BY <2>1 DEF SentBefore
<1>5. CASE EditWrite
  <2>1. edit.j \in Jobs
    BY <1>5 DEF EditWrite, Edit
  <2>2. UNCHANGED tick /\ \A k \in Jobs : past'[k].fired = past[k].fired
    BY <1>5, <2>1 DEF EditWrite, Past
  <2>3. tick.at \in {"sent", "write"} => tick.j \in Jobs
    BY DEF TickKnown, Dispatch
  <2>4. QED
    BY <2>2, <2>3 DEF SentBefore
<1>6. CASE UNCHANGED <<tick, past>>
  BY <1>6 DEF SentBefore
<1>7. QED
  BY <1>1, <1>2, <1>3, <1>4, <1>5, <1>6
     DEF Next, SchedulerStep, ToolStep, CreateJob, DeleteJob, EditRead, Pass, vars

\* A completed job was completed by update_cron or had its prompt sent.
LEMMA CompletedNext ==
  Typed /\ SentBefore /\ CompletedWasSent /\ [Next]_vars => CompletedWasSent'
<1> SUFFICES ASSUME Typed, SentBefore, CompletedWasSent, [Next]_vars,
                    NEW k \in Jobs, job'[k].status = "COMPLETED"
             PROVE  past'[k].fired # {} \/ past'[k].closed
  BY DEF CompletedWasSent
<1> USE Parts
<1>1. job[k].status = "COMPLETED" => past[k].fired # {} \/ past[k].closed
  BY DEF CompletedWasSent
<1>2. CASE UNCHANGED <<job, past>>
  BY <1>1, <1>2
<1>3. CASE Send
  BY <1>1, <1>3 DEF Send, TickKnown, Dispatch, Past
<1>4. CASE MarkWrite
  <2>1. tick.j \in Jobs /\ UNCHANGED past
    BY <1>4 DEF MarkWrite, TickKnown, Dispatch
  <2>2. CASE k = tick.j /\ Present(k)
    <3>1. tick.new.status = "COMPLETED"
      BY <1>4, <2>1, <2>2 DEF MarkWrite, Row
    <3>2. QED
      BY <1>4, <2>1, <2>2, <3>1 DEF MarkWrite, SentBefore
  <2>3. CASE ~(k = tick.j /\ Present(k))
    BY <1>1, <1>4, <2>1, <2>3 DEF MarkWrite
  <2>4. QED
    BY <2>2, <2>3
<1>5. CASE EditWrite
  <2>1. edit.j \in Jobs
    BY <1>5 DEF EditWrite, Edit
  <2>2. CASE k = edit.j /\ Present(k)
    <3>1. edit.new.status = "COMPLETED"
      BY <1>5, <2>1, <2>2 DEF EditWrite
    <3>2. QED
      BY <1>5, <2>1, <2>2, <3>1 DEF EditWrite, Past
  <2>3. CASE k = edit.j /\ ~Present(k)
    BY <1>5, <2>1, <2>3 DEF EditWrite, Present
  <2>4. CASE k # edit.j
    BY <1>1, <1>5, <2>1, <2>4 DEF EditWrite
  <2>5. QED
    BY <2>2, <2>3, <2>4
<1>6. CASE \E j \in Jobs : DeleteJob(j) \/ \E s \in Schedules : CreateJob(j, s)
  <2>1. UNCHANGED past /\ job'[k].status \in {job[k].status, "DELETED", "ACTIVE"}
    BY <1>6 DEF DeleteJob, CreateJob
  <2>2. QED
    BY <1>1, <2>1
<1>7. CASE JobIsGone \/ StoreFails \/ Halt
  <2>1. UNCHANGED job
    BY <1>7 DEF JobIsGone, StoreFails, Halt, Abort
  <2>2. past'[k].fired = past[k].fired /\ past'[k].closed = past[k].closed
    BY <1>7, Excused DEF Keeps
  <2>3. QED
    BY <1>1, <2>1, <2>2
<1>8. QED
  BY <1>2, <1>3, <1>4, <1>5, <1>6, <1>7
     DEF Next, SchedulerStep, SendFails, MarkRead, FinishDispatch, ListDue,
         ToolStep, EditRead, Start, Pass, vars

\* A job is completed by update_cron or after its prompt reached the mailbox,
\* however often its row is changed while it is being dispatched.
THEOREM CompletedAlwaysSent == Spec => []CompletedWasSent
<1>1. Init => CompletedWasSent
  BY DEF Init, CompletedWasSent
<1>2. QED
  BY <1>1, TypedInit, TypedNext, SentInit, SentNext, CompletedNext, PTL DEF Spec

-----------------------------------------------------------------------------
(* One prompt for each time                                                *)

\* The prompt is out and the row does not say so yet.
InFlight(j) == tick.j = j /\ tick.at \in {"sent", "write"}

\* No prompt is sent before its time.
FiredInTime ==
  /\ \A j \in Jobs : /\ \A t \in past[j].fired : t <= now
                     /\ tick.batch[j] # None => tick.batch[j] <= now
  /\ tick.at \in Dispatch =>
       /\ tick.firedAt <= now /\ tick.batch[tick.j] <= tick.firedAt
       /\ \A t \in past[tick.j].fired : t <= tick.firedAt
  /\ tick.at = "write" /\ tick.new.next # None => tick.new.next > tick.firedAt

\* What the batch, the row and an update in progress hold as the next time is
\* one that was not sent for, or there is an excuse, or will be one.
BatchUnsent(j) ==
  tick.batch[j] # None /\ tick.batch[j] \in past[j].fired =>
    (tick.j = j /\ tick.at \in {"sent", "write", "reread"}) \/ past[j].excused

RowUnsent(j) == job[j].next \in past[j].fired => InFlight(j) \/ past[j].excused

EditUnsent(j) ==
  edit.j = j /\ Present(j) /\ edit.new.next \in past[j].fired =>
    edit.stale \/ InFlight(j) \/ past[j].excused

Unsent ==
  /\ FiredInTime
  /\ \A j \in Jobs : BatchUnsent(j) /\ RowUnsent(j) /\ EditUnsent(j)

\* At the start nothing was sent and nothing is due.
LEMMA UnsentInit == Init => Unsent
BY CronAssumption
   DEF Init, Unsent, FiredInTime, BatchUnsent, RowUnsent, EditUnsent, Idle, NoBatch,
       NoEdit, Dispatch

\* The times known so far stay in the past, as the clock goes on and nothing
\* is sent.
LEMMA InTimeKept ==
  ASSUME Typed, FiredInTime, UNCHANGED tick, now' \in Nat, now <= now',
         \A k \in Jobs : past'[k].fired = past[k].fired
  PROVE  FiredInTime'
<1> USE Parts
<1>1. \A k \in Jobs : past[k].fired \subseteq Nat
  BY DEF Past
<1>2. tick.at \in Dispatch => tick.j \in Jobs /\ tick.firedAt \in Nat
  BY DEF TickKnown, Tick
<1>3. \A k \in Jobs : tick.batch[k] # None => tick.batch[k] \in Nat
  BY DEF Times
<1>4. \A k \in Jobs : /\ \A t \in past'[k].fired : t <= now'
                      /\ tick'.batch[k] # None => tick'.batch[k] <= now'
  BY <1>1, <1>3 DEF FiredInTime
<1>5. tick'.at \in Dispatch =>
        /\ tick'.firedAt <= now' /\ tick'.batch[tick'.j] <= tick'.firedAt
        /\ \A t \in past'[tick'.j].fired : t <= tick'.firedAt
  BY <1>2 DEF FiredInTime
<1>6. tick'.at = "write" /\ tick'.new.next # None => tick'.new.next > tick'.firedAt
  BY DEF FiredInTime
<1>7. QED
  BY <1>4, <1>5, <1>6 DEF FiredInTime

\* When a dispatch ends or begins, what remains of the batch, or is due, has
\* not been sent for.
LEMMA UnsentTaken ==
  ASSUME Typed, Unsent, FinishDispatch \/ ListDue
  PROVE  Unsent'
<1> USE Parts
<1>1. PICK t \in Tick :
        /\ NextInBatch(t)
        /\ UNCHANGED <<now, job, edit, past>>
        /\ \A k \in Jobs :
             \/ t.batch[k] = None
             \/ FinishDispatch /\ k # tick.j /\ t.batch[k] = tick.batch[k]
             \/ tick.at = "sleep" /\ Due(k) /\ t.batch[k] = job[k].next
  BY BatchOf
<1>2. tick.at \notin {"sent", "write"}
  BY DEF FinishDispatch, ListDue, Finished
<1>3. \A k \in Jobs : t.batch[k] # None =>
        t.batch[k] <= now /\ (t.batch[k] \in past[k].fired => past[k].excused)
  BY <1>1, <1>2 DEF Unsent, FiredInTime, BatchUnsent, RowUnsent, InFlight, Due
<1>4. \/ tick' = Idle
      \/ /\ tick'.at = "send" /\ tick'.j \in Jobs /\ tick'.batch = t.batch
         /\ t.batch[tick'.j] \in Nat /\ tick'.firedAt = now
  BY <1>1, Taken
<1>5. \A k \in Jobs : tick'.batch[k] # None =>
        tick'.batch[k] <= now /\ (tick'.batch[k] \in past[k].fired => past[k].excused)
  BY <1>3, <1>4 DEF Idle, NoBatch
<1>6. FiredInTime'
  <2>1. \A k \in Jobs : /\ \A u \in past'[k].fired : u <= now'
                        /\ tick'.batch[k] # None => tick'.batch[k] <= now'
    BY <1>1, <1>5 DEF Unsent, FiredInTime
  <2>2. tick'.at \in Dispatch =>
          /\ tick'.firedAt <= now' /\ tick'.batch[tick'.j] <= tick'.firedAt
          /\ \A u \in past'[tick'.j].fired : u <= tick'.firedAt
    <3>1. SUFFICES ASSUME tick' # Idle
                   PROVE  /\ tick'.firedAt <= now' /\ tick'.batch[tick'.j] <= tick'.firedAt
                          /\ \A u \in past'[tick'.j].fired : u <= tick'.firedAt
      BY DEF Idle, Dispatch
    <3>2. tick'.batch[tick'.j] # None
      BY <1>4, <3>1, CronAssumption
    <3>3. QED
      BY <1>1, <1>4, <2>1, <3>1, <3>2
  <2>3. tick'.at # "write"
    BY <1>4 DEF Idle
  <2>4. QED
    BY <2>1, <2>2, <2>3 DEF FiredInTime
<1>7. ASSUME NEW k \in Jobs
      PROVE  (BatchUnsent(k) /\ RowUnsent(k) /\ EditUnsent(k))'
  BY <1>1, <1>2, <1>5 DEF Unsent, BatchUnsent, RowUnsent, EditUnsent, InFlight, Present
<1>8. QED
  BY <1>6, <1>7 DEF Unsent

\* Sending: the job is in flight now.
LEMMA UnsentSend ==
  ASSUME Typed, Unsent, Send
  PROVE  Unsent'
<1> USE Parts
<1> DEFINE j   == tick.j
           due == tick.batch[j]
<1>1. j \in Jobs /\ due \in Nat /\ tick.firedAt \in Nat
  BY DEF Send, TickKnown, Dispatch, Tick
<1>2. /\ past'[j].fired = past[j].fired \cup {due}
      /\ \A k \in Jobs : past'[k].excused = past[k].excused
      /\ \A k \in Jobs \ {j} : past'[k].fired = past[k].fired
  BY <1>1 DEF Send, Past
<1>3. tick' = [tick EXCEPT !.at = "sent"] /\ UNCHANGED <<now, job, dispatching, edit>>
  BY DEF Send
<1>4. /\ tick'.at = "sent" /\ tick'.j = j /\ tick'.batch = tick.batch
      /\ tick'.firedAt = tick.firedAt
  BY <1>3 DEF Tick
<1>5. FiredInTime'
  <2>1. due <= now /\ due <= tick.firedAt /\ tick.firedAt <= now
    BY <1>1, CronAssumption DEF Unsent, FiredInTime, Send, Dispatch
  <2>2. \A u \in past[j].fired : u <= tick.firedAt
    BY DEF Unsent, FiredInTime, Send, Dispatch
  <2>3. QED
    BY <1>1, <1>2, <1>3, <1>4, <2>1, <2>2 DEF Unsent, FiredInTime
<1>6. ASSUME NEW k \in Jobs
      PROVE  (BatchUnsent(k) /\ RowUnsent(k) /\ EditUnsent(k))'
  <2>1. CASE k = j
    BY <1>4, <2>1 DEF BatchUnsent, RowUnsent, EditUnsent, InFlight
  <2>2. CASE k # j
    BY <1>2, <1>3, <1>4, <2>2
       DEF Unsent, BatchUnsent, RowUnsent, EditUnsent, InFlight, Present
  <2>3. QED
    BY <2>1, <2>2
<1>7. QED
  BY <1>5, <1>6 DEF Unsent

\* Computing the row's new time: it is later than the dispatch, hence than
\* every time the job was sent for.
LEMMA UnsentMarkRead ==
  ASSUME Typed, Unsent, MarkRead
  PROVE  Unsent'
<1> USE Parts
<1> DEFINE r == job[tick.j]
           w == IF tick.at = "sent" THEN SucceededRow(r) ELSE FailedRow(r)
<1>1. tick.j \in Jobs /\ tick.firedAt \in Nat
  BY DEF MarkRead, TickKnown, Dispatch, Tick
<1>2. tick' = [tick EXCEPT !.at = "write", !.new = w] /\ UNCHANGED <<now, job, edit, past>>
  BY DEF MarkRead
<1>3. /\ tick'.at = "write" /\ tick'.j = tick.j /\ tick'.batch = tick.batch
      /\ tick'.firedAt = tick.firedAt /\ tick'.new = w
  BY <1>2 DEF Tick
<1>4. r \in Row /\ r.sched \in Schedules
  BY <1>1 DEF MarkRead, Present, RowKnown, Statuses
<1>5. w.next # None => w.next > tick.firedAt
  <2>1. CASE tick.at = "sent" /\ r.sched.kind = "cron"
    <3>1. CanFire(r.sched, tick.firedAt)
      BY <2>1 DEF CanFire
    <3>2. NextFire(r.sched, tick.firedAt) > tick.firedAt
      BY <1>1, <1>4, <3>1, NextFireLater
    <3>3. QED
      BY <1>4, <2>1, <3>2 DEF SucceededRow, Row
  <2>2. CASE tick.at = "sent" /\ r.sched.kind # "cron"
    BY <1>4, <2>2 DEF SucceededRow, Row
  <2>3. CASE tick.at # "sent"
    <3>1. w.next = tick.firedAt + Retry
      BY <1>4, <2>3 DEF FailedRow, Row
    <3>2. QED
      BY <1>1, <3>1, CronAssumption
  <2>4. QED
    BY <2>1, <2>2, <2>3
<1>6. tick.at \in {"sent", "failed"}
  BY DEF MarkRead
<1>7. FiredInTime'
  <2>1. tick.at \in Dispatch
    BY <1>6 DEF Dispatch
  <2>2. QED
    BY <1>2, <1>3, <1>5, <2>1 DEF Unsent, FiredInTime
<1>8. ASSUME NEW k \in Jobs
      PROVE  (BatchUnsent(k) /\ RowUnsent(k) /\ EditUnsent(k))'
  BY <1>2, <1>3, <1>6 DEF Unsent, BatchUnsent, RowUnsent, EditUnsent, InFlight, Present
<1>9. QED
  BY <1>7, <1>8 DEF Unsent

\* Writing it: an update that has read the row before is stale now.
LEMMA UnsentMarkWrite ==
  ASSUME Typed, Unsent, MarkWrite
  PROVE  Unsent'
<1> USE Parts
<1> DEFINE j == tick.j
<1>1. /\ j \in Jobs /\ tick.firedAt \in Nat /\ tick.at \in Dispatch
      /\ tick.new \in Row /\ past[j].fired \subseteq Nat
  BY DEF MarkWrite, TickKnown, Dispatch, Tick, Writable, Past
<1>2. /\ tick'.at = "reread" /\ tick'.j = j /\ tick'.batch = tick.batch
      /\ tick'.firedAt = tick.firedAt /\ UNCHANGED <<now, past>>
  BY DEF MarkWrite, Tick
<1>3. tick.new.next \notin past[j].fired
  <2>1. CASE tick.new.next = None
    BY <1>1, <2>1, CronAssumption
  <2>2. CASE tick.new.next # None
    <3>1. tick.new.next > tick.firedAt /\ tick.new.next \in Nat
      BY <1>1, <2>2 DEF Unsent, FiredInTime, MarkWrite, Row, Times
    <3>2. \A t \in past[j].fired : t <= tick.firedAt
      BY <1>1 DEF Unsent, FiredInTime
    <3>3. QED
      BY <1>1, <3>1, <3>2
  <2>3. QED
    BY <2>1, <2>2
<1>4. FiredInTime'
  BY <1>1, <1>2 DEF Unsent, FiredInTime
<1>5. edit'.j = edit.j /\ edit'.new = edit.new
      /\ (edit.stale \/ edit.j = j => edit'.stale)
  BY DEF MarkWrite, Edit
<1>6. BatchUnsent(j)' /\ RowUnsent(j)' /\ EditUnsent(j)'
  <2>1. job'[j].next \notin past[j].fired
    <3>1. CASE Present(j)
      <4>1. job'[j].next = tick.new.next
        BY <1>1, <3>1 DEF MarkWrite, Row
      <4>2. QED
        BY <1>3, <4>1
    <3>2. CASE ~Present(j)
      BY <1>1, <3>2, CronAssumption DEF MarkWrite, RowKnown, Present, Statuses
    <3>3. QED
      BY <3>1, <3>2
  <2>2. QED
    BY <1>2, <1>5, <2>1 DEF BatchUnsent, RowUnsent, EditUnsent
<1>7. ASSUME NEW k \in Jobs, k # j
      PROVE  (BatchUnsent(k) /\ RowUnsent(k) /\ EditUnsent(k))'
  <2>1. job'[k] = job[k]
    BY <1>1, <1>7 DEF MarkWrite
  <2>2. QED
    BY <1>2, <1>5, <1>7, <2>1
       DEF Unsent, BatchUnsent, RowUnsent, EditUnsent, InFlight, Present
<1>8. QED
  BY <1>2, <1>4, <1>6, <1>7 DEF Unsent

\* Nothing is sent, and the row and the batch stay as they are or go.
LEMMA UnsentCutOff ==
  ASSUME Typed, Unsent, SendFails \/ JobIsGone \/ StoreFails \/ Start \/ Halt
  PROVE  Unsent'
<1> USE Parts
<1>1. UNCHANGED <<now, job>> /\ \A k \in Jobs : Keeps(k)
  BY Excused DEF SendFails, JobIsGone, StoreFails, Abort, Start, Halt, Keeps
<1>2. \/ /\ SendFails /\ tick'.at = "failed" /\ tick'.j = tick.j
         /\ tick'.batch = tick.batch /\ tick'.firedAt = tick.firedAt
      \/ ~SendFails /\ tick'.at \in {"sleep", "off"} /\ tick'.batch = NoBatch
  <2>1. CASE SendFails
    BY <2>1 DEF SendFails, Tick
  <2>2. CASE JobIsGone \/ StoreFails \/ Start \/ Halt
    <3>1. tick' = Idle \/ tick' = [Idle EXCEPT !.at = "off"]
      BY <2>2 DEF JobIsGone, StoreFails, Abort, Start, Halt
    <3>2. tick.at # "send" \/ tick'.at # "failed"
      BY <3>1 DEF Idle
    <3>3. ~SendFails
      BY <3>1 DEF SendFails, Idle, Tick
    <3>4. QED
      BY <3>1, <3>3 DEF Idle
  <2>3. QED
    BY <2>1, <2>2
<1>3. FiredInTime'
  <2>1. CASE SendFails
    <3>1. tick.at = "send" /\ tick.at \in Dispatch
      BY <2>1 DEF SendFails, Dispatch
    <3>2. tick.j \in Jobs
      BY <3>1 DEF TickKnown
    <3>3. QED
      BY <1>1, <1>2, <2>1, <3>1, <3>2 DEF Unsent, FiredInTime, Keeps
  <2>2. CASE ~SendFails
    BY <1>1, <1>2, <2>2 DEF Unsent, FiredInTime, Keeps, NoBatch, Dispatch
  <2>3. QED
    BY <2>1, <2>2
<1>4. ASSUME NEW k \in Jobs
      PROVE  (BatchUnsent(k) /\ RowUnsent(k) /\ EditUnsent(k))'
  <2>1. Keeps(k)
    BY <1>1
  <2>2. InFlight(k) => past'[k].excused \/ JobIsGone
    <3>1. CASE SendFails \/ Start
      BY <3>1 DEF SendFails, Start, InFlight
    <3>2. CASE JobIsGone \/ StoreFails \/ Halt
      BY <3>2, Excused DEF InFlight
    <3>3. QED
      BY <3>1, <3>2
  <2>3. InFlight(k) /\ JobIsGone => ~Present(k) /\ job[k].next = None
    BY DEF InFlight, JobIsGone, RowKnown, Present, Statuses
  <2>4. None \notin past[k].fired
    BY CronAssumption DEF Past
  <2>5. BatchUnsent(k)'
    <3>1. CASE SendFails
      BY <1>2, <2>1, <3>1 DEF Unsent, BatchUnsent, Keeps, SendFails
    <3>2. CASE ~SendFails
      BY <1>2, <3>2 DEF BatchUnsent, NoBatch
    <3>3. QED
      BY <3>1, <3>2
  <2>6. RowUnsent(k)'
    BY <1>1, <2>1, <2>2, <2>3, <2>4 DEF Unsent, RowUnsent, Keeps
  <2>7. EditUnsent(k)'
    <3>1. edit' = edit \/ edit'.j = None
      <4>1. CASE Halt
        <5>1. edit' = edit \/ edit' = NoEdit(edit.calls)
          BY <4>1 DEF Halt
        <5>2. QED
          BY <5>1 DEF NoEdit
      <4>2. QED
        BY <4>1 DEF SendFails, JobIsGone, StoreFails, Abort, Start
    <3>2. CASE edit' = edit
      BY <1>1, <2>1, <2>2, <2>3, <3>2 DEF Unsent, EditUnsent, Keeps, Present
    <3>3. CASE edit'.j = None
      BY <3>3, CronAssumption DEF EditUnsent
    <3>4. QED
      BY <3>1, <3>2, <3>3
  <2>8. QED
    BY <2>5, <2>6, <2>7
<1>5. QED
  BY <1>3, <1>4 DEF Unsent

\* What the tools write was computed from a row that had not been sent for,
\* or is excused.
LEMMA UnsentTools ==
  ASSUME Typed, Unsent, ToolStep
  PROVE  Unsent'
<1> USE Parts
<1>1. UNCHANGED <<now, tick>> /\ \A k \in Jobs : past'[k].fired = past[k].fired
  <2>1. CASE EditWrite
    <3>1. edit.j \in Jobs
      BY <2>1 DEF EditWrite, Edit
    <3>2. QED
      BY <2>1, <3>1 DEF EditWrite, Past
  <2>2. CASE ~EditWrite
    BY <2>2 DEF ToolStep, CreateJob, DeleteJob, EditRead
  <2>3. QED
    BY <2>1, <2>2
<1>2. FiredInTime'
  BY <1>1, InTimeKept DEF Unsent
<1>3. \A k \in Jobs : past[k].fired \subseteq Nat /\ \A t \in past[k].fired : t <= now
  BY DEF Past, Unsent, FiredInTime
<1>4. ASSUME NEW s \in Schedules, CanFire(s, now), NEW k \in Jobs
      PROVE  NextFire(s, now) \notin past[k].fired
  <2>1. NextFire(s, now) > now /\ NextFire(s, now) \in Nat
    BY <1>4, NextFireLater
  <2>2. QED
    BY <1>3, <2>1
<1>5. \A k \in Jobs : None \notin past[k].fired
  BY <1>3, CronAssumption
<1>6. ASSUME NEW j \in Jobs, NEW s \in Schedules, CreateJob(j, s), NEW k \in Jobs
      PROVE  (BatchUnsent(k) /\ RowUnsent(k) /\ EditUnsent(k))'
  <2>1. UNCHANGED <<tick, edit, past>> /\ CanFire(s, now)
    BY <1>6 DEF CreateJob
  <2>2. CASE k = j
    <3>1. job'[k].next = NextFire(s, now) /\ job[k].next = None
      BY <1>6, <2>2 DEF CreateJob, RowKnown, Statuses
    <3>2. job'[k].next \notin past[k].fired
      BY <1>4, <2>1, <3>1
    <3>3. edit.j # k
      BY <1>6, <2>2, CronAssumption DEF CreateJob, EditKnown
    <3>4. QED
      BY <2>1, <3>2, <3>3 DEF Unsent, BatchUnsent, RowUnsent, EditUnsent, InFlight
  <2>3. CASE k # j
    <3>1. job'[k] = job[k]
      BY <1>6, <2>3 DEF CreateJob
    <3>2. QED
      BY <2>1, <3>1 DEF Unsent, BatchUnsent, RowUnsent, EditUnsent, InFlight, Present
  <2>4. QED
    BY <2>2, <2>3
<1>7. ASSUME NEW j \in Jobs, DeleteJob(j), NEW k \in Jobs
      PROVE  (BatchUnsent(k) /\ RowUnsent(k) /\ EditUnsent(k))'
  <2>1. UNCHANGED <<tick, edit, past>>
    BY <1>7 DEF DeleteJob
  <2>2. CASE k = j
    <3>1. job'[k].next = None /\ ~Present(k)'
      BY <1>7, <2>2 DEF DeleteJob, Present
    <3>2. QED
      BY <1>5, <2>1, <3>1 DEF Unsent, BatchUnsent, RowUnsent, EditUnsent
  <2>3. CASE k # j
    <3>1. job'[k] = job[k]
      BY <1>7, <2>3 DEF DeleteJob
    <3>2. QED
      BY <2>1, <3>1 DEF Unsent, BatchUnsent, RowUnsent, EditUnsent, InFlight, Present
  <2>4. QED
    BY <2>2, <2>3
<1>8. ASSUME NEW j \in Jobs, NEW s \in Schedules, NEW status \in Statuses,
             EditRead(j, s, status), NEW k \in Jobs
      PROVE  (BatchUnsent(k) /\ RowUnsent(k) /\ EditUnsent(k))'
  <2> DEFINE r == EditedRow(job[j], s, status)
  <2>1. UNCHANGED <<tick, job, past>> /\ edit'.j = j /\ edit'.new = r
    BY <1>8 DEF EditRead
  <2>2. r.next \in past[j].fired => r.next = job[j].next
    <3>1. r.next = IF status = "COMPLETED" THEN None
                   ELSE IF Recomputed(job[j], s, status) THEN NextFire(s, now)
                   ELSE job[j].next
      BY DEF EditedRow
    <3>2. Recomputed(job[j], s, status) => CanFire(s, now)
      BY <1>8 DEF EditRead
    <3>3. QED
      BY <1>4, <1>5, <3>1, <3>2
  <2>3. EditUnsent(k)'
    BY <2>1, <2>2 DEF Unsent, EditUnsent, RowUnsent, InFlight, Present
  <2>4. QED
    BY <2>1, <2>3 DEF Unsent, BatchUnsent, RowUnsent, InFlight
<1>9. ASSUME EditWrite, NEW k \in Jobs
      PROVE  (BatchUnsent(k) /\ RowUnsent(k) /\ EditUnsent(k))'
  <2> DEFINE j == edit.j
  <2>1. j \in Jobs /\ UNCHANGED tick /\ edit'.j = None
    BY <1>9 DEF EditWrite, Edit, NoEdit
  <2>2. k # j => past'[k] = past[k] /\ job'[k] = job[k]
    BY <1>9, <2>1 DEF EditWrite
  <2>3. k = j => past'[k].excused = (past[k].excused \/ edit.stale)
    BY <1>9, <2>1 DEF EditWrite, Past
  <2>4. k = j => job'[k] = IF Present(k) THEN edit.new ELSE job[k]
    BY <1>9, <2>1 DEF EditWrite
  <2>5. EditUnsent(k)'
    BY <2>1, CronAssumption DEF EditUnsent
  <2>6. BatchUnsent(k)'
    BY <1>1, <2>1, <2>2, <2>3 DEF Unsent, BatchUnsent
  <2>7. RowUnsent(k)'
    <3>1. CASE k = j /\ Present(k)
      BY <1>1, <2>1, <2>3, <2>4, <3>1 DEF Unsent, RowUnsent, EditUnsent, InFlight
    <3>2. CASE ~(k = j /\ Present(k))
      BY <1>1, <2>1, <2>2, <2>3, <2>4, <3>2 DEF Unsent, RowUnsent, InFlight
    <3>3. QED
      BY <3>1, <3>2
  <2>8. QED
    BY <2>5, <2>6, <2>7
<1>10. QED
  BY <1>2, <1>6, <1>7, <1>8, <1>9 DEF ToolStep, Unsent, Statuses

\* Every step keeps what is to come apart from what was sent for.
LEMMA UnsentNext == Typed /\ Unsent /\ [Next]_vars => Unsent'
<1> SUFFICES ASSUME Typed, Unsent, [Next]_vars
             PROVE  Unsent'
  OBVIOUS
<1> USE Parts
<1>1. CASE Pass
  <2>1. FiredInTime'
    BY <1>1, InTimeKept DEF Pass, Unsent
  <2>2. \A k \in Jobs : (BatchUnsent(k) /\ RowUnsent(k) /\ EditUnsent(k))'
    BY <1>1 DEF Pass, Unsent, BatchUnsent, RowUnsent, EditUnsent, InFlight, Present
  <2>3. QED
    BY <2>1, <2>2 DEF Unsent
<1>2. CASE UNCHANGED vars
  BY <1>2 DEF vars, Unsent, FiredInTime, BatchUnsent, RowUnsent, EditUnsent, InFlight, Present
<1>3. QED
  BY <1>1, <1>2, UnsentTaken, UnsentSend, UnsentMarkRead, UnsentMarkWrite,
     UnsentCutOff, UnsentTools
     DEF Next, SchedulerStep

\* A prompt is sent twice for one time only if an excuse says so.
LEMMA OnceNext == Typed /\ Unsent /\ SentOncePerTime /\ [Next]_vars => SentOncePerTime'
<1> SUFFICES ASSUME Typed, Unsent, SentOncePerTime, [Next]_vars,
                    NEW k \in Jobs, past'[k].again
             PROVE  past'[k].excused
  BY DEF SentOncePerTime
<1> USE Parts
<1>1. past[k].again => past[k].excused
  BY DEF SentOncePerTime
<1>2. CASE Send
  <2> DEFINE j == tick.j
  <2>1. j \in Jobs /\ tick.batch[j] # None /\ tick.at = "send"
    BY <1>2, CronAssumption DEF Send, TickKnown, Dispatch
  <2>2. tick.batch[j] \in past[j].fired => past[j].excused
    BY <2>1 DEF Unsent, BatchUnsent
  <2>3. CASE k = j
    <3>1. /\ past'[k].excused = past[k].excused
          /\ past'[k].again = (past[k].again \/ tick.batch[j] \in past[k].fired)
      BY <1>2, <2>1, <2>3 DEF Send, Past
    <3>2. QED
      BY <1>1, <2>2, <2>3, <3>1
  <2>4. CASE k # j
    BY <1>1, <1>2, <2>1, <2>4 DEF Send
  <2>5. QED
    BY <2>3, <2>4
<1>3. CASE ~Send
  <2>1. past'[k].again = past[k].again /\ (past[k].excused => past'[k].excused)
    <3>1. CASE UNCHANGED past
      BY <3>1
    <3>2. CASE EditWrite
      BY <3>2 DEF EditWrite, Edit, Past
    <3>3. CASE JobIsGone \/ StoreFails \/ Halt
      BY <3>3, Excused DEF Keeps
    <3>4. QED
      BY <1>3, <3>1, <3>2, <3>3
         DEF Next, SchedulerStep, SendFails, MarkRead, MarkWrite, FinishDispatch, ListDue,
             ToolStep, CreateJob, DeleteJob, EditRead, Start, Pass, vars
  <2>2. QED
    BY <1>1, <2>1
<1>4. QED
  BY <1>2, <1>3

\* A job is sent once for each time it became due, for any number of jobs,
\* updates and failures, unless an update_cron overwrote what the dispatch
\* had written or the dispatch was cut off after the message was sent.
THEOREM OncePerTime == Spec => []SentOncePerTime
<1>1. Init => SentOncePerTime
  BY DEF Init, SentOncePerTime
<1>2. QED
  BY <1>1, TypedInit, TypedNext, UnsentInit, UnsentNext, OnceNext, PTL DEF Spec
=============================================================================
