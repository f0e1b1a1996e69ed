---------------------------- MODULE CronScheduler ----------------------------
(***************************************************************************)
(* Scheduled prompts (core/scheduling/cron_scheduler.py, storage/          *)
(* cron_store.py, tools/cron_tools.py): the polling loop that puts the     *)
(* prompts of due jobs into the mailbox, and the tools that create, change *)
(* and delete jobs meanwhile.                                              *)
(*                                                                         *)
(* The scheduler and the tools are coroutines, or, with a lead worker,     *)
(* processes.  Every store call is awaited: changing a row is a read, then *)
(* an UPDATE of what was computed from it, and others run in between.  An  *)
(* UPDATE and its commit are one step.  The tick lock is never contended:  *)
(* run_pending has one caller.                                             *)
(***************************************************************************)
EXTENDS Naturals, FiniteSets

CONSTANTS
  Jobs,       \* rows of cron_jobs, by id
  Periods,    \* cron expressions: fire at every multiple of the period
  Dates,      \* one-time schedules: fire at this time
  Limit,      \* max_due_jobs_per_tick
  Retry,      \* failure_retry_seconds
  Horizon,    \* the last time the model looks at
  Faults,     \* what may go wrong
  MaxEdits,   \* calls of update_cron
  None

ASSUME CronAssumption ==
  /\ Periods \subseteq Nat \ {0} /\ Dates \subseteq Nat
  /\ Limit \in Nat \ {0} /\ Retry \in Nat \ {0} /\ Horizon \in Nat
  /\ MaxEdits \in Nat
  /\ Faults \subseteq {"send", "store", "halt"}
  /\ IsFiniteSet(Jobs) /\ None \notin Jobs /\ None \notin Nat

VARIABLES
  now,          \* the clock
  job,          \* job[j]: the row
  tick,         \* where run_pending is, and in which dispatch
  dispatching,  \* _dispatching_job_ids
  edit,         \* an update_cron in progress
  past          \* past[j]: what happened to the job (history)

vars == <<now, job, tick, dispatching, edit, past>>

Schedules == [kind : {"cron"}, every : Periods] \cup [kind : {"once"}, on : Dates]
Times     == Nat \cup {None}

\* NEW and DELETED: there is no row.
Row == [status : {"NEW", "ACTIVE", "PAUSED", "COMPLETED", "DELETED"},
         sched : Schedules \cup {None},
          next : Times]

\* A batch maps its jobs to the next_run_at they were listed with.
Tick == [at : {"off", "sleep", "send", "sent", "failed", "write", "reread"},
         batch : [Jobs -> Times],
         j : Jobs \cup {None},
         firedAt : Nat,
         new : Row \cup {None}]             \* the row an UPDATE will write

\* An update in progress, whether a dispatch has written the row since it was
\* read (history), and the calls so far.
Edit == [j : Jobs \cup {None}, new : Row \cup {None}, stale : BOOLEAN, calls : 0..MaxEdits]

Past == [fired : SUBSET Nat,       \* the times of next_run_at it was sent for
         again : BOOLEAN,          \* sent twice for one of them
         excused : BOOLEAN,        \* a lost update, a halt or a store error
         closed : BOOLEAN,         \* completed by update_cron
         stranded : BOOLEAN]       \* in a batch whose tick did not get to it

NoBatch == [j \in Jobs |-> None]
NoEdit(n)  == [j |-> None, new |-> None, stale |-> FALSE, calls |-> n]
Idle    == [at |-> "sleep", batch |-> NoBatch, j |-> None, firedAt |-> 0, new |-> None]

TypeOK ==
  /\ now \in Nat
  /\ job \in [Jobs -> Row]
  /\ tick \in Tick
  /\ dispatching \in SUBSET Jobs
  /\ edit \in Edit
  /\ past \in [Jobs -> Past]

Init ==
  /\ now = 0
  /\ job = [j \in Jobs |-> [status |-> "NEW", sched |-> None, next |-> None]]
  /\ tick = [Idle EXCEPT !.at = "off"]
  /\ dispatching = {}
  /\ edit = NoEdit(0)
  /\ past = [j \in Jobs |-> [fired |-> {}, again |-> FALSE,
                             excused |-> FALSE, closed |-> FALSE,
                             stranded |-> FALSE]]

Present(j) == job[j].status \in {"ACTIVE", "PAUSED", "COMPLETED"}

\* (Broken variant: the time itself counts as later.)
NextFireInclusive(s, t) ==
  IF s.kind = "once" THEN s.on
  ELSE IF t % s.every = 0 THEN t ELSE (t \div s.every + 1) * s.every

\* The first time after t at which a schedule fires.  A one-time schedule
\* that is not later than t is an error.
NextFire(s, t) ==
  IF s.kind = "once" THEN s.on ELSE (t \div s.every + 1) * s.every

CanFire(s, t) == s.kind = "once" => s.on > t

Due(j) ==
  job[j].status = "ACTIVE" /\ job[j].next # None /\ job[j].next <= now

-----------------------------------------------------------------------------
(* The tools                                                               *)

CreateJob(j, s) ==
  /\ job[j].status = "NEW" /\ CanFire(s, now)
  /\ job' = [job EXCEPT ![j] =
               [status |-> "ACTIVE", sched |-> s, next |-> NextFire(s, now)]]
  /\ UNCHANGED <<now, tick, dispatching, edit, past>>

DeleteJob(j) ==
  /\ Present(j)
  /\ job' = [job EXCEPT ![j] =
               [status |-> "DELETED", sched |-> None, next |-> None]]
  /\ UNCHANGED <<now, tick, dispatching, edit, past>>

\* The next run is computed anew if the schedule changes or the job becomes
\* active again.
Recomputed(r, s, status) ==
  status # "COMPLETED" /\ (s # r.sched \/ (r.status # "ACTIVE" /\ status = "ACTIVE"))

EditedRow(r, s, status) ==
  [status |-> status, sched |-> s,
   next |-> IF status = "COMPLETED" THEN None
            ELSE IF Recomputed(r, s, status) THEN NextFire(s, now) ELSE r.next]

\* update_job reads the row and computes the new one.  One at a time.
EditRead(j, s, status) ==
  LET r == job[j]
  IN  /\ edit.j = None /\ edit.calls < MaxEdits /\ Present(j)
      /\ Recomputed(r, s, status) => CanFire(s, now)
      /\ edit' = [j |-> j, new |-> EditedRow(r, s, status), stale |-> FALSE,
                   calls |-> edit.calls + 1]
      /\ UNCHANGED <<now, job, tick, dispatching, past>>

\* Its UPDATE writes all of it, or nothing if the row is gone.
EditWrite ==
  LET j == edit.j
  IN  /\ edit.j # None
      /\ job' = IF Present(j) THEN [job EXCEPT ![j] = edit.new] ELSE job
      /\ past' = [past EXCEPT ![j].excused = @ \/ edit.stale,
                              ![j].closed = edit.new.status = "COMPLETED"]
      /\ edit' = NoEdit(edit.calls)
      /\ UNCHANGED <<now, tick, dispatching>>

-----------------------------------------------------------------------------
(* A dispatch                                                              *)

Batch(t) == {j \in Jobs : t.batch[j] # None}

\* The next job of the batch, oldest first, or the end of run_pending.
NextInBatch(t) ==
  IF Batch(t) = {} THEN tick' = Idle
  ELSE \E j \in Batch(t) :
         /\ \A k \in Batch(t) : t.batch[j] <= t.batch[k]
         /\ tick' = [t EXCEPT !.at = "send", !.j = j, !.firedAt = now, !.new = None]

\* Send the prompt of job j.
Send ==
  LET j == tick.j
      due == tick.batch[j]
  IN  /\ tick.at = "send"
      /\ past' = [past EXCEPT ![j].fired = @ \cup {due},
                              ![j].again = @ \/ due \in past[j].fired]
      /\ tick' = [tick EXCEPT !.at = "sent"]
      /\ UNCHANGED <<now, job, dispatching, edit>>

\* (Broken variant: a job is marked as succeeded all the same.)
SendFailsSilently ==
  /\ tick.at = "send" /\ "send" \in Faults
  /\ tick' = [tick EXCEPT !.at = "sent"]
  /\ UNCHANGED <<now, job, dispatching, edit, past>>

\* The mailbox raises.
SendFails ==
  /\ tick.at = "send" /\ "send" \in Faults
  /\ tick' = [tick EXCEPT !.at = "failed"]
  /\ UNCHANGED <<now, job, dispatching, edit, past>>

\* (Broken variant: a one-time job keeps its status.)
SucceededRowActive(r) ==
  [r EXCEPT !.next = IF r.sched.kind = "cron" THEN NextFire(r.sched, tick.firedAt)
                                              ELSE None]

\* What mark_job_succeeded makes of a row.
SucceededRow(r) ==
  IF r.sched.kind = "cron" THEN [r EXCEPT !.next = NextFire(r.sched, tick.firedAt)]
                           ELSE [r EXCEPT !.next = None, !.status = "COMPLETED"]

\* What mark_job_failed makes of a row.
FailedRow(r) == [r EXCEPT !.next = tick.firedAt + Retry, !.status = "ACTIVE"]

\* mark_job_succeeded and mark_job_failed read the row.
MarkRead ==
  LET r == job[tick.j]
  IN  /\ \/ tick.at = "sent" /\ Present(tick.j)
         \/ tick.at = "failed" /\ r.status \in {"ACTIVE", "PAUSED"}
      /\ tick' = [tick EXCEPT !.at = "write", !.new =
                    IF tick.at = "sent" THEN SucceededRow(r) ELSE FailedRow(r)]
      /\ UNCHANGED <<now, job, dispatching, edit, past>>

\* The UPDATE of status and next_run_at.
MarkWrite ==
  LET j == tick.j
  IN  /\ tick.at = "write"
      /\ job' = IF Present(j) THEN [job EXCEPT ![j].status = tick.new.status,
                                               ![j].next = tick.new.next]
                              ELSE job
      /\ tick' = [tick EXCEPT !.at = "reread", !.new = None]
      /\ edit' = [edit EXCEPT !.stale = @ \/ edit.j = j]
      /\ UNCHANGED <<now, dispatching, past>>

\* The end of a dispatch: the row is read once more for the log, or a failed
\* delivery finds the job completed.
Finished ==
  \/ tick.at = "reread" /\ Present(tick.j)
  \/ tick.at = "failed" /\ job[tick.j].status = "COMPLETED"

\* (Broken variant: the job is not taken out of the set.)
FinishDispatchKeeps ==
  /\ Finished
  /\ NextInBatch([tick EXCEPT !.batch[tick.j] = None])
  /\ UNCHANGED <<now, job, dispatching, edit, past>>

FinishDispatch ==
  /\ Finished
  /\ NextInBatch([tick EXCEPT !.batch[tick.j] = None])
  /\ dispatching' = dispatching \ {tick.j}
  /\ UNCHANGED <<now, job, edit, past>>

\* An exception leaves run_pending: only the current job is taken out of the
\* set of those being dispatched.
Abort ==
  /\ tick' = Idle
  /\ dispatching' = dispatching \ {tick.j}
  /\ UNCHANGED <<now, job, edit>>

\* The histories after it: the rest of the batch is stranded.
CutOff == [j \in Jobs |-> [past[j] EXCEPT !.stranded = @ \/ j \in Batch(tick) \ {tick.j}]]

\* The row was deleted: "Unknown cron job".
JobIsGone ==
  /\ tick.at \in {"sent", "failed", "reread"}
  /\ ~Present(tick.j)
  /\ Abort
  /\ past' = CutOff

\* The cron store raises.
StoreFails ==
  /\ tick.at \in {"sent", "failed", "write", "reread"} /\ "store" \in Faults
  /\ Abort
  /\ past' = [CutOff EXCEPT ![tick.j].excused = @ \/ tick.at # "failed"]

-----------------------------------------------------------------------------
(* The loop                                                                *)

\* A tick lists the jobs due, oldest first, up to the limit, and takes those
\* that are not being dispatched.
ListDue ==
  /\ tick.at = "sleep"
  /\ \E S \in SUBSET {j \in Jobs : Due(j)} :
       /\ \/ Cardinality(S) = Limit
          \/ Cardinality(S) < Limit /\ \A j \in Jobs : Due(j) => j \in S
       /\ \A j \in S : \A k \in Jobs \ S : Due(k) => job[j].next <= job[k].next
       /\ S \ dispatching # {}
       /\ dispatching' = dispatching \cup S
       /\ NextInBatch([tick EXCEPT !.batch =
            [j \in Jobs |-> IF j \in S \ dispatching THEN job[j].next ELSE None]])
  /\ UNCHANGED <<now, job, edit, past>>

\* A process starts the loop.
Start ==
  /\ tick.at = "off"
  /\ tick' = Idle
  /\ UNCHANGED <<now, job, dispatching, edit, past>>

\* The process is shut down, which cancels the loop at whatever it awaits, or
\* killed.  The set goes with it, and an update_cron too unless a lead worker
\* runs it.
Halt ==
  /\ tick.at # "off" /\ "halt" \in Faults
  /\ tick' = [Idle EXCEPT !.at = "off"]
  /\ dispatching' = {}
  /\ edit' \in {edit, NoEdit(edit.calls)}
  /\ past' = [j \in Jobs |-> [past[j] EXCEPT
                 !.excused = @ \/ (j = tick.j /\ tick.at \notin {"send", "failed"}),
                 !.stranded = FALSE]]
  /\ UNCHANGED <<now, job>>

Pass ==
  /\ now < Horizon
  /\ now' = now + 1
  /\ UNCHANGED <<job, tick, dispatching, edit, past>>

SchedulerStep ==
  ListDue \/ Send \/ MarkRead \/ MarkWrite \/ FinishDispatch \/ JobIsGone

ToolStep ==
  \/ \E j \in Jobs :
       \/ \E s \in Schedules : CreateJob(j, s)
       \/ DeleteJob(j)
       \/ \E s \in Schedules, status \in {"ACTIVE", "PAUSED", "COMPLETED"} :
            EditRead(j, s, status)
  \/ EditWrite

Next ==
  \/ SchedulerStep \/ SendFails \/ StoreFails
  \/ ToolStep
  \/ Start \/ Halt \/ Pass

Spec == Init /\ [][Next]_vars

\* The loop polls for ever and the event loop resumes it after every await.
\* Nothing is assumed of the tools, the clock or who starts the process.
FairSpec == Spec /\ WF_vars(SchedulerStep)

-----------------------------------------------------------------------------
(* Properties                                                              *)

\* An active job has a next run: no interleaving of dispatches and updates
\* leaves one that list_due_jobs can never see.
ActiveIsScheduled == \A j \in Jobs : job[j].status = "ACTIVE" => job[j].next # None

\* "One row per fire": a job is sent once for each time it became due, unless
\* an update_cron overwrote what the dispatch had written, or the dispatch
\* was cut off after the message was sent.
SentOncePerTime == \A j \in Jobs : past[j].again => past[j].excused

\* A job is completed by update_cron, or after its prompt reached the mailbox.
CompletedWasSent ==
  \A j \in Jobs :
    job[j].status = "COMPLETED" => past[j].fired # {} \/ past[j].closed

\* What the loop does deliver: unless the store keeps failing, a due job does
\* not stay due while the loop runs, except when it is stranded or stranded
\* jobs, which are still due and older, fill the limit of every tick.
DueIsDispatchedOrStranded ==
  \/ []<><<StoreFails>>_vars
  \/ \A j \in Jobs :
       Due(j) ~> \/ ~Due(j) \/ tick.at = "off"
                 \/ past[j].stranded
                 \/ Cardinality({k \in Jobs : past[k].stranded}) >= Limit
=============================================================================
