----------------------------- MODULE MemoryWriter -----------------------------
(***************************************************************************)
(* Long-term memory's write path (memory/service.py, trigger.py,           *)
(* store/qdrant.py): after a turn an extraction of the session's next      *)
(* window runs in the background; the agent writes, changes and forgets    *)
(* memories itself; attachments are indexed.  A session's extraction       *)
(* cursor is the user message its newest memory ends with, and a message   *)
(* whose files could not be saved is deleted again, be it a cursor or not. *)
(* Time is counted in user messages, a group of chunks is one point.  What *)
(* a model extracts and how it is classified is any choice; embedding,     *)
(* chunking and search are left out.                                       *)
(***************************************************************************)
EXTENDS Naturals, FiniteSets, FiniteSetsExt

CONSTANTS
  Sessions,
  TriggerTurns,  \* MemoryTriggerConfig.trigger_turns
  MaxTurns,      \* bound: MaxTurns[s] user messages of session s
  MaxGroups,     \* bound: groups there are, attachments included
  MaxAtoms       \* bound: atoms of one extraction

VARIABLES
  turns,   \* turns[s]: user messages ever stored in session s
  kept,    \* kept[s]: those that are still there
  run,     \* run[s]: the run of the session: none, its first or a queued
           \* message is having its files saved, or it is running
  tasks,   \* tasks[s]: extractions scheduled and not begun
  points,  \* Qdrant: the groups there are
  job,     \* job[s]: who holds the session's lock, and what it does
  rewound  \* sessions one of whose windows was built without its cursor

talk  == <<turns, kept, run>>
wvars == <<turns, kept, run, tasks, points, job, rewound>>

Groups == 1..MaxGroups
NoJob  == [at |-> "none", lo |-> 0, hi |-> 0, atoms |-> 0, group |-> 0]

Init ==
  /\ turns = [s \in Sessions |-> 0] /\ kept = [s \in Sessions |-> {}]
  /\ run = [s \in Sessions |-> "none"] /\ tasks = [s \in Sessions |-> 0]
  /\ points = {} /\ rewound = {}
  /\ job = [s \in Sessions |-> NoJob]

\* A point: its group, the session it belongs to, the message it ends with, the
\* order it was created in, the window that made it (0: none).
Newest(ps)  == IF ps = {} THEN 0 ELSE Max({p.at : p \in ps})
Point(s, g, kind, hi, lo) ==
  [group |-> g, sess |-> s, kind |-> kind, end |-> hi, from |-> lo, at |-> Newest(points) + 1]
Unused      == Groups \ ({p.group : p \in points} \cup {job[s].group : s \in Sessions})
NewGroup    == Min(Unused)
Without(g)  == {p \in points : p.group # g}

\* latest_memory_for_session.
Cursor(s) ==
  LET ps == {p \in points : p.sess = s /\ p.kind = "memory"} IN
  IF ps = {} THEN 0 ELSE (CHOOSE p \in ps : p.at = Newest(ps)).end

Room == Newest(points) < MaxGroups
At(s, point) == job[s].at = point
Goto(s, point) == job' = [job EXCEPT ![s].at = point]
Done(s) == job' = [job EXCEPT ![s] = NoJob]

-----------------------------------------------------------------------------
(* Runs and the trigger. *)

\* A user message, of a new run or queued for the one there is, with files or
\* without.
Ask(s) ==
  /\ turns[s] < MaxTurns[s]
  /\ \/ run[s] = "none" /\ run' \in {[run EXCEPT ![s] = r] : r \in {"asking", "running"}}
     \/ run[s] = "running" /\ run' \in {[run EXCEPT ![s] = r] : r \in {"joining", "running"}}
  /\ turns' = [turns EXCEPT ![s] = @ + 1]
  /\ kept' = [kept EXCEPT ![s] = @ \cup {turns[s] + 1}]
  /\ UNCHANGED <<tasks, points, job, rewound>>

\* Its files are saved.
Attached(s) ==
  /\ run[s] \in {"asking", "joining"} /\ run' = [run EXCEPT ![s] = "running"]
  /\ UNCHANGED <<turns, kept, tasks, points, job, rewound>>

\* They are not: discard_message deletes it, with its run when it was the first.
Discard(s) ==
  /\ run[s] \in {"asking", "joining"}
  /\ run' = [run EXCEPT ![s] = IF @ = "asking" THEN "none" ELSE "running"]
  /\ kept' = [kept EXCEPT ![s] = @ \ {turns[s]}]
  /\ UNCHANGED <<turns, tasks, points, job, rewound>>

\* manage_memory is at work, for the run that waits for it.
Managing(s) == ~At(s, "none") /\ job[s].lo = 0

\* A run ends: maybe_schedule, unless it was broken off.
RunEnds(s) ==
  /\ run[s] = "running" /\ ~Managing(s)
  /\ run' = [run EXCEPT ![s] = "none"]
  /\ \E n \in {0, 1} : tasks' = [tasks EXCEPT ![s] = @ + n]
  /\ UNCHANGED <<turns, kept, points, job, rewound>>

\* drain at the end of the process: what has not finished is cancelled.
Restart ==
  /\ \E s \in Sessions : tasks[s] > 0 \/ ~At(s, "none") \/ run[s] # "none"
  /\ tasks' = [s \in Sessions |-> 0] /\ job' = [s \in Sessions |-> NoJob]
  /\ run' = [s \in Sessions |-> "none"]
  /\ UNCHANGED <<turns, kept, points, rewound>>

-----------------------------------------------------------------------------
(* extract_and_store. *)

LockFree(s) == At(s, "none")

\* get_non_compact_after: the messages after the cursor; all there are when the
\* cursor is none of them any more.
Lost(s)  == Cursor(s) # 0 /\ Cursor(s) \notin kept[s]
After(s) == {t \in kept[s] : Lost(s) \/ t > Cursor(s)}

\* The first TriggerTurns of them end with this one.
Ends(s, hi) == Cardinality({t \in After(s) : t <= hi}) = TriggerTurns

\* Under the session's lock: a window, when there are messages enough.
StartExtraction(s) ==
  /\ tasks[s] > 0 /\ LockFree(s)
  /\ tasks' = [tasks EXCEPT ![s] = @ - 1]
  /\ \/ /\ Cardinality(After(s)) < TriggerTurns
        /\ UNCHANGED <<job, rewound>>
     \/ \E hi \in After(s) :
          /\ Ends(s, hi)
          /\ job' = [job EXCEPT ![s] =
                       [NoJob EXCEPT !.at = "extract", !.lo = Min(After(s)), !.hi = hi]]
          /\ rewound' = IF Lost(s) THEN rewound \cup {s} ELSE rewound
  /\ UNCHANGED <<turns, kept, run, points>>

\* No atoms, or an error: the cursor stays.
Extracted(s, n) ==
  /\ At(s, "extract")
  /\ job' = [job EXCEPT ![s] = IF n = 0 THEN NoJob ELSE [@ EXCEPT !.at = "apply", !.atoms = n]]
  /\ UNCHANGED <<talk, tasks, points, rewound>>

\* One atom fewer; after the last the lock is released.
AtomDone(s) ==
  job' = [job EXCEPT ![s] = IF @.atoms = 1 THEN NoJob
                            ELSE [@ EXCEPT !.at = "apply", !.atoms = job[s].atoms - 1, !.group = 0]]

Create(s) ==
  /\ At(s, "apply") /\ Room /\ Unused # {}
  /\ points' = points \cup {Point(s, NewGroup, "memory", job[s].hi, job[s].lo)}
  /\ AtomDone(s) /\ UNCHANGED <<talk, tasks, rewound>>

\* The classifier chooses a memory of any session, to change or to delete; the
\* model's answer and the embedding of the new text are awaited in between.
Classified(s, p, op) ==
  /\ At(s, "apply") /\ p.kind = "memory"
  /\ job' = [job EXCEPT ![s].at = op, ![s].group = p.group]
  /\ UNCHANGED <<talk, tasks, points, rewound>>

\* NO_OP, or an error, which leaves this atom and goes on with the next.
SkipAtom(s) ==
  /\ job[s].at \in {"apply", "update", "upsert"} /\ job[s].lo # 0
  /\ AtomDone(s) /\ UNCHANGED <<talk, tasks, points, rewound>>

-----------------------------------------------------------------------------
(* manage_memory, and attachments. *)

\* The newest user message, of a run that can call the tool.
Latest(s)    == Max(kept[s])
CanManage(s) == LockFree(s) /\ run[s] = "running" /\ kept[s] # {}

\* Anchored to it, whatever has been extracted.
ProactiveCreate(s) ==
  /\ CanManage(s) /\ Room /\ Unused # {}
  /\ points' = points \cup {Point(s, NewGroup, "memory", Latest(s), 0)}
  /\ UNCHANGED <<talk, tasks, job, rewound>>

\* The best match of any session; `lo' stays 0.
ProactiveUpdate(s, p) ==
  /\ CanManage(s) /\ p.kind = "memory"
  /\ job' = [job EXCEPT ![s] = [NoJob EXCEPT !.at = "update", !.hi = Latest(s),
                                             !.atoms = 1, !.group = p.group]]
  /\ UNCHANGED <<talk, tasks, points, rewound>>

ProactiveDelete(s, p) ==
  /\ CanManage(s) /\ p.kind = "memory"
  /\ points' = Without(p.group)
  /\ UNCHANGED <<talk, tasks, job, rewound>>

\* delete_group, of a memory that may be gone by now.
DeleteGroup(s) ==
  /\ job[s].at \in {"update", "delete"}
  /\ points' = Without(job[s].group)
  /\ IF At(s, "update") THEN Goto(s, "upsert") ELSE AtomDone(s)
  /\ UNCHANGED <<talk, tasks, rewound>>

\* upsert_group, the second call of an update.
UpsertGroup(s) ==
  /\ At(s, "upsert") /\ Room
  /\ points' = points \cup {Point(s, job[s].group, "memory", job[s].hi, job[s].lo)}
  /\ AtomDone(s) /\ UNCHANGED <<talk, tasks, rewound>>

\* An error ends manage_memory.
ProactiveFails(s) ==
  /\ job[s].at \in {"update", "upsert"} /\ job[s].lo = 0
  /\ Done(s) /\ UNCHANGED <<talk, tasks, points, rewound>>

\* index_attachment: a group of its own, of another type.
IndexAttachment(s) ==
  /\ LockFree(s) /\ kept[s] # {} /\ Room /\ Unused # {}
  /\ points' = points \cup {Point(s, NewGroup, "attachment", Latest(s), 0)}
  /\ UNCHANGED <<talk, tasks, job, rewound>>

Next ==
  \/ Restart
  \/ \E s \in Sessions :
       \/ Ask(s) \/ Attached(s) \/ Discard(s) \/ RunEnds(s) \/ StartExtraction(s) \/ Create(s) \/ SkipAtom(s)
       \/ \E n \in 0..MaxAtoms : Extracted(s, n)
       \/ \E p \in points :
            \/ ProactiveUpdate(s, p) \/ ProactiveDelete(s, p)
            \/ \E op \in {"update", "delete"} : Classified(s, p, op)
       \/ ProactiveCreate(s) \/ DeleteGroup(s) \/ UpsertGroup(s) \/ ProactiveFails(s)
       \/ IndexAttachment(s)

Spec == Init /\ [][Next]_wvars

-----------------------------------------------------------------------------
(* Every variable keeps its shape (service.py:83-101). *)
TypeOK ==
  /\ \A s \in Sessions :
       turns[s] \in 0..MaxTurns[s] /\ tasks[s] \in 0..MaxTurns[s] /\ kept[s] \subseteq 1..turns[s]
  /\ \A p \in points : p.sess \in Sessions /\ p.group \in Groups /\ p.end \in 1..turns[p.sess]
  /\ run \in [Sessions -> {"none", "asking", "joining", "running"}]
  /\ rewound \subseteq Sessions
  /\ \A s \in Sessions : job[s].at \in
       {"none", "extract", "apply", "update", "delete", "upsert"}

\* A window is extracted while no memory of its session reaches into it but
\* those it has made itself: scheduled extractions, the agent's own writes,
\* other sessions' updates and deleted messages never make one message be
\* extracted twice at once, nor again while a memory made of it is there; but a
\* session is extracted again from its first message once a window found the
\* message gone that its newest memory ends with (service.py:139-201, 525-542,
\* session_store.py:392-412).
WindowIsNew ==
  \A s \in Sessions \ rewound : job[s].lo # 0 =>
    \A p \in points : p.sess = s /\ p.kind = "memory" /\ p.end >= job[s].lo
      => p.from = job[s].lo
=============================================================================
