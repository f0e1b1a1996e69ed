--------------------------- MODULE LeadWorkerProofs ---------------------------
(***************************************************************************)
(* Proofs about LeadWorker, for any number of texts, runs and troubles.    *)
(***************************************************************************)
EXTENDS LeadWorker, Integers, SequenceTheorems, TLAPS

-----------------------------------------------------------------------------
(* Types                                                                   *)

Lead == [queue : Seq({"run", "resume"}), answer : BOOLEAN, busy : BOOLEAN,
         awaiting : BOOLEAN, run : {"run", "resume"}, id : Nat, shown : BOOLEAN,
         at : {"idle", "lock", "wait", "stranded", "answer", "gone"}]

Command == [kind : {"run", "resume", "reload", "input", "shutdown"}, id : Nat]
Event   == [kind : {"ended", "asks", "reloaded", "ack", "eof"}, id : Nat]

Sup == [handle : Nat, closed : BOOLEAN, events : Seq(Event), spawned : Nat]

Worker == [up : {"no", "yes", "hung", "leaving", "dead"}, pipe : Seq(Command),
           eof : BOOLEAN, stop : BOOLEAN, cmds : Seq(Command), inputs : Nat,
           run : Nat]

Seen == [asked : Nat, got : Nat, interrupted : BOOLEAN, wasInterrupted : BOOLEAN,
         restarts : Nat, request : Nat, late : BOOLEAN]

Restarting == {"lock", "drain", "reap", "fork"}

Typed ==
  /\ tui \in {"up", "closing", "gone"}
  /\ lead \in Lead
  /\ sup \in Sup
  /\ restarter \in [Restarters -> Restarting \cup {"off", "started", "post", "done"}]
  /\ reload \in [at : {"off", "wait", "stranded"}, id : Nat]
  /\ worker \in [Workers -> Worker]
  /\ flag \in BOOLEAN
  /\ env \in [texts : Nat, troubles : 0..MaxTroubles]
  /\ seen \in Seen

LEMMA BoundTyped == MaxTroubles \in Nat
BY LeadWorkerAssumption

LEMMA SpawnedTyped == NotSpawned \in Worker /\ Spawned \in Worker
                        /\ [NotSpawned EXCEPT !.up = "dead"] \in Worker
<1>1. <<>> \in Seq(Command)
  BY EmptySeq
<1>2. NotSpawned \in Worker
  BY <1>1 DEF NotSpawned, Worker
<1>3. QED
  BY <1>2 DEF Spawned, Worker

LEMMA TypedInit == Init => Typed
<1> SUFFICES ASSUME Init PROVE Typed
  OBVIOUS
<1>1. worker \in [Workers -> Worker]
  BY SpawnedTyped DEF Init
<1>2. lead \in Lead /\ sup \in Sup /\ seen \in Seen
  BY DEF Init, Lead, Sup, Seen
<1>3. restarter \in [Restarters -> Restarting \cup {"off", "started", "post", "done"}]
  BY DEF Init
<1>4. QED
  <2>1. env \in [texts : Nat, troubles : 0..MaxTroubles]
    <3>1. 0 \in Nat /\ 0 \in 0..MaxTroubles
      BY BoundTyped
    <3>2. env = [texts |-> 0, troubles |-> 0]
      BY DEF Init
    <3>3. QED
      BY <3>1, <3>2
  <2>2. QED
    BY <1>1, <1>2, <1>3, <2>1 DEF Init, Typed

LEMMA TroubleTyped ==
  ASSUME Typed, NEW f, Trouble(f)
  PROVE  env' \in [texts : Nat, troubles : 0..MaxTroubles]
<1>1. env \in [texts : Nat, troubles : 0..MaxTroubles]
  BY DEF Typed
<1>2. env' = [env EXCEPT !.troubles = @ + 1] /\ env.troubles < MaxTroubles
  BY DEF Trouble
<1>3. env.troubles + 1 \in 0..MaxTroubles
  BY <1>1, <1>2, BoundTyped
<1>4. QED
  BY <1>1, <1>2, <1>3

\* What each of the shared operators of the actions changes, and to what.
LEMMA EmitTyped ==
  ASSUME Typed, NEW g, NEW kind, NEW id, Emit(g, kind, id),
         [kind |-> kind, id |-> id] \in Event
  PROVE  /\ sup' \in Sup
         /\ sup'.handle = sup.handle /\ sup'.closed = sup.closed
         /\ sup'.spawned = sup.spawned
         /\ sup'.events = IF sup.handle = g
                            THEN Append(sup.events, [kind |-> kind, id |-> id])
                            ELSE sup.events
<1>1. Append(sup.events, [kind |-> kind, id |-> id]) \in Seq(Event)
  BY AppendProperties DEF Typed, Sup
<1>2. QED
  BY <1>1 DEF Typed, Sup, Emit

LEMMA TakeTyped ==
  ASSUME Typed, TakeEvent
  PROVE  /\ sup' \in Sup
         /\ sup'.handle = sup.handle /\ sup'.closed = sup.closed
         /\ sup'.spawned = sup.spawned
         /\ sup.events # <<>> /\ sup'.events = Tail(sup.events)
         /\ Next1 \in Event
<1>1. Tail(sup.events) \in Seq(Event) /\ Next1 \in Event
  BY HeadTailProperties DEF Typed, Sup, TakeEvent, Next1
<1>2. QED
  BY <1>1 DEF Typed, Sup, TakeEvent

LEMMA WriteTyped ==
  ASSUME Typed, NEW kind, NEW id, Write(kind, id),
         [kind |-> kind, id |-> id] \in Command
  PROVE  worker' \in [Workers -> Worker]
<1> DEFINE w == [worker[sup.handle] EXCEPT !.pipe = Append(@, [kind |-> kind, id |-> id])]
<1>1. worker' = [worker EXCEPT ![sup.handle] = w]
  BY DEF Write
<1>2. ASSUME sup.handle \in Workers PROVE w \in Worker
  <2>1. worker[sup.handle] \in Worker
    BY <1>2 DEF Typed
  <2>2. Append(worker[sup.handle].pipe, [kind |-> kind, id |-> id]) \in Seq(Command)
    BY <2>1, AppendProperties DEF Worker
  <2>3. QED
    BY <2>1, <2>2 DEF Worker
<1> HIDE DEF w
<1>3. QED
  BY <1>1, <1>2 DEF Typed

LEMMA DieTyped ==
  ASSUME Typed, NEW g, Die(g)
  PROVE  /\ worker' \in [Workers -> Worker] /\ sup' \in Sup
         /\ sup'.handle = sup.handle /\ sup'.closed = sup.closed
         /\ sup'.spawned = sup.spawned
         /\ sup'.events = IF sup.handle = g
                            THEN Append(sup.events, [kind |-> "eof", id |-> 0])
                            ELSE sup.events
<1>1. worker' \in [Workers -> Worker]
  BY SpawnedTyped DEF Typed, Die
<1>2. [kind |-> "eof", id |-> 0] \in Event
  BY DEF Event
<1>3. QED
  BY <1>1, <1>2, EmitTyped DEF Die

LEMMA TerminatedTyped == Typed => Terminated(worker) \in [Workers -> Worker]
<1> SUFFICES ASSUME Typed, NEW g, g = sup.handle
             PROVE  [worker EXCEPT ![g].eof = TRUE, ![g].stop = @ \/ Steps(g)]
                      \in [Workers -> Worker]
  BY DEF Terminated, Typed
<1> DEFINE w == [worker[g] EXCEPT !.eof = TRUE, !.stop = @ \/ Steps(g)]
<1>1. [worker EXCEPT ![g].eof = TRUE, ![g].stop = @ \/ Steps(g)]
        = [worker EXCEPT ![g] = w]
  OBVIOUS
<1>2. ASSUME g \in Workers PROVE w \in Worker
  <2>1. worker[g] \in Worker
    BY <1>2 DEF Typed
  <2>2. (worker[g].stop \/ Steps(g)) \in BOOLEAN
    OBVIOUS
  <2>3. QED
    BY <2>1, <2>2 DEF Worker
<1> HIDE DEF w
<1>3. QED
  BY <1>1, <1>2 DEF Typed

LEMMA MoveTyped ==
  ASSUME Typed, NEW r,
         NEW to \in Restarting \cup {"off", "started", "post", "done"}, Move(r, to)
  PROVE  restarter' \in [Restarters -> Restarting \cup {"off", "started", "post", "done"}]
BY DEF Typed, Move

LEMMA IdleTyped ==
  ASSUME Typed
  PROVE  /\ Idle(lead) \in Lead /\ [Idle(lead) EXCEPT !.at = "gone"] \in Lead
         /\ Cancelled => lead' \in Lead /\ seen' \in Seen
BY DEF Typed, Idle, Lead, Cancelled, Seen

LEMMA StartTyped ==
  ASSUME Typed, NEW r, NEW s \in Sup, Start(r, s)
  PROVE  /\ sup' \in Sup /\ lead' \in Lead
         /\ restarter' \in [Restarters -> Restarting \cup {"off", "started", "post", "done"}]
         /\ reload' \in [at : {"off", "wait", "stranded"}, id : Nat]
<1>1. sup' \in Sup
  <2>1. sup' \in {s, [s EXCEPT !.closed = FALSE], [s EXCEPT !.closed = FALSE, !.events = <<>>]}
    BY DEF Start, FreshQueue
  <2>2. <<>> \in Seq(Event)
    BY EmptySeq
  <2>3. QED
    BY <2>1, <2>2 DEF Sup
<1>2. lead' \in Lead
  BY DEF Start, Typed, Lead, Strand
<1>3. reload' \in [at : {"off", "wait", "stranded"}, id : Nat]
  BY DEF Start, Typed, Strand
<1>4. restarter' \in [Restarters -> Restarting \cup {"off", "started", "post", "done"}]
  <2>1. PICK to \in {"done", "started", "fork"} : Move(r, to)
    BY DEF Start
  <2>2. QED
    BY <2>1, MoveTyped DEF Restarting
<1>5. QED
  BY <1>1, <1>2, <1>3, <1>4

\* The driver and the user.
LEMMA DriverTyped ==
  ASSUME Typed,
         \/ Type \/ Wake \/ DriverTakes \/ StartRun \/ DriverAnswers \/ Reader
         \/ Interrupt \/ SwitchLead \/ StartReload \/ ReloadTimesOut
  PROVE  Typed'
<1>1. CASE Type
  <2>1. worker' \in [Workers -> Worker]
    BY <1>1, WriteTyped DEF Type, Typed, Command
  <2>2. Append(lead.queue, "run") \in Seq({"run", "resume"})
    BY AppendProperties DEF Typed, Lead
  <2>3. lead' \in Lead
    BY <1>1, <2>2 DEF Type, Typed, Lead
  <2>4. QED
    BY <1>1, <2>1, <2>3 DEF Type, Typed
<1>2. CASE Wake
  <2>1. <<"resume">> \in Seq({"run", "resume"})
    OBVIOUS
  <2>2. QED
    BY <1>2, <2>1 DEF Wake, Typed, Lead
<1>3. CASE DriverTakes
  <2>1. /\ Head(lead.queue) \in {"run", "resume"}
        /\ Tail(lead.queue) \in Seq({"run", "resume"})
    BY <1>3, HeadTailProperties DEF DriverTakes, Typed, Lead
  <2>2. lead' \in Lead
    BY <1>3, <2>1 DEF DriverTakes, Typed, Lead
  <2>3. QED
    BY <1>3, <2>2 DEF DriverTakes, Typed
<1>4. CASE StartRun
  <2>1. [kind |-> lead.run, id |-> lead.id + 1] \in Command
    BY DEF Typed, Lead, Command
  <2>2. worker' \in [Workers -> Worker]
    BY <1>4, <2>1, WriteTyped DEF StartRun, Typed
  <2>3. lead' \in Lead
    <3>1. lead' = [lead EXCEPT !.at = "wait", !.id = @ + 1] \/ lead' = Idle(lead)
      BY <1>4 DEF StartRun
    <3>2. lead \in Lead
      BY DEF Typed
    <3>3. [lead EXCEPT !.at = "wait", !.id = @ + 1] \in Lead
      <4>1. lead.id + 1 \in Nat
        BY <3>2 DEF Lead
      <4>2. \A n \in Nat : [lead EXCEPT !.at = "wait", !.id = n] \in Lead
        BY <3>2 DEF Lead
      <4>3. QED
        BY <4>1, <4>2
    <3>4. QED
      BY <3>1, <3>3, IdleTyped
  <2>4. QED
    BY <1>4, <2>2, <2>3 DEF StartRun, Typed
<1>5. CASE RunReads
  <2>1. sup' \in Sup /\ Next1 \in Event
    BY <1>5, TakeTyped DEF RunReads
  <2>2. lead' \in Lead
    BY <1>5, IdleTyped DEF RunReads, Typed, Lead
  <2>3. seen' \in Seen
    BY <1>5, <2>1 DEF RunReads, Typed, Seen, Lead, Event
  <2>4. QED
    BY <1>5, <2>1, <2>2, <2>3 DEF RunReads, Typed
<1>6. CASE ReloadReads
  <2>1. sup' \in Sup
    BY <1>6, TakeTyped DEF ReloadReads
  <2>2. QED
    BY <1>6, <2>1 DEF ReloadReads, Typed
<1>7. CASE DriverAnswers \/ Interrupt
  <2>1. lead' \in Lead /\ seen' \in Seen
    <3>1. CASE DriverAnswers
      BY <3>1 DEF DriverAnswers, Typed, Lead
    <3>2. CASE Interrupt
      BY <3>2, IdleTyped DEF Interrupt
    <3>3. QED
      BY <1>7, <3>1, <3>2
  <2>2. QED
    BY <1>7, <2>1 DEF DriverAnswers, Interrupt, Typed
<1>8. CASE SwitchLead
  BY <1>8, TroubleTyped DEF SwitchLead, Typed, Lead
<1>9. CASE StartReload
  <2>1. worker' \in [Workers -> Worker]
    BY <1>9, WriteTyped DEF StartReload, Typed, Command
  <2>2. QED
    BY <1>9, <2>1, TroubleTyped DEF StartReload, Typed
<1>10. CASE ReloadTimesOut
  BY <1>10 DEF ReloadTimesOut, Typed
<1>11. QED
  BY <1>1, <1>2, <1>3, <1>4, <1>5, <1>6, <1>7, <1>8, <1>9, <1>10 DEF Reader

LEMMA WorkerTyped ==
  ASSUME Typed, NEW g \in Workers,
         Pump(g) \/ Loop(g) \/ RunDrains(g) \/ RequestRestart(g) \/ WorkerFails(g)
  PROVE  Typed'
<1> DEFINE w == worker[g]
<1>0. w \in Worker
  BY DEF Typed
<1>1. CASE Pump(g)
  <2>1. w.pipe # <<>> => /\ Head(w.pipe) \in Command /\ Tail(w.pipe) \in Seq(Command)
                         /\ Append(w.cmds, Head(w.pipe)) \in Seq(Command)
    BY <1>0, HeadTailProperties, AppendProperties DEF Worker
  <2>2. worker' \in [Workers -> Worker]
    <3>1. PICK v \in {[w EXCEPT !.pipe = Tail(@), !.inputs = @ + 1],
                      [w EXCEPT !.pipe = Tail(@), !.cmds = Append(@, Head(w.pipe))],
                      [w EXCEPT !.stop = TRUE]} :
             /\ worker' = [worker EXCEPT ![g] = v]
             /\ w.pipe = <<>> => v = [w EXCEPT !.stop = TRUE]
      BY <1>1 DEF Pump, Typed
    <3>2. v \in Worker
      <4>1. w.inputs + 1 \in Nat
        BY <1>0 DEF Worker
      <4>2. ASSUME w.pipe # <<>>, NEW n \in Nat
            PROVE  /\ [w EXCEPT !.pipe = Tail(@), !.inputs = n] \in Worker
                   /\ [w EXCEPT !.pipe = Tail(@), !.cmds = Append(@, Head(w.pipe))] \in Worker
        BY <1>0, <2>1, <4>2 DEF Worker
      <4>3. [w EXCEPT !.stop = TRUE] \in Worker
        BY <1>0 DEF Worker
      <4>4. QED
        BY <3>1, <4>1, <4>2, <4>3
    <3>3. QED
      BY <3>1, <3>2 DEF Typed
  <2>3. QED
    BY <1>1, <2>2 DEF Pump, Typed
<1>2. CASE NextCommand(g)
  <2>1. Head(w.cmds) \in Command /\ Tail(w.cmds) \in Seq(Command)
    BY <1>0, <1>2, HeadTailProperties DEF NextCommand, Worker
  <2>2. worker' \in [Workers -> Worker]
    <3>1. PICK v \in {[w EXCEPT !.cmds = Tail(@), !.run = Head(w.cmds).id],
                      [w EXCEPT !.cmds = Tail(@)],
                      [w EXCEPT !.cmds = Tail(@), !.stop = TRUE, !.up = "leaving"]} :
             worker' = [worker EXCEPT ![g] = v]
      BY <1>2 DEF NextCommand, Typed
    <3>2. Head(w.cmds).id \in Nat
      BY <2>1 DEF Command
    <3>3. v \in Worker
      BY <1>0, <2>1, <3>1, <3>2 DEF Worker
    <3>4. QED
      BY <3>1, <3>3 DEF Typed
  <2>3. /\ [kind |-> "reloaded", id |-> Head(w.cmds).id] \in Event
        /\ [kind |-> "ack", id |-> 0] \in Event
    BY <2>1 DEF Event, Command
  <2>4. sup' \in Sup
    BY <1>2, <2>3, EmitTyped DEF NextCommand, Typed
  <2>5. QED
    BY <1>2, <2>2, <2>4 DEF NextCommand, Typed
<1>3. CASE StopLoop(g)
  BY <1>3 DEF StopLoop, Exit, Typed, Worker
<1>4. CASE FinishRun(g)
  <2>1. PICK e \in Ends : Emit(g, e, w.run)
    BY <1>4 DEF FinishRun
  <2>2. sup' \in Sup
    BY <1>0, <2>1, EmitTyped DEF Event, Ends, Worker
  <2>3. QED
    BY <1>4, <2>2 DEF FinishRun, Typed, Worker
<1>5. CASE Leave(g)
  BY <1>5, DieTyped DEF Leave, Typed
<1>6. CASE RunDrains(g)
  BY <1>6 DEF RunDrains, Typed, Worker
<1>7. CASE RequestRestart(g)
  <2>1. seen.restarts + 1 \in Nat /\ (restarter["watcher"] = "started") \in BOOLEAN
    BY DEF Typed, Seen
  <2>2. seen' = [seen EXCEPT !.request = seen.restarts + 1,
                             !.late = restarter["watcher"] = "started"]
    BY <1>7 DEF RequestRestart
  <2>3. seen \in Seen
    BY DEF Typed
  <2>4. seen' \in Seen
    BY <2>1, <2>2, <2>3 DEF Seen
  <2>5. QED
    BY <1>7, <2>4, TroubleTyped DEF RequestRestart, Typed
<1>8. CASE WorkerFails(g)
  <2>1. worker' \in [Workers -> Worker] /\ sup' \in Sup
    <3>1. [w EXCEPT !.up = "hung"] \in Worker
      BY <1>0 DEF Worker
    <3>2. CASE worker' = [worker EXCEPT ![g].up = "hung"] /\ UNCHANGED sup
      BY <3>1, <3>2 DEF Typed
    <3>3. QED
      BY <1>8, <3>2, DieTyped DEF WorkerFails
  <2>2. QED
    BY <1>8, <2>1, TroubleTyped DEF WorkerFails, Typed
<1>9. QED
  BY <1>1, <1>2, <1>3, <1>4, <1>5, <1>6, <1>7, <1>8 DEF Loop

LEMMA RestartTyped ==
  ASSUME Typed,
         \/ \E r \in Restarters : AskRestart(r) \/ Proceed(r)
         \/ WatcherClears \/ WatcherPosts \/ SlashDone \/ Unmount \/ Quit
  PROVE  Typed'
<1>1. ASSUME NEW r, AskRestart(r) PROVE Typed'
  <2>1. lead' \in Lead /\ seen' \in Seen
    BY <1>1, IdleTyped DEF AskRestart, CancelInFlight, Typed
  <2>2. restarter' \in [Restarters -> Restarting \cup {"off", "started", "post", "done"}]
    BY <1>1, MoveTyped DEF AskRestart, Restarting
  <2>3. env' \in [texts : Nat, troubles : 0..MaxTroubles]
    BY <1>1, TroubleTyped DEF AskRestart, Typed
  <2>4. QED
    BY <1>1, <2>1, <2>2, <2>3 DEF AskRestart, Typed
<1>2. ASSUME NEW r, Shutdown(r) PROVE Typed'
  <2>1. CASE Start(r, sup) /\ UNCHANGED worker
    BY <1>2, <2>1, StartTyped DEF Shutdown, Typed
  <2>2. CASE /\ Usable
             /\ sup' = [sup EXCEPT !.closed = TRUE]
             /\ IF Open THEN Write("shutdown", 0) /\ Move(r, "drain")
                        ELSE worker' = Terminated(worker) /\ Move(r, "reap")
             /\ UNCHANGED <<lead, reload>>
    <3>1. worker' \in [Workers -> Worker]
      BY <2>2, WriteTyped, TerminatedTyped DEF Command
    <3>2. restarter' \in [Restarters -> Restarting \cup {"off", "started", "post", "done"}]
      BY <2>2, MoveTyped DEF Restarting
    <3>3. sup' \in Sup
      BY <2>2 DEF Typed, Sup
    <3>4. QED
      BY <1>2, <2>2, <3>1, <3>2, <3>3 DEF Shutdown, Typed
  <2>3. QED
    BY <1>2, <2>1, <2>2 DEF Shutdown
<1>3. ASSUME NEW r, AwaitAck(r) PROVE Typed'
  <2>1. worker' \in [Workers -> Worker] /\ sup' \in Sup
    BY <1>3, TakeTyped, TerminatedTyped DEF AwaitAck, Typed
  <2>2. restarter' \in [Restarters -> Restarting \cup {"off", "started", "post", "done"}]
    BY <1>3, MoveTyped DEF AwaitAck, Restarting, Typed
  <2>3. QED
    BY <1>3, <2>1, <2>2 DEF AwaitAck, Typed
<1>4. ASSUME NEW r, Kill(r) PROVE Typed'
  BY <1>4, DieTyped DEF Kill, Typed
<1>5. ASSUME NEW r, Reap(r) PROVE Typed'
  <2>1. Released(sup) \in Sup
    BY DEF Released, Typed, Sup
  <2>2. QED
    BY <1>5, <2>1, StartTyped DEF Reap, Typed
<1>6. ASSUME NEW r, Fork(r) PROVE Typed'
  <2>1. worker' \in [Workers -> Worker] /\ sup' \in Sup
    <3> DEFINE n == sup.spawned + 1
    <3>1. n \in Nat /\ sup \in Sup
      BY DEF Typed, Sup
    <3>2. \/ worker' = [worker EXCEPT ![n] = Spawned]
             /\ sup' = [sup EXCEPT !.handle = n, !.spawned = n]
          \/ UNCHANGED <<worker, sup>>
      BY <1>6 DEF Fork
    <3> HIDE DEF n
    <3>3. sup' \in Sup
      BY <3>1, <3>2 DEF Sup
    <3>4. worker' \in [Workers -> Worker]
      BY <3>2, SpawnedTyped DEF Typed
    <3>5. QED
      BY <3>3, <3>4
  <2>2. restarter' \in [Restarters -> Restarting \cup {"off", "started", "post", "done"}]
    BY <1>6, MoveTyped DEF Fork
  <2>3. seen' \in Seen /\ env' \in [texts : Nat, troubles : 0..MaxTroubles]
    <3>1. seen' = [seen EXCEPT !.interrupted = FALSE, !.restarts = @ + 1] /\ seen \in Seen
      BY <1>6 DEF Fork, Typed
    <3>2. seen' \in Seen
      <4>1. seen.restarts + 1 \in Nat
        BY <3>1 DEF Seen
      <4>2. \A n \in Nat : [seen EXCEPT !.interrupted = FALSE, !.restarts = n] \in Seen
        BY <3>1 DEF Seen
      <4>3. QED
        BY <3>1, <4>1, <4>2
    <3>3. QED
      BY <1>6, <3>2, TroubleTyped DEF Fork, Typed
  <2>4. QED
    BY <1>6, <2>1, <2>2, <2>3 DEF Fork, Typed
<1>7. CASE WatcherClears \/ WatcherPosts \/ SlashDone
  <2>1. restarter' \in [Restarters -> Restarting \cup {"off", "started", "post", "done"}]
    BY <1>7, MoveTyped DEF WatcherClears, WatcherPosts, SlashDone
  <2>2. env' \in [texts : Nat, troubles : 0..MaxTroubles]
    BY <1>7, TroubleTyped DEF WatcherClears, WatcherPosts, SlashDone, Typed
  <2>3. QED
    BY <1>7, <2>1, <2>2 DEF WatcherClears, WatcherPosts, SlashDone, Typed, Lead
<1>8. CASE Unmount
  <2>1. lead' \in Lead /\ sup' \in Sup
    BY <1>8, IdleTyped DEF Unmount, Released, Typed, Sup
  <2>2. QED
    BY <1>8, <2>1 DEF Unmount, Typed, Restarting
<1>9. CASE Quit
  <2>1. lead' \in Lead /\ sup' \in Sup
    BY <1>9, IdleTyped DEF Quit, Released, Typed, Sup
  <2>2. worker' \in [Workers -> Worker]
    BY <1>9 DEF Quit, Typed, Worker
  <2>3. QED
    BY <1>9, <2>1, <2>2 DEF Quit, Typed
<1>10. QED
  BY <1>1, <1>2, <1>3, <1>4, <1>5, <1>6, <1>7, <1>8, <1>9 DEF Proceed

LEMMA TypedStep == Typed /\ [Next]_vars => Typed'
<1> SUFFICES ASSUME Typed, [Next]_vars PROVE Typed'
  OBVIOUS
<1>1. CASE UNCHANGED vars
  BY <1>1 DEF vars, Typed
<1>2. CASE Next
  <2>1. {"slash", "watcher", "exit"} = Restarters
    BY DEF Restarters
  <2>2. QED
    BY <1>2, <2>1, DriverTyped, WorkerTyped, RestartTyped DEF Next, Watcher
<1>3. QED
  BY <1>1, <1>2

LEMMA TypedAlways == Spec => []Typed
BY TypedInit, TypedStep, PTL DEF Spec

-----------------------------------------------------------------------------
(* One worker                                                              *)

\* Who may act: nothing shuts down before the exit, and once the UI closes
\* neither the driver nor the watcher does.
Placed ==
  /\ tui = "up" => restarter["exit"] = "off"
  /\ tui # "up" => lead.at = "gone" /\ restarter["watcher"] = "off"

LEMMA PlacedStep == Typed /\ Placed /\ [Next]_vars => Placed'
<1> SUFFICES ASSUME Typed, Placed, [Next]_vars PROVE Placed'
  OBVIOUS
<1>0. /\ restarter \in [Restarters -> Restarting \cup {"off", "started", "post", "done"}]
      /\ Restarters = {"slash", "watcher", "exit"} /\ lead \in Lead
  BY DEF Typed, Restarters
<1>1. ASSUME UNCHANGED <<tui, restarter>>, tui # "up" => lead' = lead \/ lead'.at = lead.at
      PROVE  Placed'
  BY <1>1 DEF Placed
<1>2. CASE \/ Type \/ Wake \/ DriverTakes \/ StartRun \/ DriverAnswers \/ Reader
           \/ Interrupt \/ SwitchLead \/ StartReload \/ ReloadTimesOut
  BY <1>1, <1>2
     DEF Type, Wake, DriverTakes, StartRun, DriverAnswers, Reader, RunReads,
         ReloadReads, Interrupt, SwitchLead, StartReload, ReloadTimesOut, Placed
<1>3. ASSUME NEW g \in Workers,
             Pump(g) \/ Loop(g) \/ RunDrains(g) \/ RequestRestart(g) \/ WorkerFails(g)
      PROVE  Placed'
  BY <1>1, <1>3 DEF Pump, Loop, NextCommand, StopLoop, FinishRun, Leave, RunDrains,
                    RequestRestart, WorkerFails
<1>4. ASSUME NEW r \in Restarters, NEW to, Move(r, to), restarter[r] # "off",
             lead'.at = lead.at \/ tui = "up", tui' = tui
      PROVE  Placed'
  BY <1>0, <1>4 DEF Placed, Move
<1>5. ASSUME NEW r \in Restarters, AskRestart(r) PROVE Placed'
  BY <1>0, <1>5 DEF AskRestart, Placed, Move
<1>6. ASSUME NEW r \in Restarters, NEW s, Start(r, s), restarter[r] # "off", tui' = tui
      PROVE  Placed'
  <2>1. tui # "up" => lead'.at = lead.at
    BY <1>0, <1>6 DEF Start, Placed, Lead, Strand
  <2>2. PICK to : Move(r, to)
    BY <1>6 DEF Start
  <2>3. QED
    BY <1>4, <1>6, <2>1, <2>2
<1>7. ASSUME NEW r \in Restarters, Proceed(r) PROVE Placed'
  BY <1>1, <1>4, <1>6, <1>7 DEF Proceed, Shutdown, AwaitAck, Kill, Reap, Fork
<1>8. CASE WatcherClears \/ WatcherPosts \/ SlashDone
  <2>1. lead'.at = lead.at
    BY <1>0, <1>8 DEF WatcherClears, WatcherPosts, SlashDone, Lead
  <2>2. QED
    BY <1>0, <1>4, <1>8, <2>1 DEF WatcherClears, WatcherPosts, SlashDone
<1>9. CASE Unmount \/ Quit
  <2>1. lead'.at = "gone" /\ tui' # "up"
    BY <1>0, <1>9 DEF Unmount, Quit, Idle, Lead
  <2>2. restarter'["watcher"] = "off"
    BY <1>0, <1>9 DEF Unmount, Quit
  <2>3. QED
    BY <2>1, <2>2 DEF Placed
<1>10. CASE UNCHANGED vars
  BY <1>1, <1>10 DEF vars
<1>11. QED
  BY <1>0, <1>2, <1>3, <1>5, <1>7, <1>8, <1>9, <1>10 DEF Next, Watcher

\* While the UI runs, restart() keeps the supervisor's one handle in step with
\* the processes: one caller is inside, a new process is made only after the
\* handle's was reaped, and the queue is empty when there is no process.
Held ==
  tui = "up" =>
  /\ ~(restarter["slash"] \in Inside /\ restarter["watcher"] \in Inside)
  /\ \A r \in Restarters : restarter[r] = "fork" => sup.handle = 0
  /\ \A r \in Restarters : restarter[r] \in {"drain", "reap"} => sup.handle # 0
  /\ sup.closed => \E r \in Restarters : restarter[r] \in {"drain", "reap"}
  /\ sup.handle = 0 => sup.events = <<>>
  /\ \A g \in Workers : Alive(g) => g = sup.handle

\* Steps of the driver, the workers and their pipes make no process.
LEMMA HeldFrame ==
  ASSUME Held, UNCHANGED <<tui, restarter>>,
         sup'.handle = sup.handle, sup'.closed = sup.closed,
         sup.handle = 0 /\ sup.events = <<>> => sup'.events = <<>>,
         \A g \in Workers : Alive(g)' => Alive(g)
  PROVE  Held'
BY DEF Held

LEMMA WriteKeeps ==
  ASSUME Typed, NEW kind, NEW id, Write(kind, id), NEW g \in Workers
  PROVE  /\ worker'[g] = [worker[g] EXCEPT !.pipe =
              IF g = sup.handle THEN Append(@, [kind |-> kind, id |-> id]) ELSE @]
         /\ worker'[g].up = worker[g].up
<1>1. worker'[g] = IF g = sup.handle
                     THEN [worker[g] EXCEPT !.pipe = Append(@, [kind |-> kind, id |-> id])]
                     ELSE worker[g]
  BY DEF Typed, Write
<1>2. worker[g] \in Worker
  BY DEF Typed
<1>3. QED
  BY <1>1, <1>2 DEF Worker

LEMMA TerminatedKeeps ==
  ASSUME Typed, worker' = Terminated(worker), NEW g \in Workers
  PROVE  /\ worker'[g].up = worker[g].up /\ worker'[g].pipe = worker[g].pipe
         /\ worker'[g].cmds = worker[g].cmds /\ worker'[g].run = worker[g].run
<1>1. worker[g] \in Worker
  BY DEF Typed
<1>2. worker'[g] = worker[g]
        \/ \E b : worker'[g] = [worker[g] EXCEPT !.eof = TRUE, !.stop = b]
  BY DEF Typed, Terminated
<1>3. QED
  BY <1>1, <1>2 DEF Worker

LEMMA DieKeeps ==
  ASSUME Typed, NEW h, Die(h), NEW g \in Workers
  PROVE  worker'[g] = IF g = h THEN [NotSpawned EXCEPT !.up = "dead"] ELSE worker[g]
BY DEF Typed, Die

LEMMA DriverHeld ==
  ASSUME Typed, Held,
         \/ Type \/ Wake \/ DriverTakes \/ StartRun \/ DriverAnswers \/ Reader
         \/ Interrupt \/ SwitchLead \/ StartReload \/ ReloadTimesOut
  PROVE  Held'
<1>1. \A g \in Workers : Alive(g)' => Alive(g)
  <2> SUFFICES ASSUME NEW g \in Workers PROVE worker'[g].up = worker[g].up
    BY DEF Alive
  <2>1. worker' = worker \/ \E kind, id : Write(kind, id)
    BY DEF Type, Wake, DriverTakes, StartRun, DriverAnswers, Reader, RunReads,
           ReloadReads, Interrupt, SwitchLead, StartReload, ReloadTimesOut
  <2>2. QED
    BY <2>1, WriteKeeps
<1>2. UNCHANGED <<tui, restarter>>
  BY DEF Type, Wake, DriverTakes, StartRun, DriverAnswers, Reader, RunReads,
         ReloadReads, Interrupt, SwitchLead, StartReload, ReloadTimesOut
<1>3. \/ sup' = sup
      \/ TakeEvent
  BY DEF Type, Wake, DriverTakes, StartRun, DriverAnswers, Reader, RunReads,
         ReloadReads, Interrupt, SwitchLead, StartReload, ReloadTimesOut
<1>4. QED
  BY <1>1, <1>2, <1>3, TakeTyped, HeldFrame

LEMMA WorkerHeld ==
  ASSUME Typed, Held, NEW g \in Workers,
         Pump(g) \/ Loop(g) \/ RunDrains(g) \/ RequestRestart(g) \/ WorkerFails(g)
  PROVE  Held'
<1> DEFINE w == worker[g]
<1>0. w \in Worker /\ worker \in [Workers -> Worker] /\ g # 0
  BY DEF Typed, Workers
<1>1. UNCHANGED <<tui, restarter>>
  BY DEF Pump, Loop, NextCommand, StopLoop, FinishRun, Leave, RunDrains,
         RequestRestart, WorkerFails
<1>2. Alive(g)
  BY DEF Pump, Loop, NextCommand, StopLoop, FinishRun, Leave, RunDrains,
         RequestRestart, WorkerFails, Steps, Alive
<1>3. \/ worker' = worker
      \/ \E v : worker' = [worker EXCEPT ![g] = v]
  BY <1>0 DEF Pump, Loop, NextCommand, StopLoop, Exit, FinishRun, Leave, RunDrains,
         RequestRestart, WorkerFails, Die
<1>4. \A h \in Workers : Alive(h)' => Alive(h)
  BY <1>0, <1>2, <1>3 DEF Alive
<1>5. \/ sup' = sup
      \/ \E kind, id : Emit(g, kind, id)
  BY DEF Pump, Loop, NextCommand, StopLoop, Exit, FinishRun, Leave, RunDrains,
         RequestRestart, WorkerFails, Die
<1>6. /\ sup'.handle = sup.handle /\ sup'.closed = sup.closed
      /\ sup.handle = 0 => sup'.events = sup.events
  BY <1>0, <1>5 DEF Typed, Sup, Emit
<1>7. QED
  BY <1>1, <1>4, <1>6, HeldFrame

LEMMA RestartHeld ==
  ASSUME Typed, Placed, Held, tui' = "up",
         \/ \E r \in Restarters : AskRestart(r) \/ Proceed(r)
         \/ WatcherClears \/ WatcherPosts \/ SlashDone
  PROVE  Held'
<1>0. tui = "up"
  BY DEF AskRestart, Proceed, Shutdown, AwaitAck, Kill, Reap, Fork,
         WatcherClears, WatcherPosts, SlashDone
<1>1. /\ restarter \in [Restarters -> Restarting \cup {"off", "started", "post", "done"}]
      /\ Restarters = {"slash", "watcher", "exit"} /\ sup \in Sup
      /\ restarter["exit"] = "off" /\ "off" \notin Inside
      /\ {"drain", "reap", "fork"} = Inside
  BY <1>0 DEF Typed, Placed, Restarters, Inside
\* A step outside the lock, of one caller.
<1>2. ASSUME NEW r \in Restarters, NEW to, to \notin Inside, Move(r, to),
             restarter[r] \notin Inside, UNCHANGED <<sup, worker>>
      PROVE  Held'
  <2>1. \A q \in Restarters : restarter'[q] \in Inside <=> restarter[q] \in Inside
    BY <1>1, <1>2 DEF Move
  <2>2. \A q \in Restarters : restarter[q] \in Inside => restarter'[q] = restarter[q]
    BY <1>1, <1>2 DEF Move
  <2>3. \A g \in Workers : Alive(g)' => Alive(g)
    BY <1>2 DEF Alive
  <2>4. QED
    BY <1>0, <1>1, <1>2, <2>1, <2>2, <2>3 DEF Held
<1>3. ASSUME NEW r \in Restarters, AskRestart(r) PROVE Held'
  BY <1>1, <1>2, <1>3 DEF AskRestart
<1>4. CASE WatcherClears \/ WatcherPosts \/ SlashDone
  <2>1. PICK r \in {"watcher", "slash"}, to \in {"off", "post"} :
          Move(r, to) /\ restarter[r] \in {"started", "post"} /\ UNCHANGED <<sup, worker>>
    BY <1>4 DEF WatcherClears, WatcherPosts, SlashDone
  <2>2. QED
    BY <1>1, <1>2, <2>1
\* Inside: nobody else is.
<1>5. ASSUME NEW r \in Restarters, restarter[r] \in Inside \/ RestartLockFree,
             restarter[r] # "off"
      PROVE  \A q \in Restarters : q # r => restarter[q] \notin Inside
  BY <1>0, <1>1, <1>5 DEF Held, RestartLockFree
<1>6. ASSUME NEW r \in Restarters, NEW to \in Inside, Move(r, to),
             \A q \in Restarters : q # r => restarter[q] \notin Inside,
             to = "fork" => sup'.handle = 0 /\ ~sup'.closed,
             to # "fork" => sup'.handle # 0,
             sup'.handle = 0 => sup'.events = <<>>,
             \A g \in Workers : Alive(g)' => g = sup'.handle
      PROVE  Held'
  <2>1. /\ restarter'[r] = to
        /\ \A q \in Restarters : q # r => restarter'[q] \notin Inside
    BY <1>1, <1>6 DEF Move
  <2>2. r \in {"slash", "watcher", "exit"}
    BY <1>1
  <2>3. to = "drain" \/ to = "reap" \/ to = "fork"
    BY <1>1, <1>6
  <2>4. QED
    BY <1>0, <1>1, <1>6, <2>1, <2>2, <2>3 DEF Held
\* The worker is gone: a new queue, then a new process.
<1>7. ASSUME NEW r \in Restarters, NEW s \in Sup, Start(r, s), s.handle = 0, r # "exit",
             \A q \in Restarters : q # r => restarter[q] \notin Inside,
             \A g \in Workers : ~Alive(g), UNCHANGED worker
      PROVE  Held'
  <2>1. sup' = FreshQueue(s) /\ Move(r, "fork")
    BY <1>7 DEF Start
  <2>2. sup'.handle = 0 /\ ~sup'.closed /\ sup'.events = <<>>
    BY <1>7, <2>1 DEF FreshQueue, Sup
  <2>3. \A g \in Workers : ~Alive(g)'
    BY <1>7 DEF Alive
  <2>4. QED
    BY <1>1, <1>6, <1>7, <2>1, <2>2, <2>3
<1>8. ASSUME NEW r \in Restarters, Shutdown(r) PROVE Held'
  <2>1. /\ restarter[r] = "lock" /\ r # "exit" /\ RestartLockFree
        /\ \A q \in Restarters : q # r => restarter[q] \notin Inside
    BY <1>1, <1>5, <1>8 DEF Shutdown
  <2>2. CASE (sup.closed \/ sup.handle = 0) /\ Start(r, sup) /\ UNCHANGED worker
    <3>1. ~sup.closed
      BY <1>0, <1>1, <2>1 DEF Held
    <3>2. \A g \in Workers : ~Alive(g)
      BY <1>0, <2>2, <3>1 DEF Held, Workers
    <3>3. QED
      BY <1>1, <1>7, <2>1, <2>2, <3>1, <3>2
  <2>3. CASE /\ Usable
             /\ sup' = [sup EXCEPT !.closed = TRUE]
             /\ IF Open THEN Write("shutdown", 0) /\ Move(r, "drain")
                        ELSE worker' = Terminated(worker) /\ Move(r, "reap")
    <3>1. sup'.handle = sup.handle /\ sup.handle # 0
      BY <1>1, <2>3 DEF Usable, Sup
    <3>2. \A g \in Workers : worker'[g].up = worker[g].up
      BY <2>3, WriteKeeps, TerminatedKeeps
    <3>3. \A g \in Workers : Alive(g)' => g = sup'.handle
      BY <1>0, <3>1, <3>2 DEF Alive, Held
    <3>4. QED
      BY <1>1, <1>6, <2>1, <2>3, <3>1, <3>3
  <2>4. QED
    BY <1>8, <2>2, <2>3 DEF Shutdown
<1>9. ASSUME NEW r \in Restarters, AwaitAck(r) PROVE Held'
  <2>1. /\ sup'.handle = sup.handle /\ sup'.closed = sup.closed /\ sup.handle # 0
        /\ restarter[r] = "drain"
    BY <1>0, <1>9, TakeTyped DEF AwaitAck, Held
  <2>2. \A g \in Workers : worker'[g].up = worker[g].up
    BY <1>9, TerminatedKeeps DEF AwaitAck
  <2>3. \A g \in Workers : Alive(g)' => Alive(g)
    BY <2>2 DEF Alive
  <2>4. CASE Move(r, "reap")
    <3>1. \A g \in Workers : Alive(g)' => g = sup'.handle
      BY <1>0, <2>1, <2>3 DEF Held
    <3>2. \A q \in Restarters : q # r => restarter[q] \notin Inside
      BY <1>1, <1>5, <2>1
    <3>3. QED
      BY <1>1, <1>6, <2>1, <2>4, <3>1, <3>2
  <2>5. CASE UNCHANGED restarter
    BY <1>9, <2>1, <2>3, <2>5, HeldFrame DEF AwaitAck
  <2>6. QED
    BY <1>9, <2>4, <2>5 DEF AwaitAck
<1>10. ASSUME NEW r \in Restarters, Kill(r) PROVE Held'
  <2>1. /\ sup'.handle = sup.handle /\ sup'.closed = sup.closed /\ sup.handle # 0
        /\ UNCHANGED <<tui, restarter>>
    BY <1>0, <1>10, DieTyped DEF Kill, Held
  <2>2. \A g \in Workers : Alive(g)' => Alive(g)
    BY <1>10, DieKeeps DEF Kill, Alive, NotSpawned
  <2>3. QED
    BY <2>1, <2>2, HeldFrame
<1>11. ASSUME NEW r \in Restarters, Reap(r) PROVE Held'
  <2>1. /\ restarter[r] = "reap" /\ ~Alive(sup.handle) /\ Start(r, Released(sup))
        /\ UNCHANGED worker /\ r # "exit"
    BY <1>1, <1>11 DEF Reap
  <2>2. Released(sup) \in Sup /\ Released(sup).handle = 0
    BY <1>1 DEF Released, Sup
  <2>3. \A g \in Workers : ~Alive(g)
    BY <1>0, <2>1 DEF Held
  <2>4. \A q \in Restarters : q # r => restarter[q] \notin Inside
    BY <1>1, <1>5, <2>1
  <2>5. QED
    BY <1>7, <2>1, <2>2, <2>3, <2>4
<1>12. ASSUME NEW r \in Restarters, Fork(r) PROVE Held'
  <2> DEFINE n == sup.spawned + 1
  <2>1. restarter[r] = "fork" /\ sup.handle = 0
    BY <1>0, <1>12 DEF Fork, Held
  <2>2. \A q \in Restarters : q # r => restarter[q] \notin Inside
    BY <1>1, <1>5, <2>1
  <2>3. ~sup.closed
    BY <1>0, <1>1, <2>1, <2>2 DEF Held
  <2>4. \A q \in Restarters : restarter'[q] \notin Inside
    BY <1>1, <1>12, <2>2 DEF Fork, Move
  <2>5. \A g \in Workers : ~Alive(g)
    BY <1>0, <2>1 DEF Held, Workers
  <2>6. n # 0
    BY <1>1 DEF Sup
  <2>7. \/ /\ worker' = [worker EXCEPT ![n] = Spawned]
           /\ sup' = [sup EXCEPT !.handle = n, !.spawned = n]
        \/ UNCHANGED <<worker, sup>>
    BY <1>12 DEF Fork
  <2> HIDE DEF n
  <2>8. ~sup'.closed /\ (sup'.handle = 0 => sup' = sup)
    BY <1>1, <2>3, <2>6, <2>7 DEF Sup
  <2>9. \A g \in Workers : Alive(g)' => g = sup'.handle
    <3>1. CASE UNCHANGED <<worker, sup>>
      BY <2>5, <3>1 DEF Alive
    <3>2. CASE /\ worker' = [worker EXCEPT ![n] = Spawned]
               /\ sup' = [sup EXCEPT !.handle = n, !.spawned = n]
      <4>1. sup'.handle = n
        BY <1>1, <3>2 DEF Sup
      <4>2. \A g \in Workers : g # n => worker'[g] = worker[g]
        BY <3>2 DEF Typed
      <4>3. QED
        BY <2>5, <4>1, <4>2 DEF Alive
    <3>3. QED
      BY <2>7, <3>1, <3>2
  <2>10. QED
    BY <1>0, <1>1, <2>4, <2>8, <2>9 DEF Held
<1>13. QED
  BY <1>3, <1>4, <1>8, <1>9, <1>10, <1>11, <1>12 DEF Proceed

LEMMA HeldStep == Typed /\ Placed /\ Held /\ [Next]_vars => Held'
<1> SUFFICES ASSUME Typed, Placed, Held, [Next]_vars PROVE Held'
  OBVIOUS
<1>1. CASE tui' = "up" /\ Next
  <2>1. ~Unmount /\ ~Quit
    BY <1>1 DEF Unmount, Quit
  <2>2. {"slash", "watcher", "exit"} = Restarters
    BY DEF Restarters
  <2>3. QED
    BY <1>1, <2>1, <2>2, DriverHeld, WorkerHeld, RestartHeld DEF Next, Watcher
<1>2. CASE tui' # "up"
  BY <1>2 DEF Held
<1>3. CASE UNCHANGED vars
  BY <1>3, HeldFrame DEF vars, Alive
<1>4. QED
  BY <1>1, <1>2, <1>3

LEMMA HeldAlways == Spec => [](Typed /\ Placed /\ Held)
<1>1. Init => Placed
  BY DEF Init, Placed, Restarters
<1>2. Init => Held
  <2> SUFFICES ASSUME Init PROVE Held
    OBVIOUS
  <2>1. \A g \in Workers : Alive(g) => g = 1
    BY DEF Init, Alive, NotSpawned
  <2>2. QED
    BY <2>1 DEF Init, Held, Restarters, Inside
<1>3. QED
  BY <1>1, <1>2, TypedInit, TypedStep, PlacedStep, HeldStep, PTL DEF Spec

\* While the UI runs a session has at most one worker process, however restarts
\* of the user and of the watcher, crashes, hangs and failed starts interleave.
THEOREM WorkersNeverOverlap == Spec => []OneWorker
<1>1. Held => OneWorker
  BY DEF Held, OneWorker
<1>2. QED
  BY <1>1, HeldAlways, PTL

-----------------------------------------------------------------------------
(* Restart requests                                                        *)

\* A request is for the next process; when the watcher is about to clear it, a
\* process was begun since, or it is a request of that process.
Served ==
  /\ seen.request <= seen.restarts + 1
  /\ restarter["watcher"] = "started" /\ seen.request > seen.restarts => seen.late
  /\ RequestIsServed

\* A step that makes no request, begins no process and clears nothing.
LEMMA ServedFrame ==
  ASSUME Served, flag => flag',
         seen'.request = seen.request, seen'.restarts = seen.restarts,
         seen'.late = seen.late,
         restarter'["watcher"] = "started" => restarter["watcher"] = "started"
  PROVE  Served'
BY DEF Served, RequestIsServed

\* The watcher gets there with a new process, or with the failure to start one.
LEMMA WatcherForks ==
  ASSUME Typed, Placed, Held, NEW r \in Restarters, Shutdown(r) \/ Reap(r)
  PROVE  restarter'["watcher"] = "started" => restarter["watcher"] = "started"
<1>0. /\ restarter \in [Restarters -> Restarting \cup {"off", "started", "post", "done"}]
      /\ Restarters = {"slash", "watcher", "exit"} /\ sup \in Sup
  BY DEF Typed, Restarters
<1>1. SUFFICES ASSUME r = "watcher" PROVE restarter'["watcher"] # "started"
  BY <1>0 DEF Shutdown, Reap, Start, Move
<1>2. tui = "up" /\ restarter["exit"] = "off"
  BY <1>1 DEF Placed, Shutdown, Reap
<1>3. CASE Shutdown("watcher")
  <2>1. restarter["watcher"] = "lock" /\ RestartLockFree
    BY <1>3 DEF Shutdown
  <2>2. ~sup.closed
    BY <1>0, <1>2, <2>1 DEF Held, RestartLockFree, Inside
  <2>3. Start("watcher", sup) => sup.handle # 0 \/ restarter'["watcher"] = "fork"
    BY <1>0 DEF Start, Move
  <2>4. \A to : Move("watcher", to) => restarter'["watcher"] = to
    BY <1>0 DEF Move
  <2>5. QED
    BY <1>3, <2>2, <2>3, <2>4 DEF Shutdown
<1>4. CASE Reap("watcher")
  <2>1. Released(sup).handle = 0
    BY <1>0 DEF Released, Sup
  <2>2. QED
    BY <1>0, <1>4, <2>1 DEF Reap, Start, Move
<1>5. QED
  BY <1>1, <1>3, <1>4

LEMMA ServedStep == Typed /\ Placed /\ Held /\ Served /\ [Next]_vars => Served'
<1> SUFFICES ASSUME Typed, Placed, Held, Served, [Next]_vars PROVE Served'
  OBVIOUS
<1>0. /\ restarter \in [Restarters -> Restarting \cup {"off", "started", "post", "done"}]
      /\ Restarters = {"slash", "watcher", "exit"} /\ seen \in Seen
  BY DEF Typed, Restarters
\* What the driver notes is about results, not about requests.
<1>1. CASE \/ Type \/ Wake \/ DriverTakes \/ StartRun \/ DriverAnswers \/ Reader
           \/ Interrupt \/ SwitchLead \/ StartReload \/ ReloadTimesOut
  <2>1. UNCHANGED <<restarter, flag>>
    BY <1>1 DEF Type, Wake, DriverTakes, StartRun, DriverAnswers, Reader, RunReads,
         ReloadReads, Interrupt, SwitchLead, StartReload, ReloadTimesOut
  <2>2. /\ seen'.request = seen.request /\ seen'.restarts = seen.restarts
        /\ seen'.late = seen.late
    BY <1>0, <1>1 DEF Type, Wake, DriverTakes, StartRun, DriverAnswers, Reader, RunReads,
         ReloadReads, Interrupt, Cancelled, SwitchLead, StartReload, ReloadTimesOut, Seen
  <2>3. QED
    BY <2>1, <2>2, ServedFrame
<1>2. ASSUME NEW g \in Workers, Pump(g) \/ Loop(g) \/ RunDrains(g) \/ WorkerFails(g)
      PROVE  Served'
  <2>1. UNCHANGED <<restarter, flag, seen>>
    BY <1>2 DEF Pump, Loop, NextCommand, StopLoop, FinishRun, Leave, RunDrains, WorkerFails
  <2>2. QED
    BY <2>1, ServedFrame
<1>3. ASSUME NEW g \in Workers, RequestRestart(g) PROVE Served'
  <2>1. /\ seen'.request = seen.restarts + 1 /\ seen'.restarts = seen.restarts
        /\ seen'.late = (restarter["watcher"] = "started")
        /\ flag' = TRUE /\ restarter' = restarter
    BY <1>0, <1>3 DEF RequestRestart, Seen
  <2>2. seen'.request <= seen'.restarts + 1
    BY <1>0, <2>1 DEF Seen
  <2>3. restarter'["watcher"] = "started" => seen'.late
    BY <2>1
  <2>4. QED
    BY <2>1, <2>2, <2>3 DEF Served, RequestIsServed
<1>4. ASSUME NEW r \in Restarters, AskRestart(r) PROVE Served'
  <2>1. /\ seen'.request = seen.request /\ seen'.restarts = seen.restarts
        /\ seen'.late = seen.late
    BY <1>0, <1>4 DEF AskRestart, CancelInFlight, Cancelled, Seen
  <2>2. QED
    BY <1>0, <1>4, <2>1, ServedFrame DEF AskRestart, Move
<1>5. ASSUME NEW r \in Restarters, Shutdown(r) \/ Reap(r) PROVE Served'
  BY <1>5, WatcherForks, ServedFrame DEF Shutdown, Reap
<1>6. ASSUME NEW r \in Restarters, AwaitAck(r) \/ Kill(r) PROVE Served'
  BY <1>0, <1>6, ServedFrame DEF AwaitAck, Kill, Move
<1>7. ASSUME NEW r \in Restarters, Fork(r) PROVE Served'
  <2>1. /\ seen'.request = seen.request /\ seen'.restarts = seen.restarts + 1
    BY <1>0, <1>7 DEF Fork, Seen
  <2>2. QED
    BY <1>0, <2>1 DEF Served, RequestIsServed, Seen
<1>8. CASE WatcherClears
  <2>1. restarter["watcher"] = "started" /\ seen' = seen
    BY <1>8 DEF WatcherClears
  <2>2. QED
    BY <2>1, <1>0, <1>8 DEF WatcherClears, Move, Served, RequestIsServed
<1>9. CASE WatcherPosts \/ SlashDone \/ Unmount \/ Quit
  <2>1. UNCHANGED <<flag, seen>>
    BY <1>9 DEF WatcherPosts, SlashDone, Unmount, Quit
  <2>2. restarter'["watcher"] = "started" => restarter["watcher"] = "started"
    BY <1>0, <1>9 DEF WatcherPosts, SlashDone, Unmount, Quit, Move
  <2>3. QED
    BY <2>1, <2>2, ServedFrame
<1>10. CASE UNCHANGED vars
  BY <1>10, ServedFrame DEF vars
<1>11. QED
  BY <1>0, <1>1, <1>2, <1>3, <1>4, <1>5, <1>6, <1>7, <1>8, <1>9, <1>10
     DEF Next, Watcher, Proceed

\* A restart request is never lost: the watcher clears it only after a process
\* was begun, or could not be, since the request was made, or because the new
\* process made it before the clear.
THEOREM RequestsAreServed == Spec => []RequestIsServed
<1>1. Init => Served
  BY DEF Init, Served, RequestIsServed
<1>2. Served => RequestIsServed
  BY DEF Served
<1>3. QED
  BY <1>1, <1>2, ServedStep, HeldAlways, PTL DEF Spec

-----------------------------------------------------------------------------
(* Results                                                                 *)

Started == {"run", "resume"}

\* None of the kinds K in a queue; at most one, and that one with this id.
Clean(s, K) == \A i \in 1..Len(s) : s[i].kind \notin K
Lone(s, K, id) ==
  \A i, j \in 1..Len(s) :
    s[i].kind \in K => s[i].id = id /\ (s[j].kind \in K => i = j)

LEMMA CleanIsLone == \A s, K, id : Clean(s, K) => Lone(s, K, id)
BY DEF Clean, Lone

LEMMA TailClean ==
  ASSUME NEW S, NEW s \in Seq(S), s # <<>>, NEW K, Clean(s, K)
  PROVE  Head(s).kind \notin K /\ Clean(Tail(s), K)
<1>1. Len(s) \in Nat /\ Len(s) # 0 /\ Head(s) = s[1]
  BY EmptySeq, LenProperties
<1>2. \A i \in 1..Len(Tail(s)) : i + 1 \in 1..Len(s) /\ Tail(s)[i] = s[i + 1]
  BY <1>1, HeadTailProperties
<1>3. QED
  BY <1>1, <1>2 DEF Clean

\* The one of its kind is taken, and none is left.
LEMMA TailLone ==
  ASSUME NEW S, NEW s \in Seq(S), s # <<>>, NEW K, NEW id, Lone(s, K, id)
  PROVE  /\ Lone(Tail(s), K, id)
         /\ Head(s).kind \in K => Head(s).id = id /\ Clean(Tail(s), K)
<1>1. Len(s) \in Nat /\ Len(s) # 0 /\ Head(s) = s[1]
  BY EmptySeq, LenProperties
<1>2. \A i \in 1..Len(Tail(s)) : i + 1 \in 1..Len(s) /\ Tail(s)[i] = s[i + 1]
  BY <1>1, HeadTailProperties
<1>3. Lone(Tail(s), K, id)
  <2> SUFFICES ASSUME NEW i \in 1..Len(Tail(s)), NEW j \in 1..Len(Tail(s)),
                      Tail(s)[i].kind \in K
               PROVE  Tail(s)[i].id = id /\ (Tail(s)[j].kind \in K => i = j)
    BY DEF Lone
  <2>1. s[i + 1].kind \in K
    BY <1>2
  <2>2. s[i + 1].id = id /\ (s[j + 1].kind \in K => i + 1 = j + 1)
    BY <1>2, <2>1 DEF Lone
  <2>3. i + 1 = j + 1 => i = j
    OBVIOUS
  <2>4. QED
    BY <1>2, <2>2, <2>3
<1>4. ASSUME Head(s).kind \in K PROVE Head(s).id = id /\ Clean(Tail(s), K)
  <2>1. 1 \in 1..Len(s) /\ s[1].kind \in K
    BY <1>1, <1>4
  <2>2. \A i \in 1..Len(Tail(s)) : s[i + 1].kind \in K => 1 = i + 1
    BY <1>2, <2>1 DEF Lone
  <2>3. \A i \in 1..Len(Tail(s)) : 1 # i + 1
    OBVIOUS
  <2>4. QED
    BY <1>1, <1>2, <2>1, <2>2, <2>3 DEF Lone, Clean
<1>5. QED
  BY <1>3, <1>4

LEMMA AppendClean ==
  ASSUME NEW S, NEW s \in Seq(S), NEW x \in S, NEW K, Clean(s, K)
  PROVE  /\ x.kind \notin K => Clean(Append(s, x), K)
         /\ Lone(Append(s, x), K, x.id)
<1>1. /\ Len(s) \in Nat /\ Len(Append(s, x)) = Len(s) + 1
      /\ \A i \in 1..Len(s) : Append(s, x)[i] = s[i]
      /\ Append(s, x)[Len(s) + 1] = x
  BY AppendProperties, LenProperties
<1>2. \A i \in 1..(Len(s) + 1) : i = Len(s) + 1 \/ i \in 1..Len(s)
  BY <1>1
<1>3. QED
  BY <1>1, <1>2 DEF Clean, Lone

LEMMA AppendLone ==
  ASSUME NEW S, NEW s \in Seq(S), NEW x \in S, NEW K, NEW id, Lone(s, K, id),
         x.kind \notin K
  PROVE  Lone(Append(s, x), K, id)
<1>1. /\ Len(s) \in Nat /\ Len(Append(s, x)) = Len(s) + 1
      /\ \A i \in 1..Len(s) : Append(s, x)[i] = s[i]
      /\ Append(s, x)[Len(s) + 1] = x
  BY AppendProperties, LenProperties
<1>2. \A i \in 1..(Len(s) + 1) : i = Len(s) + 1 \/ i \in 1..Len(s)
  BY <1>1
<1>3. QED
  BY <1>1, <1>2 DEF Lone

\* A worker that has no run to do, and one that has at most this one.
Unstarted(w) == Clean(w.pipe, Started) /\ Clean(w.cmds, Started) /\ w.run = 0
Underway(w, id) ==
  /\ Lone(w.pipe, Started, id) /\ Lone(w.cmds, Started, id) /\ w.run \in {0, id}
  /\ \/ Clean(w.pipe, Started) /\ Clean(w.cmds, Started)
     \/ Clean(w.pipe, Started) /\ w.run = 0
     \/ Clean(w.cmds, Started) /\ w.run = 0

\* What the driver does not wait for, and what it waits for: on the way to the
\* worker, in it, or on the way back, and once.
Clear ==
  /\ Clean(sup.events, Ends)
  /\ sup.handle \in Workers => Unstarted(worker[sup.handle])
Carrying ==
  /\ Lone(sup.events, Ends, lead.id)
  /\ sup.handle \in Workers =>
       IF Clean(sup.events, Ends) THEN Underway(worker[sup.handle], lead.id)
                                  ELSE Unstarted(worker[sup.handle])

Own == tui = "up" /\ ~seen.interrupted => IF lead.at = "wait" THEN Carrying ELSE Clear

\* The end of file is the last that is heard of a worker, and it has ended.
Buried == [NotSpawned EXCEPT !.up = "dead"]
EofLast ==
  tui = "up" =>
  \A i \in 1..Len(sup.events) : sup.events[i].kind = "eof" =>
    /\ \A j \in 1..Len(sup.events) : i < j => sup.events[j].kind \notin Ends
    /\ sup.handle \in Workers => worker[sup.handle] = Buried

LEMMA UnstartedUnderway == \A w, id : Unstarted(w) => Underway(w, id)
BY CleanIsLone DEF Unstarted, Underway

LEMMA FreshUnstarted == Unstarted(Spawned) /\ Unstarted(Buried)
BY DEF Unstarted, Spawned, Buried, NotSpawned, Clean

\* Fewer events, or more that are no results.
Hushed ==
  \/ sup'.events = sup.events
  \/ sup.events # <<>> /\ sup'.events = Tail(sup.events)
  \/ \E x \in Event : x.kind \notin Ends /\ sup'.events = Append(sup.events, x)

LEMMA HushedEvents ==
  ASSUME Typed, Hushed
  PROVE  /\ Clean(sup.events, Ends) => Clean(sup.events, Ends)'
         /\ \A id : Lone(sup.events, Ends, id) => Lone(sup'.events, Ends, id)
<1>1. sup.events \in Seq(Event)
  BY DEF Typed, Sup
<1>2. CASE sup'.events = sup.events
  BY <1>2 DEF Clean
<1>3. CASE sup.events # <<>> /\ sup'.events = Tail(sup.events)
  <2>1. Clean(sup.events, Ends) => Clean(sup'.events, Ends)
    BY <1>1, <1>3, TailClean
  <2>2. QED
    BY <1>1, <1>3, <2>1, TailLone DEF Clean
<1>4. ASSUME NEW x \in Event, x.kind \notin Ends, sup'.events = Append(sup.events, x)
      PROVE  /\ Clean(sup.events, Ends) => Clean(sup.events, Ends)'
             /\ \A id : Lone(sup.events, Ends, id) => Lone(sup'.events, Ends, id)
  <2>1. Clean(sup.events, Ends) => Clean(sup'.events, Ends)
    BY <1>1, <1>4, AppendClean
  <2>2. QED
    BY <1>1, <1>4, <2>1, AppendLone DEF Clean
<1>5. QED
  BY <1>2, <1>3, <1>4 DEF Hushed

\* A worker that gets no run and ends none, or gets on with the one it has.
Harmless(w, v) ==
  /\ Unstarted(w) => Unstarted(v)
  /\ \A id : Underway(w, id) => Underway(v, id)

LEMMA OwnKept ==
  ASSUME Typed, Own, tui' = "up" => tui = "up", Hushed,
         ~seen'.interrupted => ~seen.interrupted, sup'.handle = sup.handle,
         sup.handle \in Workers => Harmless(worker[sup.handle], worker'[sup.handle]),
         lead'.at = "wait" <=> lead.at = "wait", lead'.id = lead.id
  PROVE  Own'
<1> SUFFICES ASSUME tui' = "up", ~seen'.interrupted
             PROVE  IF lead'.at = "wait" THEN Carrying' ELSE Clear'
  BY DEF Own
<1>1. /\ Clean(sup.events, Ends) => Clean(sup.events, Ends)'
      /\ \A id : Lone(sup.events, Ends, id) => Lone(sup'.events, Ends, id)
  BY HushedEvents
<1>2. CASE lead.at = "wait"
  <2>1. Carrying
    BY <1>2 DEF Own
  <2>2. Lone(sup'.events, Ends, lead'.id)
    BY <1>1, <2>1 DEF Carrying
  <2>3. Lone(sup.events, Ends, lead.id)'
    BY <2>2 DEF Lone
  <2>4. ASSUME sup.handle \in Workers
        PROVE  IF Clean(sup.events, Ends)' THEN Underway(worker'[sup.handle], lead.id)
                                           ELSE Unstarted(worker'[sup.handle])
    BY <1>1, <2>1, <2>4, UnstartedUnderway DEF Carrying, Harmless
  <2>5. Carrying'
    BY <2>3, <2>4 DEF Carrying, Underway, Unstarted, Lone, Clean
  <2>6. QED
    BY <1>2, <2>5
<1>3. CASE lead.at # "wait"
  <2>1. Clear
    BY <1>3 DEF Own
  <2>2. Clean(sup.events, Ends)'
    BY <1>1, <2>1 DEF Clear
  <2>3. sup.handle \in Workers => Unstarted(worker'[sup.handle])
    BY <2>1 DEF Clear, Harmless
  <2>4. Clear'
    BY <2>2, <2>3 DEF Clear, Unstarted, Clean
  <2>5. QED
    BY <1>3, <2>4
<1>4. QED
  BY <1>2, <1>3

\* More events only of a worker that has not ended, or its end of file.
LEMMA EofKept ==
  ASSUME Typed, EofLast, tui' = "up" => tui = "up", sup'.handle = sup.handle,
         \/ sup'.events = sup.events
         \/ sup.events # <<>> /\ sup'.events = Tail(sup.events)
         \/ \E x \in Event :
              /\ sup'.events = Append(sup.events, x)
              /\ \/ x.kind \notin Ends
                 \/ sup.handle \in Workers /\ Alive(sup.handle)
              /\ x.kind = "eof" /\ sup.handle \in Workers =>
                   worker'[sup.handle] = Buried,
         sup.handle \in Workers =>
           \/ worker'[sup.handle] \in {worker[sup.handle], Buried}
           \/ Alive(sup.handle)
  PROVE  EofLast'
<1> SUFFICES ASSUME tui' = "up", NEW i \in 1..Len(sup'.events),
                    sup'.events[i].kind = "eof"
             PROVE  /\ \A j \in 1..Len(sup'.events) : i < j => sup'.events[j].kind \notin Ends
                    /\ sup.handle \in Workers => worker'[sup.handle] = Buried
  BY DEF EofLast
<1>1. sup.events \in Seq(Event) /\ Len(sup.events) \in Nat
  BY LenProperties DEF Typed, Sup
<1>2. ASSUME NEW k \in 1..Len(sup.events), sup.events[k].kind = "eof"
      PROVE  /\ \A j \in 1..Len(sup.events) : k < j => sup.events[j].kind \notin Ends
             /\ sup.handle \in Workers => ~Alive(sup.handle) /\ worker'[sup.handle] = Buried
  <2>1. sup.handle \in Workers => ~Alive(sup.handle)
    BY <1>2 DEF EofLast, Buried, NotSpawned, Alive
  <2>2. QED
    BY <1>2, <2>1 DEF EofLast
<1>3. CASE sup'.events = sup.events
  BY <1>2, <1>3
<1>4. CASE sup.events # <<>> /\ sup'.events = Tail(sup.events)
  <2>1. \A k \in 1..Len(Tail(sup.events)) :
          k + 1 \in 1..Len(sup.events) /\ Tail(sup.events)[k] = sup.events[k + 1]
    BY <1>1, <1>4, HeadTailProperties
  <2>2. \A k, j \in Nat : k < j => k + 1 < j + 1
    OBVIOUS
  <2>3. QED
    BY <1>2, <1>4, <2>1, <2>2
<1>5. ASSUME NEW x \in Event, sup'.events = Append(sup.events, x),
             x.kind \notin Ends \/ (sup.handle \in Workers /\ Alive(sup.handle)),
             x.kind = "eof" /\ sup.handle \in Workers => worker'[sup.handle] = Buried
      PROVE  /\ \A j \in 1..Len(sup'.events) : i < j => sup'.events[j].kind \notin Ends
             /\ sup.handle \in Workers => worker'[sup.handle] = Buried
  <2>1. /\ Len(sup'.events) = Len(sup.events) + 1
        /\ \A k \in 1..Len(sup.events) : sup'.events[k] = sup.events[k]
        /\ sup'.events[Len(sup.events) + 1] = x
    BY <1>1, <1>5, AppendProperties
  <2>2. \A k \in 1..Len(sup'.events) : k = Len(sup.events) + 1 \/ k \in 1..Len(sup.events)
    BY <1>1, <2>1
  <2>3. CASE i = Len(sup.events) + 1
    <3>1. x.kind = "eof"
      BY <2>1, <2>3
    <3>2. \A j \in 1..Len(sup'.events) : ~(i < j)
      BY <1>1, <2>1, <2>3
    <3>3. QED
      BY <1>5, <3>1, <3>2
  <2>4. CASE i \in 1..Len(sup.events)
    <3>1. sup.events[i].kind = "eof"
      BY <2>1, <2>4
    <3>2. x.kind \notin Ends
      BY <1>2, <1>5, <2>4, <3>1
    <3>3. QED
      BY <1>2, <2>1, <2>2, <2>4, <3>1, <3>2
  <2>5. QED
    BY <2>2, <2>3, <2>4
<1>6. QED
  BY <1>3, <1>4, <1>5

LEMMA HarmlessFields ==
  ASSUME NEW w \in Worker, NEW v, v.pipe = w.pipe, v.cmds = w.cmds, v.run = w.run
  PROVE  Harmless(w, v)
BY DEF Harmless, Unstarted, Underway

LEMMA HarmlessWrite ==
  ASSUME NEW w \in Worker, NEW v, NEW x \in Command, x.kind \notin Started,
         v.pipe = Append(w.pipe, x), v.cmds = w.cmds, v.run = w.run
  PROVE  Harmless(w, v)
<1>1. w.pipe \in Seq(Command)
  BY DEF Worker
<1>2. Clean(w.pipe, Started) => Clean(v.pipe, Started)
  BY <1>1, AppendClean
<1>3. \A id : Lone(w.pipe, Started, id) => Lone(v.pipe, Started, id)
  BY <1>1, AppendLone
<1>4. QED
  BY <1>2, <1>3 DEF Harmless, Unstarted, Underway

\* The pump takes the first line, and what is no input joins the commands.
LEMMA HarmlessPump ==
  ASSUME NEW w \in Worker, NEW v, w.pipe # <<>>, v.pipe = Tail(w.pipe), v.run = w.run,
         \/ v.cmds = w.cmds
         \/ v.cmds = Append(w.cmds, Head(w.pipe))
  PROVE  Harmless(w, v)
<1>1. w.pipe \in Seq(Command) /\ w.cmds \in Seq(Command) /\ Head(w.pipe) \in Command
  BY HeadTailProperties DEF Worker
<1>2. ASSUME Unstarted(w) PROVE Unstarted(v)
  <2>1. Clean(v.pipe, Started) /\ Head(w.pipe).kind \notin Started
    BY <1>1, <1>2, TailClean DEF Unstarted
  <2>2. Clean(Append(w.cmds, Head(w.pipe)), Started)
    BY <1>1, <1>2, <2>1, AppendClean DEF Unstarted
  <2>3. QED
    BY <1>2, <2>1, <2>2 DEF Unstarted
<1>3. ASSUME NEW id, Underway(w, id) PROVE Underway(v, id)
  <2>1. /\ Lone(w.pipe, Started, id) /\ Lone(w.cmds, Started, id)
        /\ w.run \in {0, id}
    BY <1>3 DEF Underway
  <2>2. /\ Lone(Tail(w.pipe), Started, id)
        /\ Head(w.pipe).kind \in Started =>
             Head(w.pipe).id = id /\ Clean(Tail(w.pipe), Started)
    BY <1>1, <2>1, TailLone
  <2>3. Clean(w.pipe, Started) =>
          Clean(Tail(w.pipe), Started) /\ Head(w.pipe).kind \notin Started
    BY <1>1, TailClean
  <2>4. CASE Head(w.pipe).kind \in Started
    <3>1. Clean(w.cmds, Started) /\ w.run = 0
      BY <1>3, <2>3, <2>4 DEF Underway
    <3>2. Lone(Append(w.cmds, Head(w.pipe)), Started, id)
      BY <1>1, <2>2, <2>4, <3>1, AppendClean
    <3>3. QED
      BY <2>1, <2>2, <2>4, <3>1, <3>2 DEF Underway
  <2>5. CASE Head(w.pipe).kind \notin Started
    <3>1. /\ Lone(v.cmds, Started, id)
          /\ Clean(w.cmds, Started) => Clean(v.cmds, Started)
      BY <1>1, <2>1, <2>5, AppendClean, AppendLone
    <3>2. QED
      BY <1>3, <2>1, <2>2, <2>3, <3>1 DEF Underway
  <2>6. QED
    BY <2>4, <2>5
<1>4. QED
  BY <1>2, <1>3 DEF Harmless

\* The command loop takes the first command; a run becomes the current one.
LEMMA HarmlessNext ==
  ASSUME NEW w \in Worker, NEW v, w.cmds # <<>>, w.run = 0,
         v.pipe = w.pipe, v.cmds = Tail(w.cmds),
         v.run = IF Head(w.cmds).kind \in Started THEN Head(w.cmds).id ELSE 0
  PROVE  Harmless(w, v)
<1>1. w.cmds \in Seq(Command)
  BY DEF Worker
<1>2. Clean(w.cmds, Started) =>
        Clean(Tail(w.cmds), Started) /\ Head(w.cmds).kind \notin Started
  BY <1>1, TailClean
<1>3. ASSUME Unstarted(w) PROVE Unstarted(v)
  BY <1>2, <1>3 DEF Unstarted
<1>4. ASSUME NEW id, Underway(w, id) PROVE Underway(v, id)
  <2>1. /\ Lone(Tail(w.cmds), Started, id) /\ Lone(w.pipe, Started, id)
        /\ Head(w.cmds).kind \in Started =>
             Head(w.cmds).id = id /\ Clean(Tail(w.cmds), Started)
    BY <1>1, <1>4, TailLone DEF Underway
  <2>2. QED
    BY <1>2, <1>4, <2>1 DEF Underway
<1>5. QED
  BY <1>3, <1>4 DEF Harmless

LEMMA WriteHarmless ==
  ASSUME Typed, NEW kind, NEW id, Write(kind, id), kind \notin Started,
         [kind |-> kind, id |-> id] \in Command, sup.handle \in Workers
  PROVE  Harmless(worker[sup.handle], worker'[sup.handle])
<1> DEFINE w == worker[sup.handle]
           v == worker'[sup.handle]
<1>1. w \in Worker
  BY DEF Typed
<1>2. v = [w EXCEPT !.pipe = Append(@, [kind |-> kind, id |-> id])]
  BY DEF Typed, Write
<1>3. /\ v.pipe = Append(w.pipe, [kind |-> kind, id |-> id])
      /\ v.cmds = w.cmds /\ v.run = w.run
  BY <1>1, <1>2 DEF Worker
<1>4. [kind |-> kind, id |-> id].kind \notin Started
  OBVIOUS
<1> HIDE DEF w, v
<1>5. Harmless(w, v)
  BY <1>1, <1>3, <1>4, HarmlessWrite
<1>6. QED
  BY <1>5 DEF w, v

LEMMA SameHarmless ==
  ASSUME Typed, UNCHANGED worker, sup.handle \in Workers
  PROVE  Harmless(worker[sup.handle], worker'[sup.handle])
BY DEF Harmless

\* A step that sends nothing and reads nothing.
LEMMA StillOwn ==
  ASSUME Typed, Own, EofLast, UNCHANGED <<tui, sup, worker>>,
         ~seen'.interrupted => ~seen.interrupted,
         ~seen'.interrupted => (lead'.at = "wait" <=> lead.at = "wait"),
         lead'.id = lead.id
  PROVE  Own' /\ EofLast'
<1>1. EofLast'
  BY EofKept
<1>2. CASE ~seen'.interrupted
  BY <1>1, <1>2, SameHarmless, OwnKept DEF Hushed
<1>3. CASE seen'.interrupted
  BY <1>1, <1>3 DEF Own
<1>4. QED
  BY <1>2, <1>3

LEMMA DriverOwn ==
  ASSUME Typed, Placed, Held, Own, EofLast,
         \/ Type \/ Wake \/ DriverTakes \/ StartRun \/ DriverAnswers \/ Reader
         \/ Interrupt \/ SwitchLead \/ StartReload \/ ReloadTimesOut
  PROVE  Own' /\ EofLast'
<1>0. /\ lead \in Lead /\ sup \in Sup /\ seen \in Seen
      /\ tui' = tui
  BY DEF Typed, Type, Wake, DriverTakes, StartRun, DriverAnswers, Reader, RunReads,
         ReloadReads, Interrupt, SwitchLead, StartReload, ReloadTimesOut
<1>1. ASSUME NEW kind, NEW id, Write(kind, id), kind \notin Started, Open,
             [kind |-> kind, id |-> id] \in Command, UNCHANGED <<sup, seen>>,
             lead'.at = lead.at, lead'.id = lead.id
      PROVE  Own' /\ EofLast'
  <2>1. EofLast'
    BY <1>0, <1>1, EofKept DEF Open
  <2>2. QED
    BY <1>0, <1>1, <2>1, WriteHarmless, OwnKept DEF Hushed
<1>2. CASE Type
  <2>1. lead'.at = lead.at /\ lead'.id = lead.id /\ UNCHANGED <<sup, seen>>
    BY <1>0, <1>2 DEF Type, Lead
  <2>2. CASE UNCHANGED worker
    BY <1>0, <2>1, <2>2, StillOwn
  <2>3. CASE Write("input", 0) /\ Open
    BY <1>1, <2>1, <2>3 DEF Started, Command
  <2>4. QED
    BY <1>2, <2>2, <2>3 DEF Type
<1>3. CASE Wake \/ DriverTakes \/ DriverAnswers \/ SwitchLead \/ ReloadTimesOut
  <2>1. /\ lead'.id = lead.id /\ lead'.at = "wait" <=> lead.at = "wait"
        /\ UNCHANGED <<sup, worker, seen>>
    BY <1>0, <1>3 DEF Wake, DriverTakes, DriverAnswers, SwitchLead, ReloadTimesOut, Lead
  <2>2. QED
    BY <1>0, <1>3, <2>1, StillOwn
       DEF Wake, DriverTakes, DriverAnswers, SwitchLead, ReloadTimesOut, Lead
<1>4. CASE Interrupt
  <2>1. /\ lead'.id = lead.id /\ lead'.at = "idle" /\ UNCHANGED <<sup, worker>>
        /\ ~seen'.interrupted => ~seen.interrupted /\ lead.at # "wait"
    BY <1>0, <1>4 DEF Interrupt, Cancelled, Idle, Lead, Seen
  <2>2. QED
    BY <1>0, <2>1, StillOwn
<1>5. CASE StartReload
  <2>1. [kind |-> "reload", id |-> reload.id + 1] \in Command
    BY DEF Typed, Command
  <2>2. QED
    BY <1>1, <1>5, <2>1 DEF StartReload, Started
<1>6. CASE ReloadReads
  <2>1. /\ sup'.handle = sup.handle
        /\ sup.events # <<>> /\ sup'.events = Tail(sup.events)
        /\ UNCHANGED <<worker, lead, seen>>
    BY <1>6, TakeTyped DEF ReloadReads
  <2>2. EofLast'
    BY <1>0, <2>1, EofKept
  <2>3. QED
    BY <1>0, <2>1, <2>2, SameHarmless, OwnKept DEF Hushed
\* The command is the only one of its kind.
<1>7. CASE StartRun
  <2>1. CASE lead' = Idle(lead) /\ UNCHANGED worker
    <3>1. lead'.id = lead.id /\ lead'.at = "idle" /\ lead.at # "wait"
      BY <1>0, <1>7, <2>1 DEF StartRun, Idle, Lead
    <3>2. QED
      BY <1>0, <1>7, <2>1, <3>1, StillOwn DEF StartRun
  <2>2. CASE /\ lead' = [lead EXCEPT !.at = "wait", !.id = @ + 1]
             /\ Write(lead.run, lead.id + 1) /\ Open
    <3> DEFINE c == [kind |-> lead.run, id |-> lead.id + 1]
    <3>1. /\ lead'.id = lead.id + 1 /\ lead'.at = "wait" /\ lead.at = "lock"
          /\ UNCHANGED <<sup, seen>> /\ c \in Command
      BY <1>0, <1>7, <2>2 DEF StartRun, Lead, Command
    <3>2. EofLast'
      BY <1>0, <2>2, <3>1, EofKept DEF Open
    <3>3. ASSUME tui = "up", ~seen.interrupted PROVE Carrying'
      <4>1. Clear
        BY <3>1, <3>3 DEF Own
      <4>2. Lone(sup.events, Ends, lead.id)' /\ Clean(sup.events, Ends)'
        BY <3>1, <4>1, CleanIsLone DEF Clear, Clean, Lone
      <4>3. ASSUME sup.handle \in Workers
            PROVE  Underway(worker'[sup.handle], lead'.id)
        <5> DEFINE w == worker[sup.handle]
                   v == worker'[sup.handle]
        <5>1. w \in Worker /\ Unstarted(w)
          BY <4>1, <4>3 DEF Typed, Clear
        <5>2. v = [w EXCEPT !.pipe = Append(@, c)]
          BY <2>2, <4>3 DEF Typed, Write
        <5>3. /\ v.pipe = Append(w.pipe, c) /\ v.cmds = w.cmds /\ v.run = w.run
              /\ w.pipe \in Seq(Command)
          BY <5>1, <5>2 DEF Worker
        <5> HIDE DEF w, v
        <5>4. Lone(v.pipe, Started, c.id)
          BY <3>1, <5>1, <5>3, AppendClean DEF Unstarted
        <5>5. Underway(v, c.id)
          BY <5>1, <5>3, <5>4, CleanIsLone DEF Unstarted, Underway
        <5>6. QED
          BY <3>1, <5>5 DEF v
      <4>4. QED
        BY <3>1, <4>2, <4>3 DEF Carrying, Underway, Lone, Clean
    <3>4. QED
      BY <1>0, <3>1, <3>2, <3>3 DEF Own
  <2>3. QED
    BY <1>7, <2>1, <2>2 DEF StartRun
\* A result leaves none behind, nor does the end of file.
<1>8. CASE RunReads
  <2>1. /\ sup'.handle = sup.handle /\ sup.events \in Seq(Event)
        /\ sup.events # <<>> /\ sup'.events = Tail(sup.events)
        /\ UNCHANGED worker /\ lead.at = "wait"
        /\ seen'.interrupted = seen.interrupted
    BY <1>0, <1>8, TakeTyped DEF RunReads, Sup, Seen
  <2>2. EofLast'
    BY <1>0, <2>1, EofKept
  <2>3. CASE Next1.kind \notin Ends \cup {"eof"}
    <3>1. lead' = lead
      BY <1>8, <2>3 DEF RunReads, Ends
    <3>2. QED
      BY <1>0, <2>1, <2>2, <3>1, SameHarmless, OwnKept DEF Hushed
  <2>4. CASE Next1.kind \in Ends \cup {"eof"}
    <3>1. lead'.at # "wait"
      BY <1>0, <1>8, <2>4 DEF RunReads, Ends, Idle, Lead
    <3>2. ASSUME tui = "up", ~seen.interrupted PROVE Clear'
      <4>1. Carrying
        BY <2>1, <3>2 DEF Own
      <4>2. CASE Next1.kind \in Ends
        <5>1. Clean(Tail(sup.events), Ends) /\ ~Clean(sup.events, Ends)
          BY <2>1, <4>1, <4>2, TailLone, TailClean DEF Carrying, Next1
        <5>2. QED
          BY <2>1, <4>1, <5>1 DEF Carrying, Clear, Clean, Unstarted
      <4>3. CASE Next1.kind = "eof"
        <5>1. /\ \A j \in 1..Len(sup.events) : 1 < j => sup.events[j].kind \notin Ends
              /\ sup.handle \in Workers => worker[sup.handle] = Buried
          <6>1. 1 \in 1..Len(sup.events) /\ sup.events[1].kind = "eof"
            BY <2>1, <4>3, EmptySeq, LenProperties DEF Next1
          <6>2. QED
            BY <3>2, <6>1 DEF EofLast
        <5>2. \A k \in 1..Len(Tail(sup.events)) :
                k + 1 \in 1..Len(sup.events) /\ Tail(sup.events)[k] = sup.events[k + 1]
          BY <2>1, HeadTailProperties, LenProperties
        <5>3. Clean(Tail(sup.events), Ends)
          BY <5>1, <5>2 DEF Clean
        <5>4. sup.handle \in Workers => Unstarted(worker[sup.handle])
          BY <5>1, FreshUnstarted
        <5>5. QED
          BY <2>1, <5>3, <5>4 DEF Clear, Clean, Unstarted
      <4>4. QED
        BY <2>4, <4>2, <4>3
    <3>3. QED
      BY <1>0, <2>1, <2>2, <3>1, <3>2 DEF Own
  <2>5. QED
    BY <2>3, <2>4
<1>9. QED
  BY <1>2, <1>3, <1>4, <1>5, <1>6, <1>7, <1>8 DEF Reader

LEMMA WorkerOwn ==
  ASSUME Typed, Placed, Held, Own, EofLast, NEW g \in Workers,
         Pump(g) \/ Loop(g) \/ RunDrains(g) \/ RequestRestart(g) \/ WorkerFails(g)
  PROVE  Own' /\ EofLast'
<1> DEFINE w == worker[g]
           v == worker'[g]
<1>0. /\ w \in Worker /\ worker \in [Workers -> Worker] /\ sup \in Sup /\ seen \in Seen
      /\ UNCHANGED <<tui, lead>> /\ Alive(g)
  BY DEF Typed, Pump, Loop, NextCommand, StopLoop, FinishRun, Leave, RunDrains,
         RequestRestart, WorkerFails, Steps, Alive
<1>1. seen'.interrupted = seen.interrupted
  BY <1>0 DEF Pump, Loop, NextCommand, StopLoop, FinishRun, Leave, RunDrains,
              RequestRestart, WorkerFails, Seen
\* What another worker does is not heard.
<1>2. ASSUME sup.handle = g => Harmless(w, v), \A h \in Workers \ {g} : worker'[h] = worker[h],
             \/ UNCHANGED sup
             \/ \E kind, id : /\ Emit(g, kind, id) /\ kind \notin Ends
                              /\ [kind |-> kind, id |-> id] \in Event
                              /\ kind = "eof" => v = Buried
      PROVE  Own' /\ EofLast'
  <2>1. sup'.handle = sup.handle
    BY <1>0, <1>2 DEF Emit, Sup
  <2>2. /\ sup.handle # g => worker'[sup.handle] = worker[sup.handle] \/ sup.handle \notin Workers
        /\ sup.handle \in Workers => Harmless(worker[sup.handle], worker'[sup.handle])
    BY <1>2 DEF Harmless
  <2>3. \/ sup'.events = sup.events
        \/ \E x \in Event : /\ x.kind \notin Ends /\ sup'.events = Append(sup.events, x)
                            /\ x.kind = "eof" => v = Buried
                            /\ sup.handle = g
    <3>1. CASE UNCHANGED sup
      BY <3>1
    <3>2. ASSUME NEW kind, NEW id, Emit(g, kind, id), kind \notin Ends,
                 [kind |-> kind, id |-> id] \in Event, kind = "eof" => v = Buried
          PROVE  \/ sup'.events = sup.events
                 \/ \E x \in Event : /\ x.kind \notin Ends /\ sup'.events = Append(sup.events, x)
                                     /\ x.kind = "eof" => v = Buried
                                     /\ sup.handle = g
      <4> DEFINE x == [kind |-> kind, id |-> id]
      <4>1. x \in Event /\ x.kind = kind
        BY <3>2
      <4>2. sup'.events = IF sup.handle = g THEN Append(sup.events, x) ELSE sup.events
        BY <3>2, EmitTyped
      <4> HIDE DEF x
      <4>3. QED
        BY <3>2, <4>1, <4>2
    <3>3. QED
      BY <1>2, <3>1, <3>2
  <2>4. EofLast'
    BY <1>0, <2>1, <2>2, <2>3, EofKept
  <2>5. Own'
    BY <1>0, <1>1, <2>1, <2>2, <2>3, OwnKept DEF Hushed
  <2>6. QED
    BY <2>4, <2>5
<1>3. ASSUME \/ worker' = worker
             \/ \E z : worker' = [worker EXCEPT ![g] = z]
      PROVE  \A h \in Workers \ {g} : worker'[h] = worker[h]
  BY <1>0, <1>3
<1>4. CASE Pump(g)
  <2>1. PICK z \in {[w EXCEPT !.pipe = Tail(@), !.inputs = @ + 1],
                    [w EXCEPT !.pipe = Tail(@), !.cmds = Append(@, Head(w.pipe))],
                    [w EXCEPT !.stop = TRUE]} :
           /\ worker' = [worker EXCEPT ![g] = z]
           /\ w.pipe = <<>> => z = [w EXCEPT !.stop = TRUE]
    BY <1>0, <1>4 DEF Pump
  <2>2. v = z
    BY <1>0, <2>1
  <2>3. CASE z = [w EXCEPT !.stop = TRUE]
    <3>1. v.pipe = w.pipe /\ v.cmds = w.cmds /\ v.run = w.run
      BY <1>0, <2>2, <2>3 DEF Worker
    <3>2. Harmless(w, v)
      BY <1>0, <3>1, HarmlessFields
    <3>3. QED
      BY <1>2, <1>3, <1>4, <2>1, <3>2 DEF Pump
  <2>4. CASE z # [w EXCEPT !.stop = TRUE]
    <3>1. /\ w.pipe # <<>> /\ v.pipe = Tail(w.pipe) /\ v.run = w.run
          /\ v.cmds = w.cmds \/ v.cmds = Append(w.cmds, Head(w.pipe))
      BY <1>0, <2>1, <2>2, <2>4 DEF Worker
    <3>2. Harmless(w, v)
      BY <1>0, <3>1, HarmlessPump
    <3>3. QED
      BY <1>2, <1>3, <1>4, <2>1, <3>2 DEF Pump
  <2>5. QED
    BY <2>3, <2>4
<1>5. CASE NextCommand(g)
  <2> DEFINE c == Head(w.cmds)
  <2>1. c \in Command /\ w.cmds # <<>> /\ w.run = 0
    BY <1>0, <1>5, HeadTailProperties DEF NextCommand, Worker
  <2>2. /\ v.pipe = w.pipe /\ v.cmds = Tail(w.cmds)
        /\ v.run = IF c.kind \in Started THEN c.id ELSE 0
        /\ \E z : worker' = [worker EXCEPT ![g] = z]
    BY <1>0, <1>5, <2>1 DEF NextCommand, Worker, Started
  <2>3. Harmless(w, v)
    BY <1>0, <2>1, <2>2, HarmlessNext
  <2>4. \/ UNCHANGED sup
        \/ Emit(g, "reloaded", c.id)
        \/ Emit(g, "ack", 0)
    BY <1>5 DEF NextCommand
  <2>5. [kind |-> "reloaded", id |-> c.id] \in Event /\ [kind |-> "ack", id |-> 0] \in Event
    BY <2>1 DEF Command, Event
  <2>6. QED
    BY <1>2, <1>3, <2>2, <2>3, <2>4, <2>5 DEF Ends
<1>6. CASE StopLoop(g) \/ RunDrains(g) \/ RequestRestart(g)
  <2>1. /\ v.pipe = w.pipe /\ v.cmds = w.cmds /\ v.run = w.run /\ UNCHANGED sup
        /\ worker' = worker \/ \E z : worker' = [worker EXCEPT ![g] = z]
    BY <1>0, <1>6 DEF StopLoop, Exit, RunDrains, RequestRestart, Worker
  <2>2. QED
    BY <1>0, <1>2, <1>3, <2>1, HarmlessFields
<1>7. CASE Die(g)
  <2>1. v = Buried /\ \A h \in Workers \ {g} : worker'[h] = worker[h]
    BY <1>7, DieKeeps DEF Buried
  <2>2. Harmless(w, v)
    BY <2>1, FreshUnstarted, UnstartedUnderway DEF Harmless
  <2>3. Emit(g, "eof", 0) /\ [kind |-> "eof", id |-> 0] \in Event
    BY <1>7 DEF Die, Event
  <2>4. QED
    BY <1>2, <2>1, <2>2, <2>3 DEF Ends
<1>8. CASE worker' = [worker EXCEPT ![g].up = "hung"] /\ UNCHANGED sup
  <2>1. v.pipe = w.pipe /\ v.cmds = w.cmds /\ v.run = w.run
    BY <1>0, <1>8 DEF Worker
  <2>2. QED
    BY <1>0, <1>2, <1>3, <1>8, <2>1, HarmlessFields
\* The result of the run the driver waits for, or of nobody's.
<1>9. CASE FinishRun(g)
  <2>1. PICK e \in Ends : Emit(g, e, w.run)
    BY <1>9 DEF FinishRun
  <2> DEFINE x == [kind |-> e, id |-> w.run]
  <2>2. /\ x \in Event /\ x.kind \in Ends /\ x.id = w.run /\ x.kind # "eof"
    BY <1>0, <2>1 DEF Event, Ends, Worker
  <2>3. /\ w.run # 0 /\ v.run = 0 /\ v.pipe = w.pipe /\ v.cmds = w.cmds
        /\ \A h \in Workers \ {g} : worker'[h] = worker[h]
    BY <1>0, <1>9 DEF FinishRun, Worker
  <2>4. /\ sup'.handle = sup.handle
        /\ sup'.events = IF sup.handle = g THEN Append(sup.events, x) ELSE sup.events
    BY <2>1, <2>2, EmitTyped
  <2> HIDE DEF x
  <2>5. CASE sup.handle # g
    <3>1. sup.handle \in Workers => worker'[sup.handle] = worker[sup.handle]
      BY <2>3, <2>5
    <3>2. EofLast'
      BY <1>0, <2>4, <2>5, <3>1, EofKept
    <3>3. QED
      BY <1>0, <1>1, <2>4, <2>5, <3>1, <3>2, OwnKept DEF Hushed, Harmless
  <2>6. CASE sup.handle = g
    <3>1. EofLast'
      BY <1>0, <2>2, <2>4, <2>6, EofKept
    <3>2. ASSUME tui = "up", ~seen.interrupted
          PROVE  lead.at = "wait" /\ Carrying'
      <4>1. ~Unstarted(w)
        BY <2>3 DEF Unstarted
      <4>2. lead.at = "wait" /\ Carrying
        BY <2>6, <3>2, <4>1 DEF Own, Clear
      <4>3. Clean(sup.events, Ends) /\ Underway(w, lead.id)
        BY <2>6, <4>1, <4>2 DEF Carrying
      <4>4. x.id = lead.id /\ Clean(w.pipe, Started) /\ Clean(w.cmds, Started)
        BY <2>2, <2>3, <4>3 DEF Underway
      <4>5. Lone(sup'.events, Ends, lead.id)
        BY <1>0, <2>2, <2>4, <2>6, <4>3, <4>4, AppendClean DEF Sup
      <4>6. Unstarted(v)
        BY <2>3, <4>4 DEF Unstarted
      <4>7. Underway(v, lead.id)
        BY <4>6, UnstartedUnderway
      <4> HIDE DEF w, v
      <4>8. Lone(sup.events, Ends, lead.id)'
        BY <1>0, <4>5 DEF Lone
      <4>9. QED
        BY <1>0, <2>4, <2>6, <4>2, <4>6, <4>7, <4>8
           DEF Carrying, Unstarted, Underway, Lone, Clean, v
    <3>3. QED
      BY <1>0, <1>1, <3>1, <3>2 DEF Own
  <2>7. QED
    BY <2>5, <2>6
<1>10. QED
  BY <1>4, <1>5, <1>6, <1>7, <1>8, <1>9 DEF Loop, Leave, WorkerFails

LEMMA RestartOwn ==
  ASSUME Typed, Placed, Held, Own, EofLast, tui' = "up",
         \/ \E r \in Restarters : AskRestart(r) \/ Proceed(r)
         \/ WatcherClears \/ WatcherPosts \/ SlashDone
  PROVE  Own' /\ EofLast'
<1>0. tui = "up" /\ lead \in Lead /\ sup \in Sup /\ seen \in Seen
  BY DEF Typed, AskRestart, Proceed, Shutdown, AwaitAck, Kill, Reap, Fork,
         WatcherClears, WatcherPosts, SlashDone
\* A run that is cancelled is interrupted, unless it was not sent yet.
<1>1. ASSUME NEW r, AskRestart(r) PROVE Own' /\ EofLast'
  <2>1. UNCHANGED <<tui, sup, worker>> /\ lead'.id = lead.id
    BY <1>0, <1>1 DEF AskRestart, CancelInFlight, Cancelled, Idle, Lead
  <2>2. CASE Cancelled
    <3>1. lead'.at = "idle" /\ (~seen'.interrupted => ~seen.interrupted /\ lead.at # "wait")
      BY <1>0, <2>2 DEF Cancelled, Idle, Lead, Seen
    <3>2. QED
      BY <2>1, <3>1, StillOwn
  <2>3. CASE UNCHANGED <<lead, seen>>
    BY <2>1, <2>3, StillOwn
  <2>4. QED
    BY <1>1, <2>2, <2>3 DEF AskRestart, CancelInFlight
<1>2. CASE WatcherClears \/ WatcherPosts \/ SlashDone
  <2>1. /\ UNCHANGED <<tui, sup, worker, seen>> /\ lead'.id = lead.id
        /\ lead'.at = lead.at
    BY <1>0, <1>2 DEF WatcherClears, WatcherPosts, SlashDone, Lead
  <2>2. QED
    BY <2>1, StillOwn
\* With the queue of a worker that is gone goes all that came from it, and a
\* driver that waits on it reads no more.
<1>3. ASSUME NEW r, NEW s \in Sup, Start(r, s), s.handle = 0, r # "exit",
             UNCHANGED <<tui, seen>>
      PROVE  Own' /\ EofLast'
  <2>1. sup'.handle = 0 /\ sup'.events = <<>> /\ lead'.at # "wait"
    BY <1>0, <1>3 DEF Start, FreshQueue, Sup, Lead, Strand
  <2>2. Len(sup'.events) = 0 /\ sup'.handle \notin Workers
    BY <2>1, EmptySeq DEF Workers
  <2>3. \A i : i \notin 1..Len(sup'.events)
    BY <2>2
  <2>4. Clear'
    BY <2>2, <2>3 DEF Clear, Clean
  <2>5. QED
    BY <2>1, <2>3, <2>4 DEF Own, EofLast
<1>4. ASSUME worker' = Terminated(worker), sup.handle \in Workers
      PROVE  /\ Harmless(worker[sup.handle], worker'[sup.handle])
             /\ worker'[sup.handle] = worker[sup.handle] \/ Alive(sup.handle)
  <2>1. worker[sup.handle] \in Worker
    BY <1>4 DEF Typed
  <2>2. Harmless(worker[sup.handle], worker'[sup.handle])
    BY <1>4, <2>1, TerminatedKeeps, HarmlessFields
  <2>3. QED
    BY <1>4, <2>2 DEF Terminated
<1>5. ASSUME NEW r \in Restarters, Shutdown(r) PROVE Own' /\ EofLast'
  <2>1. restarter[r] = "lock" /\ r # "exit" /\ RestartLockFree /\ UNCHANGED <<tui, seen>>
    BY <1>0, <1>5 DEF Shutdown, Placed
  <2>2. CASE (sup.closed \/ sup.handle = 0) /\ Start(r, sup)
    <3>1. ~sup.closed
      BY <1>0, <2>1 DEF Held, Placed, Restarters, RestartLockFree, Inside
    <3>2. QED
      BY <1>0, <1>3, <2>1, <2>2, <3>1
  <2>3. CASE /\ Usable
             /\ sup' = [sup EXCEPT !.closed = TRUE]
             /\ IF Open THEN Write("shutdown", 0) /\ Move(r, "drain")
                        ELSE worker' = Terminated(worker) /\ Move(r, "reap")
             /\ UNCHANGED <<lead, reload>>
    <3>1. sup'.handle = sup.handle /\ sup'.events = sup.events
      BY <1>0, <2>3 DEF Sup
    <3>2. [kind |-> "shutdown", id |-> 0] \in Command
      BY DEF Command
    <3>3. sup.handle \in Workers =>
            /\ Harmless(worker[sup.handle], worker'[sup.handle])
            /\ worker'[sup.handle] = worker[sup.handle] \/ Alive(sup.handle)
      BY <1>4, <2>3, <3>2, WriteHarmless DEF Open, Started
    <3>4. EofLast'
      BY <2>1, <3>1, <3>3, EofKept
    <3>5. QED
      BY <2>1, <2>3, <3>1, <3>3, <3>4, OwnKept DEF Hushed
  <2>4. QED
    BY <1>5, <2>2, <2>3 DEF Shutdown
<1>6. ASSUME NEW r, AwaitAck(r) PROVE Own' /\ EofLast'
  <2>1. /\ sup'.handle = sup.handle /\ UNCHANGED <<tui, lead, seen>>
        /\ \/ sup'.events = sup.events
           \/ sup.events # <<>> /\ sup'.events = Tail(sup.events)
    BY <1>6, TakeTyped DEF AwaitAck
  <2>2. sup.handle \in Workers =>
            /\ Harmless(worker[sup.handle], worker'[sup.handle])
            /\ worker'[sup.handle] = worker[sup.handle] \/ Alive(sup.handle)
    BY <1>4, <1>6, SameHarmless DEF AwaitAck
  <2>3. EofLast'
    BY <2>1, <2>2, EofKept
  <2>4. QED
    BY <2>1, <2>2, <2>3, OwnKept DEF Hushed
<1>7. ASSUME NEW r, Kill(r) PROVE Own' /\ EofLast'
  <2> DEFINE x == [kind |-> "eof", id |-> 0]
  <2>1. /\ sup'.handle = sup.handle /\ UNCHANGED <<tui, lead, seen>>
        /\ sup'.events = Append(sup.events, x)
    BY <1>7, DieTyped DEF Kill
  <2>2. sup.handle \in Workers => worker'[sup.handle] = Buried
    BY <1>7, DieKeeps DEF Kill, Buried
  <2>3. x \in Event /\ x.kind \notin Ends
    BY DEF Event, Ends
  <2>4. sup.handle \in Workers => Harmless(worker[sup.handle], worker'[sup.handle])
    BY <2>2, FreshUnstarted, UnstartedUnderway DEF Harmless
  <2> HIDE DEF x
  <2>5. EofLast'
    BY <2>1, <2>2, <2>3, EofKept
  <2>6. QED
    BY <2>1, <2>3, <2>4, <2>5, OwnKept DEF Hushed
<1>8. ASSUME NEW r \in Restarters, Reap(r) PROVE Own' /\ EofLast'
  <2>1. Released(sup) \in Sup /\ Released(sup).handle = 0 /\ r # "exit"
    BY <1>0, <1>8 DEF Released, Sup, Reap, Placed
  <2>2. QED
    BY <1>3, <1>8, <2>1 DEF Reap
\* A new worker has nothing to do, and the queue is new too.
<1>9. ASSUME NEW r \in Restarters, Fork(r) PROVE Own' /\ EofLast'
  <2> DEFINE n == sup.spawned + 1
  <2>1. sup.handle = 0 /\ sup.events = <<>> /\ UNCHANGED <<tui, lead>>
    BY <1>0, <1>9 DEF Fork, Held
  <2>2. \/ /\ worker' = [worker EXCEPT ![n] = Spawned]
           /\ sup' = [sup EXCEPT !.handle = n, !.spawned = n]
        \/ UNCHANGED <<worker, sup>>
    BY <1>9 DEF Fork
  <2> HIDE DEF n
  <2>3. /\ sup'.events = <<>>
        /\ sup'.handle \in Workers => worker'[sup'.handle] = Spawned
    <3>1. sup \in Sup /\ worker \in [Workers -> Worker]
      BY <1>0 DEF Typed
    <3>2. CASE /\ worker' = [worker EXCEPT ![n] = Spawned]
               /\ sup' = [sup EXCEPT !.handle = n, !.spawned = n]
      <4>1. sup'.handle = n /\ sup'.events = sup.events
        BY <3>1, <3>2 DEF Sup
      <4>2. n \in Workers => worker'[n] = Spawned
        BY <3>1, <3>2
      <4>3. QED
        BY <4>1, <4>2, <2>1
    <3>3. CASE UNCHANGED <<worker, sup>>
      BY <3>3, <2>1, BoundTyped DEF Workers
    <3>4. QED
      BY <2>2, <3>2, <3>3
  <2>4. \A i : i \notin 1..Len(sup'.events)
    BY <2>3, EmptySeq
  <2>5. Clear'
    BY <2>3, <2>4, FreshUnstarted DEF Clear, Clean, Unstarted
  <2>6. Carrying'
    BY <2>3, <2>4, FreshUnstarted, UnstartedUnderway
       DEF Carrying, Clean, Lone, Unstarted, Underway
  <2>7. QED
    BY <2>4, <2>5, <2>6 DEF Own, EofLast
<1>10. QED
  BY <1>1, <1>2, <1>5, <1>6, <1>7, <1>8, <1>9 DEF Proceed

LEMMA OwnStep ==
  Typed /\ Placed /\ Held /\ Own /\ EofLast /\ [Next]_vars => Own' /\ EofLast'
<1> SUFFICES ASSUME Typed, Placed, Held, Own, EofLast, [Next]_vars
             PROVE  Own' /\ EofLast'
  OBVIOUS
<1>1. CASE tui' = "up" /\ Next
  <2>1. ~Unmount /\ ~Quit
    BY <1>1 DEF Unmount, Quit
  <2>2. {"slash", "watcher", "exit"} = Restarters
    BY DEF Restarters
  <2>3. QED
    BY <1>1, <2>1, <2>2, DriverOwn, WorkerOwn, RestartOwn DEF Next, Watcher
<1>2. CASE tui' # "up"
  BY <1>2 DEF Own, EofLast
<1>3. CASE UNCHANGED vars
  BY <1>3, StillOwn DEF vars
<1>4. QED
  BY <1>1, <1>2, <1>3

\* What a call got is its own, in the state after it read it.
LEMMA ResultStep ==
  ASSUME Typed, Placed, Own, ResultIsOwn, [Next]_vars
  PROVE  ResultIsOwn'
<1>0. sup.events \in Seq(Event) /\ seen \in Seen
  BY DEF Typed, Sup
<1>1. CASE RunReads /\ Next1.kind \in Ends
  <2>1. /\ seen'.asked = lead.id /\ seen'.got = Next1.id
        /\ seen'.wasInterrupted = seen.interrupted /\ lead.at = "wait"
        /\ sup.events # <<>>
    BY <1>0, <1>1 DEF RunReads, Seen, TakeEvent
  <2>2. ASSUME ~seen.interrupted PROVE Next1.id = lead.id
    <3>1. Lone(sup.events, Ends, lead.id)
      BY <2>1, <2>2 DEF Own, Placed, Carrying
    <3>2. QED
      BY <1>0, <1>1, <2>1, <3>1, TailLone DEF Next1
  <2>3. QED
    BY <2>1, <2>2 DEF ResultIsOwn
<1>2. ASSUME seen'.asked = seen.asked, seen'.got = seen.got,
             seen'.wasInterrupted = seen.wasInterrupted
      PROVE  ResultIsOwn'
  BY <1>2 DEF ResultIsOwn
<1>3. CASE RunReads /\ Next1.kind \notin Ends
  BY <1>2, <1>3 DEF RunReads
<1>4. CASE \/ Type \/ Wake \/ DriverTakes \/ StartRun \/ DriverAnswers \/ ReloadReads
           \/ Interrupt \/ SwitchLead \/ StartReload \/ ReloadTimesOut
  BY <1>0, <1>2, <1>4 DEF Type, Wake, DriverTakes, StartRun, DriverAnswers,
       ReloadReads, Interrupt, Cancelled, SwitchLead, StartReload, ReloadTimesOut, Seen
<1>5. ASSUME NEW g \in Workers,
             Pump(g) \/ Loop(g) \/ RunDrains(g) \/ RequestRestart(g) \/ WorkerFails(g)
      PROVE  ResultIsOwn'
  BY <1>0, <1>2, <1>5 DEF Pump, Loop, NextCommand, StopLoop, FinishRun, Leave, RunDrains,
         RequestRestart, WorkerFails, Seen
<1>6. ASSUME NEW r, AskRestart(r) \/ Proceed(r) PROVE ResultIsOwn'
  BY <1>0, <1>2, <1>6 DEF AskRestart, CancelInFlight, Cancelled, Proceed, Shutdown,
         AwaitAck, Kill, Reap, Fork, Seen
<1>7. CASE WatcherClears \/ WatcherPosts \/ SlashDone \/ Unmount \/ Quit \/ UNCHANGED vars
  BY <1>2, <1>7 DEF WatcherClears, WatcherPosts, SlashDone, Unmount, Quit, vars
<1>8. QED
  BY <1>1, <1>3, <1>4, <1>5, <1>6, <1>7 DEF Next, Reader, Watcher

\* Although events carry no id, a call of run or resume gets the result of its
\* own command, unless an earlier call on the same worker was cancelled: through
\* restarts, reloads, crashes and hangs, with any number of runs.
THEOREM ResultsAreOwn == Spec => []ResultIsOwn
<1>1. Init => Own /\ EofLast /\ ResultIsOwn
  <2> SUFFICES ASSUME Init PROVE Own /\ EofLast /\ ResultIsOwn
    OBVIOUS
  <2>1. sup.events = <<>> /\ sup.handle = 1 /\ lead.at = "idle"
    BY DEF Init
  <2>2. \A i : i \notin 1..Len(sup.events)
    BY <2>1, EmptySeq
  <2>3. sup.handle \in Workers => worker[sup.handle] = Spawned
    BY <2>1 DEF Init
  <2>4. Clear
    BY <2>2, <2>3, FreshUnstarted DEF Clear, Clean
  <2>5. QED
    BY <2>1, <2>2, <2>4 DEF Init, Own, EofLast, ResultIsOwn
<1>2. QED
  BY <1>1, OwnStep, ResultStep, HeldAlways, PTL DEF Spec
=============================================================================
