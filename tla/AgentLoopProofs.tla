--------------------------- MODULE AgentLoopProofs ---------------------------
(***************************************************************************)
(* Proofs about AgentLoop, for any number of coroutines that call a        *)
(* session, of texts, messages, turns and troubles.                        *)
(***************************************************************************)
EXTENDS AgentLoop, Integers, FiniteSetTheorems, TLAPS

-----------------------------------------------------------------------------
(* Types                                                                   *)

Stages == {"out", "top", "inbox", "send", "reply", "record", "tools", "pause",
           "late", "lateinbox", "guard", "compact", "summarise", "reset"}

Loop == [at : Stages, by : Callers \cup {None}, kind : {"run", "resume"},
         stateful : BOOLEAN, items : Items, transcript : Items \cup {None},
         turn : 0..MaxTurns, calls : BOOLEAN, driven : BOOLEAN,
         keep : 0..MaxKeepAlive, extra : Nat, guarded : BOOLEAN,
         after : {"return", "continue"}, snapshot : SUBSET Rows]

Caller == [at : {"idle", "waiting", "in"}, kind : {"run", "resume"},
           lock : LockObjects \cup {None}, stateful : BOOLEAN]

\* Messages that arrive while the model wraps up are only looked for below the
\* bound; after an answer there is a turn, and the transcript of a run whose
\* provider keeps none.
Noted == {"late", "lateinbox", "record", "tools", "pause"}

Staged(lp) ==
  /\ lp.at \in {"late", "lateinbox"} => lp.keep < MaxKeepAlive
  /\ lp.at \in {"record", "tools", "pause"} =>
       lp.turn # 0 /\ (lp.stateful \/ lp.transcript \in Items)

\* The shape of the variables the loop works on.
Typed ==
  /\ coord \in [lock : LockObjects \cup {None}, refs : Int]
  /\ caller \in [Callers -> Caller]
  /\ loop \in Loop
  /\ session \in [cursor : {None} \cup Turns, pending : Items]
  /\ known \in [items : Items, stateful : BOOLEAN]
  /\ turns \in 0..MaxTurns
  /\ history \in [rows : SUBSET Rows, active : SUBSET Rows, summed : SUBSET Rows]
  /\ queue \in Seq(Texts)
  /\ stateful \in BOOLEAN
  /\ env \in [unsent : SUBSET (Texts \cup Mail), troubles : Nat]
  /\ Staged(loop)

LEMMA JoinTyped ==
  ASSUME NEW a \in Items, NEW b \in Items
  PROVE  Join(a, b) \in Items
BY DEF Join, Items

LEMMA ItemsTyped ==
  /\ NoItems \in Items
  /\ \A ms \in SUBSET Rows : Message(ms) \in Items
  /\ \A ts \in SUBSET Turns : Outputs(ts) \in Items
  /\ \A t \in Turns, text \in BOOLEAN, calls \in BOOLEAN :
       TurnItems(t, text, calls) \in Items
BY DEF NoItems, Message, Outputs, TurnItems, Items, Rows

LEMMA ReplayTyped == Typed => Replay \in Items
BY ItemsTyped DEF Typed, Replay

LEMMA NoLoopTyped == NoLoop \in Loop /\ Away \in Caller /\ Nothing.items \in Items
BY AgentLoopAssumption, ItemsTyped DEF NoLoop, Loop, Stages, Away, Caller, Nothing

LEMMA ToldTyped ==
  ASSUME NEW i \in Items
  PROVE  Told(i) \subseteq Rows
BY DEF Told, Items, Rows

LEMMA TypedInit == Init => Typed
<1> SUFFICES ASSUME Init PROVE Typed
  OBVIOUS
<1>1. coord \in [lock : LockObjects \cup {None}, refs : Int] /\ caller \in [Callers -> Caller]
  BY NoLoopTyped DEF Init
<1>2. /\ loop \in Loop
      /\ Staged(loop)
  BY NoLoopTyped DEF Init, NoLoop, Staged
<1>3. /\ session \in [cursor : {None} \cup Turns, pending : Items]
      /\ known \in [items : Items, stateful : BOOLEAN]
  BY ItemsTyped DEF Init, Nothing
<1>4. QED
  BY <1>1, <1>2, <1>3, AgentLoopAssumption DEF Init, Typed, Rows

LEMMA ReleaseTyped ==
  ASSUME Typed, NEW c, Release(c)
  PROVE  /\ coord' \in [lock : LockObjects \cup {None}, refs : Int]
         /\ caller' \in [Callers -> Caller]
<1>1. /\ coord \in [lock : LockObjects \cup {None}, refs : Int]
      /\ caller \in [Callers -> Caller]
  BY DEF Typed
<1>2. coord' \in [lock : LockObjects \cup {None}, refs : Int]
  BY <1>1 DEF Release
<1>3. caller' \in [Callers -> Caller]
  <2>1. caller' = [caller EXCEPT ![c] = Away] /\ Away \in Caller
    BY NoLoopTyped DEF Release
  <2>2. QED
    BY <1>1, <2>1
<1>4. QED
  BY <1>2, <1>3

\* A run that is over leaves no loop.
LEMMA GiveUpTyped ==
  ASSUME Typed, NEW taken, Return \/ GiveUp(taken)
  PROVE  /\ coord' \in [lock : LockObjects \cup {None}, refs : Int]
         /\ caller' \in [Callers -> Caller]
         /\ loop' \in Loop /\ loop'.at = "out"
<1>1. loop' = NoLoop /\ Release(loop.by)
  BY DEF GiveUp, Return
<1>2. QED
  BY <1>1, ReleaseTyped, NoLoopTyped DEF NoLoop

LEMMA AddRowsTyped ==
  ASSUME Typed, NEW rs \in SUBSET Rows, AddRows(rs)
  PROVE  history' \in [rows : SUBSET Rows, active : SUBSET Rows, summed : SUBSET Rows]
BY DEF Typed, AddRows

LEMMA InitialItemsTyped ==
  ASSUME Typed, NEW keeps \in BOOLEAN
  PROVE  InitialItems(keeps) \in Items
BY JoinTyped, ReplayTyped DEF Typed, InitialItems, Replays

LEMMA AskedTyped == Typed => Sent \in Items /\ Asked \in Items
<1> SUFFICES ASSUME Typed PROVE Sent \in Items /\ Asked \in Items
  OBVIOUS
<1>1. /\ loop.items \in Items /\ loop.transcript \in Items \cup {None}
      /\ known.items \in Items
  BY DEF Typed, Loop
<1>2. Sent \in Items
  BY <1>1, JoinTyped DEF Sent
<1>3. QED
  BY <1>1, <1>2, JoinTyped DEF Asked, Seen

\* What a step that leaves some of the variables alone has to establish.
LEMMA TypedFrame ==
  ASSUME Typed,
         \/ UNCHANGED entry
         \/ /\ coord' \in [lock : LockObjects \cup {None}, refs : Int]
            /\ caller' \in [Callers -> Caller],
         \/ UNCHANGED loop
         \/ loop' \in Loop /\ Staged(loop')
         \/ loop' \in Loop /\ loop'.at \notin Noted,
         \/ UNCHANGED remote
         \/ /\ session' \in [cursor : {None} \cup Turns, pending : Items]
            /\ known' \in [items : Items, stateful : BOOLEAN]
            /\ turns' \in 0..MaxTurns,
         \/ UNCHANGED history
         \/ history' \in [rows : SUBSET Rows, active : SUBSET Rows, summed : SUBSET Rows],
         UNCHANGED queue \/ queue' \in Seq(Texts),
         UNCHANGED stateful \/ stateful' \in BOOLEAN,
         \/ UNCHANGED env
         \/ env' \in [unsent : SUBSET (Texts \cup Mail), troubles : Nat]
  PROVE  Typed'
<1>1. /\ coord' \in [lock : LockObjects \cup {None}, refs : Int]
      /\ caller' \in [Callers -> Caller]
  BY DEF Typed, entry
<1>2. /\ loop' \in Loop
      /\ Staged(loop')
  BY DEF Typed, Noted, Staged
<1>3. /\ session' \in [cursor : {None} \cup Turns, pending : Items]
      /\ known' \in [items : Items, stateful : BOOLEAN]
      /\ turns' \in 0..MaxTurns
  BY DEF Typed, remote
<1>4. /\ history' \in [rows : SUBSET Rows, active : SUBSET Rows, summed : SUBSET Rows]
      /\ queue' \in Seq(Texts)
      /\ stateful' \in BOOLEAN
      /\ env' \in [unsent : SUBSET (Texts \cup Mail), troubles : Nat]
  BY DEF Typed
<1>5. QED
  BY <1>1, <1>2, <1>3, <1>4 DEF Typed

\* A text or a trouble that a step spends.
LEMMA EnvTyped ==
  ASSUME Typed,
         \/ NoTrouble
         \/ \E f : Trouble(f)
         \/ \E m : Spend(m)
  PROVE  UNCHANGED env \/ env' \in [unsent : SUBSET (Texts \cup Mail), troubles : Nat]
BY DEF Typed, NoTrouble, Trouble, Spend

\* The same loop, elsewhere.
LEMMA GotoTyped ==
  ASSUME Typed, NEW pc \in Stages, Goto(pc)
  PROVE  loop' \in Loop /\ loop'.at = pc
BY DEF Typed, Goto, Loop

LEMMA CompactedTyped ==
  ASSUME Typed, Compacted
  PROVE  /\ loop' \in Loop
         /\ Staged(loop')
         /\ \/ UNCHANGED entry
            \/ /\ coord' \in [lock : LockObjects \cup {None}, refs : Int]
               /\ caller' \in [Callers -> Caller]
<1>1. CASE loop.after = "return"
  BY <1>1, GiveUpTyped DEF Compacted, Staged
<1>2. CASE loop.after # "return"
  <2>1. loop' = [loop EXCEPT !.at = "top", !.driven = TRUE] /\ UNCHANGED entry
    BY <1>2 DEF Compacted
  <2>2. QED
    BY <2>1 DEF Typed, Loop, Stages, Staged
<1>3. QED
  BY <1>1, <1>2

LEMMA RunTyped ==
  ASSUME Typed, RunLoop
  PROVE  Typed'
<1>0. /\ loop \in Loop /\ loop.items \in Items /\ loop.keep \in 0..MaxKeepAlive
      /\ Staged(loop)
      /\ session \in [cursor : {None} \cup Turns, pending : Items]
      /\ known \in [items : Items, stateful : BOOLEAN] /\ turns \in 0..MaxTurns
      /\ history \in [rows : SUBSET Rows, active : SUBSET Rows, summed : SUBSET Rows]
      /\ queue \in Seq(Texts) /\ MaxKeepAlive \in Nat /\ MaxTurns \in Nat
  BY AgentLoopAssumption DEF Typed, Loop
<1>1. CASE DrainQueue
  <2> DEFINE taken == {queue[i] : i \in DOMAIN queue}
  <2>1. PICK stored \in SUBSET taken :
          /\ IF stored = taken THEN NoTrouble ELSE Trouble("persist")
          /\ AddRows(stored)
          /\ loop' = [loop EXCEPT !.items = Join(@, Message(stored)),
                       !.at = IF @ = "top" THEN "inbox" ELSE "lateinbox"]
    BY <1>1 DEF DrainQueue
  <2>2. stored \in SUBSET Rows
    BY <1>0 DEF Rows
  <2>3. Join(loop.items, Message(stored)) \in Items
    BY <1>0, <2>2, JoinTyped, ItemsTyped
  <2>4. /\ loop' \in Loop
        /\ Staged(loop')
    BY <1>0, <1>1, <2>1, <2>3 DEF DrainQueue, Loop, Stages, Staged
  <2>5. queue' \in Seq(Texts)
    BY <1>1 DEF DrainQueue
  <2>6. UNCHANGED <<entry, remote, stateful>>
    BY <1>1 DEF DrainQueue
  <2>7. QED
    BY <2>1, <2>2, <2>4, <2>5, <2>6, AddRowsTyped, EnvTyped, TypedFrame DEF Noted
<1>2. ASSUME NEW ms \in SUBSET Mail, TakeInbox(ms)
      PROVE  /\ Message(ms) \in Items
             /\ history' \in [rows : SUBSET Rows, active : SUBSET Rows, summed : SUBSET Rows]
             /\ UNCHANGED env \/ env' \in [unsent : SUBSET (Texts \cup Mail), troubles : Nat]
  BY <1>2, ItemsTyped, AddRowsTyped, EnvTyped DEF TakeInbox, Rows
<1>3. CASE DrainInbox
  <2>1. PICK ms \in SUBSET Mail :
          /\ TakeInbox(ms)
          /\ IF ms # {} /\ loop.keep >= MaxKeepAlive
             THEN GiveUp(ms)
             ELSE /\ loop' = [loop EXCEPT !.at = "send",
                                !.items = Join(@, Message(ms)),
                                !.keep = IF ms # {} THEN @ + 1 ELSE @]
                  /\ UNCHANGED <<entry, losses>>
    BY <1>3 DEF DrainInbox
  <2>2. UNCHANGED <<remote, queue, stateful>>
    BY <1>3 DEF DrainInbox
  <2>3. CASE ms # {} /\ loop.keep >= MaxKeepAlive
    BY <1>2, <2>1, <2>2, <2>3, GiveUpTyped, TypedFrame DEF Noted
  <2>4. CASE ~(ms # {} /\ loop.keep >= MaxKeepAlive)
    <3>1. /\ loop' = [loop EXCEPT !.at = "send",
                                !.items = Join(loop.items, Message(ms)),
                                !.keep = IF ms # {} THEN loop.keep + 1 ELSE loop.keep]
          /\ UNCHANGED entry
      BY <2>1, <2>4
    <3>2. /\ Join(loop.items, Message(ms)) \in Items
          /\ (IF ms # {} THEN loop.keep + 1 ELSE loop.keep) \in 0..MaxKeepAlive
      BY <1>0, <1>2, <2>1, <2>4, JoinTyped
    <3>3. loop' \in Loop /\ loop'.at = "send"
      BY <1>0, <3>1, <3>2 DEF Loop, Stages
    <3>4. QED
      BY <1>2, <2>1, <2>2, <3>1, <3>3, TypedFrame DEF Noted
  <2>5. QED
    BY <2>3, <2>4
<1>4. CASE LateInbox
  <2>1. PICK ms \in SUBSET Mail :
          TakeInbox(ms) /\ KeepAlive(Join(loop.items, Message(ms)))
    BY <1>4 DEF LateInbox
  <2> DEFINE items == Join(loop.items, Message(ms))
  <2>2. items \in Items
    BY <1>0, <1>2, <2>1, JoinTyped
  <2>3. loop.keep + 1 \in 0..MaxKeepAlive
    BY <1>0, <1>4 DEF LateInbox, At, Staged
  <2>4. loop' \in Loop /\ loop'.at \in {"guard", "compact"}
    <3> HIDE DEF items
    <3>1. CASE items = NoItems
      BY <1>0, <2>1, <3>1 DEF KeepAlive, Loop, Stages, items
    <3>2. CASE items # NoItems
      <4>1. loop' = [loop EXCEPT !.at = "compact", !.after = "continue",
                                 !.items = items, !.keep = loop.keep + 1]
        BY <2>1, <3>2 DEF KeepAlive, items
      <4>2. QED
        BY <1>0, <2>2, <2>3, <4>1 DEF Loop, Stages
    <3>3. QED
      BY <3>1, <3>2
  <2>5. UNCHANGED <<entry, remote, queue, stateful>>
    BY <1>4 DEF LateInbox
  <2>6. QED
    BY <1>2, <2>1, <2>4, <2>5, TypedFrame DEF Noted
<1>5. CASE Send
  <2>1. loop' = [loop EXCEPT !.at = "reply",
                   !.extra = IF loop.driven THEN loop.extra + 1 ELSE loop.extra]
    BY <1>0, <1>5 DEF Send, Loop
  <2>2. (IF loop.driven THEN loop.extra + 1 ELSE loop.extra) \in Nat
    BY <1>0 DEF Loop
  <2>3. loop' \in Loop /\ loop'.at = "reply"
    BY <1>0, <2>1, <2>2 DEF Loop, Stages
  <2>4. QED
    BY <1>5, <2>3, TypedFrame DEF Noted, Send, inputs
<1>6. ASSUME NEW text \in BOOLEAN, NEW calls \in BOOLEAN, Reply(text, calls)
      PROVE  Typed'
  <2> DEFINE t == turns + 1
             made == TurnItems(t, text, calls)
  <2>1. t \in Turns /\ t \in 0..MaxTurns
    BY <1>0, <1>6 DEF Reply, Turns
  <2>2. made \in Items /\ Sent \in Items /\ Asked \in Items
    BY <2>1, ItemsTyped, AskedTyped
  <2>3. Join(Asked, made) \in Items /\ Join(Sent, made) \in Items
    BY <2>2, JoinTyped
  <2>4. /\ turns' = t
        /\ known' = [items |-> Join(Asked, made), stateful |-> loop.stateful]
        /\ session' = [cursor |-> t, pending |-> NoItems]
        /\ loop' = [loop EXCEPT !.at = "record", !.turn = t, !.calls = calls,
                   !.items = NoItems,
                   !.transcript = IF loop.stateful THEN None ELSE Join(Sent, made)]
        /\ UNCHANGED <<entry, history, inputs, stateful, env, losses>>
    BY <1>6 DEF Reply
  <2> HIDE DEF t, made
  <2>5. loop' \in Loop /\ Staged(loop')
    <3>1. /\ loop' \in Loop
          /\ loop'.at = "record" /\ loop'.turn = t
          /\ loop'.stateful = loop.stateful
          /\ loop.stateful \/ loop'.transcript = Join(Sent, made)
      BY <1>0, <2>1, <2>3, <2>4, ItemsTyped DEF Loop, Stages
    <3>2. QED
      BY <2>1, <2>3, <3>1 DEF Staged, Turns
  <2>6. /\ session' \in [cursor : {None} \cup Turns, pending : Items]
        /\ known' \in [items : Items, stateful : BOOLEAN]
        /\ turns' \in 0..MaxTurns
    BY <1>0, <2>1, <2>3, <2>4, ItemsTyped DEF Loop
  <2>7. QED
    BY <2>4, <2>5, <2>6, TypedFrame DEF Noted, inputs
<1>7. CASE ProviderFails \/ Interrupt
  <2>1. GiveUp({}) /\ UNCHANGED <<remote, history, inputs, stateful>>
    BY <1>7 DEF ProviderFails, Interrupt
  <2>2. NoTrouble \/ \E f : Trouble(f)
    BY <1>7 DEF ProviderFails, Interrupt
  <2>3. QED
    BY <2>1, <2>2, EnvTyped, GiveUpTyped, TypedFrame DEF Noted, inputs
<1>8. CASE Record
  <2>1. history' \in [rows : SUBSET Rows, active : SUBSET Rows, summed : SUBSET Rows]
    <3>1. known.items.rows \cap {Said(loop.turn)} \in SUBSET Rows
      BY <1>0 DEF Items
    <3>2. QED
      BY <1>8, <3>1, AddRowsTyped DEF Record
  <2>2. PICK pc \in {"tools", "late", "guard"} :
          Goto(pc) /\ (pc = "late" => loop.keep < MaxKeepAlive)
    BY <1>8 DEF Record
  <2>3. loop' \in Loop /\ Staged(loop')
    BY <1>0, <1>8, <2>2 DEF Record, At, Goto, Loop, Stages, Staged
  <2>4. QED
    BY <1>8, <2>1, <2>3, TypedFrame DEF Noted, Record, inputs
<1>9. ASSUME NEW question \in BOOLEAN, ExecuteTools(question) PROVE Typed'
  <2>1. loop.turn \in Turns
    BY <1>0, <1>9 DEF ExecuteTools, At, Staged, Loop, Turns
  <2>2. {Did(loop.turn)} \in SUBSET Rows /\ Outputs({loop.turn}) \in Items
    BY <2>1, ItemsTyped DEF Rows
  <2>3. /\ loop' = [loop EXCEPT !.at = IF question THEN "pause" ELSE "top",
                !.items = Outputs({loop.turn}), !.calls = FALSE, !.driven = FALSE]
        /\ At("tools")
    BY <1>9 DEF ExecuteTools
  <2>4. loop' \in Loop /\ Staged(loop')
    BY <1>0, <2>2, <2>3 DEF At, Staged, Loop, Stages
  <2>5. QED
    BY <1>9, <2>2, <2>4, AddRowsTyped, TypedFrame DEF Noted, ExecuteTools, inputs
<1>10. CASE Pause
  <2>1. PausePayload \in Items
    BY <1>0, <1>10, JoinTyped DEF Pause, At, PausePayload, Staged
  <2>2. session' \in [cursor : {None} \cup Turns, pending : Items]
    BY <1>0, <1>10, <2>1 DEF Pause
  <2>3. QED
    BY <1>0, <1>10, <2>2, GiveUpTyped, TypedFrame DEF Noted, Pause, inputs
<1>11. ASSUME NEW outstanding \in BOOLEAN, CompletionGuard(outstanding)
       PROVE  Typed'
  <2>1. loop' \in Loop /\ loop'.at \in {"top", "compact"}
    BY <1>0, <1>11 DEF CompletionGuard, Loop, Stages
  <2>2. QED
    BY <1>11, <2>1, TypedFrame DEF Noted, CompletionGuard, inputs
<1>12. CASE SkipCompaction
  <2>1. NoTrouble \/ \E f : Trouble(f)
    BY <1>12 DEF SkipCompaction
  <2>2. QED
    BY <1>12, <2>1, CompactedTyped, EnvTyped, TypedFrame DEF Noted, SkipCompaction, inputs
<1>13. CASE StartCompaction
  <2>1. Replay.rows \in SUBSET Rows
    BY ReplayTyped DEF Items
  <2>2. loop' \in Loop /\ loop'.at = "summarise"
    BY <1>0, <1>13, <2>1 DEF StartCompaction, Loop, Stages
  <2>3. QED
    BY <1>13, <2>2, TypedFrame DEF Noted, StartCompaction, inputs
<1>14. CASE StoreSummary
  <2>1. history' \in [rows : SUBSET Rows, active : SUBSET Rows, summed : SUBSET Rows]
    BY <1>0, <1>14 DEF StoreSummary, Summarise, Loop
  <2>2. QED
    BY <1>14, <2>1, GotoTyped, TypedFrame DEF Noted, StoreSummary, inputs, Stages
<1>15. CASE ResetCursor
  <2>1. /\ session' \in [cursor : {None} \cup Turns, pending : Items]
        /\ known' \in [items : Items, stateful : BOOLEAN]
    BY <1>0, <1>15, ItemsTyped DEF ResetCursor, Nothing
  <2>2. QED
    BY <1>0, <1>15, <2>1, CompactedTyped, TypedFrame DEF Noted, ResetCursor, inputs
<1>16. QED
  BY <1>1, <1>3, <1>4, <1>5, <1>6, <1>7, <1>8, <1>9, <1>10, <1>11, <1>12,
     <1>13, <1>14, <1>15, AgentLoopAssumption DEF RunLoop

\* The coordinator: a lock object exists while some coroutine has called, all
\* of those hold a reference to it, and the one inside runs the loop.
Busy == {c \in Callers : caller[c].at # "idle"}

TakesTurns ==
  /\ coord.refs = Cardinality(Busy)
  /\ coord.lock = None <=> Busy = {}
  /\ \A c \in Callers :
       caller[c].lock = IF c \in Busy THEN coord.lock ELSE None
  /\ Inside = IF At("out") THEN {} ELSE {loop.by}

\* A lock object that is new to everybody exists.
LEMMA NewLock ==
  ASSUME Typed, TakesTurns, coord.lock = None
  PROVE  UnusedLock \in LockObjects /\ UnusedLock # None
<1>1. Cardinality(Callers) \in Nat /\ None \notin Nat
  BY AgentLoopAssumption, FS_CardinalityType
<1>2. 0 \in LockObjects /\ \A l \in LockObjects : l # None
  BY <1>1 DEF LockObjects
<1>3. \A c \in Callers : caller[c].lock = None
  BY DEF TakesTurns
<1>4. \E l \in LockObjects : \A c \in Callers : caller[c].lock # l
  BY <1>2, <1>3
<1>5. QED
  BY <1>2, <1>4 DEF UnusedLock

LEMMA TypedStep == Typed /\ TakesTurns /\ [Next]_vars => Typed'
<1> SUFFICES ASSUME Typed, TakesTurns, [Next]_vars PROVE Typed'
  OBVIOUS
<1>0. /\ coord \in [lock : LockObjects \cup {None}, refs : Int]
      /\ caller \in [Callers -> Caller] /\ stateful \in BOOLEAN
      /\ queue \in Seq(Texts) /\ MaxQueue \in Nat \ {0}
  BY AgentLoopAssumption DEF Typed
<1>1. ASSUME NEW m \in Texts, Enqueue(m) PROVE Typed'
  <2>1. queue' \in Seq(Texts)
    BY <1>0, <1>1 DEF Enqueue, Push
  <2>2. QED
    BY <1>1, <2>1, EnvTyped, TypedFrame DEF Enqueue
<1>2. ASSUME NEW m \in Mail, Deliver(m) PROVE Typed'
  BY <1>2, EnvTyped, TypedFrame DEF Deliver
<1>3. CASE SwapProvider
  BY <1>0, <1>3, EnvTyped, TypedFrame DEF SwapProvider, inputs
<1>4. CASE Crash
  <2>1. /\ coord' \in [lock : LockObjects \cup {None}, refs : Int]
        /\ caller' \in [Callers -> Caller]
        /\ loop' \in Loop /\ loop'.at = "out" /\ queue' \in Seq(Texts)
    BY <1>4, NoLoopTyped DEF Crash, NoLoop
  <2>2. QED
    BY <1>4, <2>1, EnvTyped, TypedFrame DEF Crash, Noted
<1>5. ASSUME NEW c \in Callers, NEW kind \in {"run", "resume"}, Call(c, kind)
      PROVE  Typed'
  <2> DEFINE lock == IF coord.lock = None THEN UnusedLock ELSE coord.lock
  <2>1. lock \in LockObjects \cup {None}
    BY <1>0, NewLock
  <2>2. /\ coord' \in [lock : LockObjects \cup {None}, refs : Int]
        /\ caller' \in [Callers -> Caller]
    BY <1>0, <1>5, <2>1 DEF Call, Caller
  <2>3. QED
    BY <1>5, <2>2, TypedFrame DEF Call, inputs
<1>6. ASSUME NEW c \in Callers, NEW items \in Items,
             NEW transcript \in Items \cup {None}, Enter(c, items, transcript)
      PROVE  /\ caller' \in [Callers -> Caller]
             /\ loop' \in Loop /\ loop'.at = "top"
  <2>1. caller' \in [Callers -> Caller] /\ caller[c] \in Caller
    BY <1>0, <1>6 DEF Enter, Caller
  <2>2. loop' = [NoLoop EXCEPT !.at = "top", !.by = c, !.kind = caller[c].kind,
                            !.stateful = caller[c].stateful,
                            !.items = items, !.transcript = transcript]
    BY <1>6 DEF Enter
  <2>3. loop' \in Loop /\ loop'.at = "top"
    BY <2>1, <2>2, NoLoopTyped DEF Loop, Stages, Caller
  <2>4. QED
    BY <2>1, <2>3
<1>7. ASSUME NEW c \in Callers, NEW m \in Texts, BeginRun(c, m) PROVE Typed'
  <2>1. Message({m}) \in Items /\ {m} \in SUBSET Rows
    BY ItemsTyped DEF Rows
  <2>2. Join(InitialItems(caller[c].stateful), Message({m})) \in Items
    BY <1>0, <2>1, InitialItemsTyped, JoinTyped DEF Caller
  <2>3. /\ caller' \in [Callers -> Caller]
        /\ loop' \in Loop /\ loop'.at = "top" /\ UNCHANGED <<coord, remote, inputs, stateful>>
    BY <1>6, <1>7, <2>2 DEF BeginRun, Enter
  <2>4. QED
    BY <1>0, <1>7, <2>1, <2>3, AddRowsTyped, EnvTyped, TypedFrame
       DEF BeginRun, inputs, Noted
<1>8. ASSUME NEW c \in Callers, RefuseRun(c) PROVE Typed'
  <2>1. NoTrouble \/ \E f : Trouble(f)
    BY <1>8 DEF RefuseRun
  <2>2. QED
    BY <1>8, <2>1, ReleaseTyped, EnvTyped, TypedFrame DEF RefuseRun, inputs
<1>9. ASSUME NEW c \in Callers, BeginResume(c) PROVE Typed'
  <2>1. (IF caller[c].stateful THEN None ELSE Replay) \in Items \cup {None}
    BY ReplayTyped
  <2>2. /\ caller' \in [Callers -> Caller]
        /\ loop' \in Loop /\ loop'.at = "top" /\ UNCHANGED <<coord, remote, inputs, stateful>>
    BY <1>6, <1>9, <2>1, ItemsTyped DEF BeginResume, Enter
  <2>3. QED
    BY <1>0, <1>9, <2>2, TypedFrame DEF BeginResume, inputs, Noted
<1>10. ASSUME NEW c \in Callers, NothingToResume(c) PROVE Typed'
  BY <1>10, ReleaseTyped, TypedFrame DEF NothingToResume, inputs
<1>11. CASE UNCHANGED vars
  BY <1>11, TypedFrame DEF vars, inputs
<1>12. QED
  BY <1>1, <1>2, <1>3, <1>4, <1>5, <1>7, <1>8, <1>9, <1>10, <1>11, RunTyped DEF Next

-----------------------------------------------------------------------------
(* The coordinator                                                         *)

LEMMA BusyFinite == IsFiniteSet(Busy) /\ Cardinality(Busy) \in Nat
BY AgentLoopAssumption, FS_Subset, FS_CardinalityType DEF Busy

\* A step of the loop either keeps the session's turn or ends it.
LEMMA RunKeepsOrEnds ==
  ASSUME Typed, RunLoop
  PROVE  /\ ~At("out")
         /\ \/ UNCHANGED entry /\ loop'.at # "out" /\ loop'.by = loop.by
            \/ loop' = NoLoop /\ Release(loop.by)
<1>0. loop \in Loop
  BY DEF Typed
<1>1. ASSUME Compacted
      PROVE  \/ UNCHANGED entry /\ loop'.at # "out" /\ loop'.by = loop.by
             \/ loop' = NoLoop /\ Release(loop.by)
  BY <1>0, <1>1 DEF Compacted, Return, Loop
<1>2. CASE DrainQueue
  BY <1>0, <1>2 DEF DrainQueue, At, Loop
<1>3. CASE DrainInbox
  BY <1>0, <1>3 DEF DrainInbox, At, Loop, GiveUp
<1>4. CASE Send
  BY <1>0, <1>4 DEF Send, At, Loop
<1>5. CASE ProviderFails \/ Interrupt
  BY <1>5 DEF ProviderFails, Interrupt, At, GiveUp
<1>6. ASSUME NEW text, NEW calls, Reply(text, calls)
      PROVE  ~At("out") /\ UNCHANGED entry /\ loop'.at # "out" /\ loop'.by = loop.by
  BY <1>0, <1>6 DEF Reply, At, Loop
<1>7. CASE Record
  BY <1>0, <1>7 DEF Record, At, Goto, Loop
<1>8. CASE LateInbox
  <2>1. PICK items : KeepAlive(items)
    BY <1>8 DEF LateInbox
  <2>2. loop'.at # "out" /\ loop'.by = loop.by
    BY <1>0, <2>1 DEF KeepAlive, Loop
  <2>3. QED
    BY <1>8, <2>2 DEF LateInbox, At
<1>9. CASE Pause
  BY <1>9 DEF Pause, At, Return
<1>10. ASSUME NEW question, ExecuteTools(question)
       PROVE  ~At("out") /\ UNCHANGED entry /\ loop'.at # "out" /\ loop'.by = loop.by
  BY <1>0, <1>10 DEF ExecuteTools, At, Loop
<1>11. ASSUME NEW outstanding, CompletionGuard(outstanding)
       PROVE  ~At("out") /\ UNCHANGED entry /\ loop'.at # "out" /\ loop'.by = loop.by
  BY <1>0, <1>11 DEF CompletionGuard, At, Loop
<1>12. CASE SkipCompaction \/ ResetCursor
  BY <1>1, <1>12 DEF SkipCompaction, ResetCursor, At
<1>13. CASE StartCompaction \/ StoreSummary
  BY <1>0, <1>13 DEF StartCompaction, StoreSummary, Goto, At, Loop
<1>14. QED
  BY <1>2, <1>3, <1>4, <1>5, <1>6, <1>7, <1>8, <1>9, <1>10, <1>11, <1>12, <1>13
     DEF RunLoop

\* The last one out evicts the lock object, and with it nobody's reference.
LEMMA ReleaseTurns ==
  ASSUME Typed, TakesTurns, NEW c \in Busy, Release(c),
         \/ c \in Inside /\ loop'.at = "out"
         \/ c \notin Inside /\ loop' = loop
  PROVE  TakesTurns'
<1>0. /\ coord \in [lock : LockObjects \cup {None}, refs : Int]
      /\ caller \in [Callers -> Caller] /\ c \in Callers
  BY DEF Typed, Busy
<1>1. caller' = [caller EXCEPT ![c] = Away]
  BY DEF Release
<1>2. Busy' = Busy \ {c} /\ Inside' = Inside \ {c}
  BY <1>0, <1>1 DEF Busy, Inside, Away
<1>3. Cardinality(Busy') = coord.refs - 1
  BY <1>2, BusyFinite, FS_RemoveElement DEF TakesTurns
<1>4. Cardinality(Busy') = 0 <=> Busy' = {}
  BY <1>2, BusyFinite, FS_Subset, FS_EmptySet
<1>5. coord' = IF coord.refs = 1 THEN [lock |-> None, refs |-> 0]
               ELSE [coord EXCEPT !.refs = coord.refs - 1]
  BY DEF Release
<1>6. /\ coord'.refs = Cardinality(Busy')
      /\ coord'.lock = IF Busy' = {} THEN None ELSE coord.lock
  BY <1>0, <1>3, <1>4, <1>5
<1>7. coord.lock # None
  BY DEF TakesTurns
<1>8. \A d \in Callers : caller'[d].lock = IF d \in Busy' THEN coord'.lock ELSE None
  <2>1. \A d \in Callers \ {c} : caller'[d] = caller[d]
    BY <1>0, <1>1
  <2>2. caller'[c].lock = None
    BY <1>0, <1>1 DEF Away
  <2>3. QED
    BY <1>2, <1>6, <2>1, <2>2 DEF TakesTurns
<1>9. Inside' = IF loop'.at = "out" THEN {} ELSE {loop'.by}
  BY <1>2 DEF TakesTurns, At
<1>10. QED
  BY <1>6, <1>7, <1>8, <1>9 DEF TakesTurns, At

\* Who is admitted finds nobody inside, and no loop.
LEMMA AdmittedAlone ==
  ASSUME TakesTurns, NEW c \in Callers, NEW kind, Admitted(c, kind)
  PROVE  Inside = {} /\ At("out")
<1>1. caller[c].at = "waiting" /\ Free(caller[c].lock) /\ c \in Busy
  BY DEF Admitted, Busy
<1>2. \A d \in Inside : caller[d].lock = caller[c].lock
  BY <1>1 DEF TakesTurns, Inside, Busy
<1>3. Inside = {}
  BY <1>1, <1>2 DEF Free
<1>4. QED
  BY <1>3 DEF TakesTurns

LEMMA TurnsStep == Typed /\ TakesTurns /\ [Next]_vars => TakesTurns'
<1> SUFFICES ASSUME Typed, TakesTurns, [Next]_vars PROVE TakesTurns'
  OBVIOUS
<1>0. /\ coord \in [lock : LockObjects \cup {None}, refs : Int]
      /\ caller \in [Callers -> Caller] /\ loop \in Loop
  BY DEF Typed
<1>1. ASSUME UNCHANGED entry, loop'.at = "out" <=> loop.at = "out",
             loop'.by = loop.by
      PROVE  TakesTurns'
  BY <1>1 DEF TakesTurns, entry, Busy, Inside, At
<1>2. CASE RunLoop
  <2>1. ~At("out") /\ Inside = {loop.by}
    BY <1>2, RunKeepsOrEnds DEF TakesTurns
  <2>2. CASE UNCHANGED entry /\ loop'.at # "out" /\ loop'.by = loop.by
    BY <1>1, <2>1, <2>2 DEF At
  <2>3. CASE loop' = NoLoop /\ Release(loop.by)
    <3>1. loop.by \in Inside /\ loop.by \in Busy
      BY <2>1 DEF Inside, Busy
    <3>2. QED
      BY <2>3, <3>1, ReleaseTurns DEF NoLoop
  <2>4. QED
    BY <1>2, <2>2, <2>3, RunKeepsOrEnds
<1>3. ASSUME NEW c \in Callers, NEW kind, Call(c, kind) PROVE TakesTurns'
  <2> DEFINE lock == IF coord.lock = None THEN UnusedLock ELSE coord.lock
  <2>1. lock # None
    BY NewLock
  <2>2. /\ coord' = [lock |-> lock, refs |-> coord.refs + 1]
        /\ caller' = [caller EXCEPT ![c] =
             [at |-> "waiting", kind |-> kind, lock |-> lock, stateful |-> stateful]]
        /\ caller[c].at = "idle" /\ loop' = loop
    BY <1>3 DEF Call
  <2>3. coord.lock # None => lock = coord.lock
    OBVIOUS
  <2> HIDE DEF lock
  <2>4. Busy' = Busy \cup {c} /\ c \notin Busy /\ Inside' = Inside
    BY <1>0, <2>2 DEF Busy, Inside
  <2>5. Cardinality(Busy') = coord.refs + 1
    BY <2>4, BusyFinite, FS_AddElement DEF TakesTurns
  <2>6. \A d \in Callers : caller'[d].lock = IF d \in Busy' THEN lock ELSE None
    <3>1. \A d \in Callers \ {c} : caller'[d] = caller[d]
      BY <1>0, <2>2
    <3>2. caller'[c].lock = lock
      BY <1>0, <2>2
    <3>3. QED
      BY <2>3, <2>4, <3>1, <3>2 DEF TakesTurns
  <2>7. QED
    BY <2>1, <2>2, <2>4, <2>5, <2>6 DEF TakesTurns, At
\* Admission: the lock is free, hence nobody is inside.
<1>4. ASSUME NEW c \in Callers, NEW kind, NEW items, NEW transcript,
             Admitted(c, kind), Enter(c, items, transcript)
      PROVE  TakesTurns'
  <2>1. caller[c].at = "waiting" /\ c \in Busy
    BY <1>4 DEF Admitted, Busy
  <2>3. Inside = {}
    BY <1>4, AdmittedAlone
  <2>4. /\ caller' = [caller EXCEPT ![c].at = "in"] /\ coord' = coord
        /\ loop'.at = "top" /\ loop'.by = c
    BY <1>4 DEF Enter, NoLoop
  <2>5. \A d \in Callers : /\ caller'[d].lock = caller[d].lock
                           /\ caller'[d].at = IF d = c THEN "in" ELSE caller[d].at
    BY <1>0, <2>4 DEF Caller
  <2>6. Busy' = Busy /\ Inside' = {c}
    BY <2>1, <2>3, <2>5 DEF Busy, Inside
  <2>7. QED
    BY <2>4, <2>5, <2>6 DEF TakesTurns, At
<1>5. ASSUME NEW c \in Callers, NEW m, BeginRun(c, m) \/ BeginResume(c)
      PROVE  TakesTurns'
  BY <1>4, <1>5 DEF BeginRun, BeginResume
<1>6. ASSUME NEW c \in Callers, RefuseRun(c) \/ NothingToResume(c)
      PROVE  TakesTurns'
  <2>1. /\ Release(c) /\ loop' = loop /\ c \in Busy /\ c \notin Inside
    BY <1>6 DEF RefuseRun, NothingToResume, Admitted, Busy, Inside
  <2>2. QED
    BY <2>1, ReleaseTurns
<1>7. CASE Crash
  <2>1. /\ coord' = [lock |-> None, refs |-> 0]
        /\ caller' = [c \in Callers |-> Away] /\ loop'.at = "out"
    BY <1>7 DEF Crash, NoLoop
  <2>2. Busy' = {} /\ Inside' = {}
    BY <2>1 DEF Busy, Inside, Away
  <2>3. QED
    BY <2>1, <2>2, FS_EmptySet DEF TakesTurns, At, Away
<1>8. ASSUME NEW m, Enqueue(m) \/ Deliver(m) PROVE TakesTurns'
  BY <1>1, <1>8 DEF Enqueue, Deliver
<1>9. CASE SwapProvider \/ UNCHANGED vars
  BY <1>1, <1>9 DEF SwapProvider, vars
<1>10. QED
  BY <1>2, <1>3, <1>5, <1>6, <1>7, <1>8, <1>9 DEF Next

LEMMA TurnsInit == Init => TakesTurns
<1> SUFFICES ASSUME Init PROVE TakesTurns
  OBVIOUS
<1>1. Busy = {} /\ Inside = {}
  BY DEF Init, Busy, Inside, Away
<1>2. QED
  BY <1>1, FS_EmptySet DEF Init, TakesTurns, At, NoLoop, Away

LEMMA TypedAlways == Spec => [](Typed /\ TakesTurns)
<1>1. QED
  BY TypedInit, TurnsInit, TypedStep, TurnsStep, PTL DEF Spec

\* Two turns of a session never overlap, for any number of callers, whichever of
\* them wait, are refused or are cancelled while others come and go: evicting
\* the lock object with its last reference is safe.
THEOREM TurnsNeverOverlap == Spec => []OneTurnAtATime
<1>1. Typed /\ TakesTurns => OneTurnAtATime
  <2> SUFFICES ASSUME Typed, TakesTurns PROVE OneTurnAtATime
    OBVIOUS
  <2>1. Cardinality(Inside) <= 1
    <3>1. Inside = {} \/ Inside = {loop.by}
      BY DEF TakesTurns
    <3>2. Cardinality({}) = 0 /\ Cardinality({loop.by}) = 1
      BY FS_EmptySet, FS_Singleton
    <3>3. QED
      BY <3>1, <3>2
  <2>2. QED
    BY <2>1 DEF TakesTurns, OneTurnAtATime, Busy
<1>2. QED
  BY <1>1, TypedAlways, PTL

-----------------------------------------------------------------------------
(* The turns that no tool call caused                                      *)

One(b) == IF b THEN 1 ELSE 0

\* The next request will be one that no tool call caused.
Driven ==
  \/ loop.driven /\ loop.at \in {"top", "inbox", "send"}
  \/ loop.after = "continue" /\ loop.at \in {"compact", "summarise", "reset"}

\* Each such request but the first was paid for: by a keep-alive injection or
\* by the one reminder of the completion guard.
Counted == loop.extra + One(Driven) <= 1 + loop.keep + One(loop.guarded)

LEMMA CountedRun ==
  ASSUME Typed, Counted, RunLoop
  PROVE  Counted'
<1> USE DEF One, Driven
<1>0. /\ loop \in Loop /\ MaxKeepAlive \in Nat
      /\ loop.extra + One(Driven) <= 1 + loop.keep + One(loop.guarded)
      /\ loop.extra \in Nat /\ loop.keep \in Nat
  BY AgentLoopAssumption DEF Typed, Counted, Loop
<1>1. ASSUME loop' = NoLoop PROVE Counted'
  BY <1>0, <1>1 DEF Counted, NoLoop
<1>2. ASSUME Compacted, loop.at \in {"compact", "summarise", "reset"}
      PROVE  Counted'
  <2>1. CASE loop.after = "return"
    BY <1>1, <1>2, <2>1 DEF Compacted, Return
  <2>2. CASE loop.after # "return"
    <3>1. /\ loop' = [loop EXCEPT !.at = "top", !.driven = TRUE]
          /\ loop.after = "continue"
      BY <1>0, <1>2, <2>2 DEF Compacted, Loop
    <3>2. /\ loop'.at = "top" /\ loop'.driven /\ loop'.extra = loop.extra
          /\ loop'.keep = loop.keep /\ loop'.guarded = loop.guarded
      BY <1>0, <3>1 DEF Loop
    <3>3. QED
      BY <1>0, <1>2, <3>1, <3>2 DEF Counted
  <2>3. QED
    BY <2>1, <2>2
<1>3. CASE DrainQueue
  <2>1. PICK items :
          /\ loop' = [loop EXCEPT !.items = items,
                        !.at = IF @ = "top" THEN "inbox" ELSE "lateinbox"]
          /\ loop.at \in {"top", "late"}
    BY <1>3 DEF DrainQueue
  <2>2. /\ loop'.at = IF loop.at = "top" THEN "inbox" ELSE "lateinbox"
        /\ loop'.driven = loop.driven /\ loop'.extra = loop.extra
        /\ loop'.keep = loop.keep /\ loop'.guarded = loop.guarded
    BY <1>0, <2>1 DEF Loop
  <2>3. QED
    BY <1>0, <2>1, <2>2 DEF Counted
<1>4. CASE DrainInbox
  <2>1. PICK ms \in SUBSET Mail :
          IF ms # {} /\ loop.keep >= MaxKeepAlive
            THEN GiveUp(ms)
            ELSE /\ loop' = [loop EXCEPT !.at = "send",
                               !.items = Join(@, Message(ms)),
                               !.keep = IF ms # {} THEN @ + 1 ELSE @]
                 /\ UNCHANGED <<entry, losses>>
    BY <1>4 DEF DrainInbox
  <2>2. CASE ms # {} /\ loop.keep >= MaxKeepAlive
    BY <1>1, <2>1, <2>2 DEF GiveUp
  <2>3. CASE ~(ms # {} /\ loop.keep >= MaxKeepAlive)
    <3>1. loop' = [loop EXCEPT !.at = "send",
                     !.items = Join(@, Message(ms)),
                     !.keep = IF ms # {} THEN @ + 1 ELSE @]
      BY <2>1, <2>3
    <3>2. /\ loop'.at = "send" /\ loop'.keep \in {loop.keep, loop.keep + 1}
          /\ loop'.driven = loop.driven /\ loop'.extra = loop.extra
          /\ loop'.guarded = loop.guarded
      BY <1>0, <3>1 DEF Loop
    <3>3. QED
      BY <1>0, <1>4, <3>2 DEF DrainInbox, At, Counted
  <2>4. QED
    BY <2>2, <2>3
<1>5. CASE LateInbox
  <2>1. PICK items : KeepAlive(items)
    BY <1>5 DEF LateInbox
  <2>2. /\ loop'.guarded = loop.guarded /\ loop'.extra = loop.extra
        /\ \/ loop'.at = "guard" /\ loop'.keep = loop.keep
           \/ loop'.at = "compact" /\ loop'.keep = loop.keep + 1
    BY <1>0, <2>1 DEF KeepAlive, Loop
  <2>3. QED
    BY <1>0, <1>5, <2>2 DEF LateInbox, At, Counted
<1>6. CASE Send
  <2>1. /\ loop'.at = "reply" /\ loop'.guarded = loop.guarded
        /\ loop'.extra = loop.extra + One(loop.driven) /\ loop'.keep = loop.keep
    BY <1>0, <1>6 DEF Send, Loop
  <2>2. QED
    BY <1>0, <1>6, <2>1 DEF Send, At, Counted
<1>7. ASSUME NEW text, NEW calls, Reply(text, calls) PROVE Counted'
  <2>1. /\ loop'.at = "record" /\ loop'.guarded = loop.guarded
        /\ loop'.extra = loop.extra /\ loop'.keep = loop.keep
    BY <1>0, <1>7 DEF Reply, Loop
  <2>2. QED
    BY <1>0, <2>1 DEF Counted
<1>8. CASE Record
  <2>1. /\ loop'.at \in {"tools", "late", "guard"} /\ loop'.guarded = loop.guarded
        /\ loop'.extra = loop.extra /\ loop'.keep = loop.keep
    BY <1>0, <1>8 DEF Record, Goto, Loop
  <2>2. QED
    BY <1>0, <2>1 DEF Counted
<1>9. ASSUME NEW question, ExecuteTools(question) PROVE Counted'
  <2>1. /\ loop'.at \in {"pause", "top"} /\ loop'.driven = FALSE
        /\ loop'.guarded = loop.guarded
        /\ loop'.extra = loop.extra /\ loop'.keep = loop.keep
    BY <1>0, <1>9 DEF ExecuteTools, Loop
  <2>2. QED
    BY <1>0, <2>1 DEF Counted
<1>10. ASSUME NEW outstanding, CompletionGuard(outstanding) PROVE Counted'
  <2>1. /\ loop'.extra = loop.extra /\ loop'.keep = loop.keep
        /\ \/ loop'.at = "top" /\ ~loop.guarded /\ loop'.guarded
           \/ loop'.at = "compact" /\ loop'.after = "return"
                /\ loop'.guarded = loop.guarded
    BY <1>0, <1>10 DEF CompletionGuard, Loop
  <2>2. QED
    BY <1>0, <1>10, <2>1 DEF CompletionGuard, At, Counted
<1>11. CASE SkipCompaction \/ ResetCursor
  BY <1>2, <1>11 DEF SkipCompaction, ResetCursor, At
<1>12. CASE StartCompaction \/ StoreSummary
  <2>1. /\ loop'.extra = loop.extra /\ loop'.keep = loop.keep
        /\ loop'.guarded = loop.guarded /\ loop'.after = loop.after
        /\ loop'.at \in {"summarise", "reset"}
    BY <1>0, <1>12 DEF StartCompaction, StoreSummary, Goto, Loop
  <2>2. QED
    BY <1>0, <1>12, <2>1 DEF StartCompaction, StoreSummary, At, Counted
<1>13. QED
  BY <1>1, <1>3, <1>4, <1>5, <1>6, <1>7, <1>8, <1>9, <1>10, <1>11, <1>12
     DEF RunLoop, ProviderFails, Interrupt, GiveUp, Pause, Return

LEMMA CountedStep == Typed /\ Counted /\ [Next]_vars => Counted'
<1> SUFFICES ASSUME Typed, Counted, [Next]_vars PROVE Counted'
  OBVIOUS
<1>1. CASE RunLoop
  BY <1>1, CountedRun
<1>2. ASSUME loop' = loop PROVE Counted'
  BY <1>2 DEF Counted, Driven
<1>3. ASSUME loop'.extra = 0, loop'.keep = 0, loop'.guarded = FALSE PROVE Counted'
  BY <1>3 DEF Counted, One
<1>4. ASSUME NEW c, NEW items, NEW transcript, Enter(c, items, transcript)
      PROVE  Counted'
  BY <1>3, <1>4 DEF Enter, NoLoop
<1>5. CASE Crash
  BY <1>3, <1>5 DEF Crash, NoLoop
<1>6. QED
  BY <1>1, <1>2, <1>4, <1>5
     DEF Next, Enqueue, Deliver, SwapProvider, Call, BeginRun, RefuseRun,
         BeginResume, NothingToResume, vars

\* However much peers and users write, a run makes at most MaxKeepAlive + 2
\* requests that no tool call caused, for every bound and amount of mail.
THEOREM DrivenTurnsBounded == Spec => []ExternalTurnsBounded
<1>1. Init => Counted
  BY DEF Init, NoLoop, Counted, One, Driven
<1>2. Typed /\ Counted => ExternalTurnsBounded
  BY AgentLoopAssumption DEF Typed, Loop, Counted, One, ExternalTurnsBounded
<1>3. QED
  BY <1>1, <1>2, CountedStep, TypedAlways, PTL DEF Spec

-----------------------------------------------------------------------------
(* Calls and their outputs                                                 *)

Answered == {"record", "tools", "pause"}
Wrapping == {"late", "lateinbox", "guard", "compact", "summarise", "reset"}

\* What the loop carries at each stage, and what is saved for the next run: from
\* an answer to a pause nothing is saved, and what is saved next to the cursor
\* of a provider that keeps its state are outputs of calls it knows.
Carried ==
  /\ At("out") => loop = NoLoop
  /\ loop.at \in {"record", "tools", "guard"} => loop.items = NoItems
  /\ loop.at \in {"compact", "summarise", "reset"} /\ loop.after = "return" =>
       loop.items = NoItems
  /\ At("pause") => loop.items = Outputs({loop.turn})
  /\ At("tools") => loop.calls
  /\ loop.at \in Wrapping => loop.items.outputs = {}
  /\ loop.at \in Answered \cup Wrapping =>
       session.pending = NoItems /\ loop.turn # 0
  /\ loop.at \in Answered =>
       /\ session.cursor # None /\ known.stateful = loop.stateful
       /\ loop.calls \/ At("pause") => loop.turn \in known.items.calls
       /\ ~loop.stateful => loop.transcript = known.items
  /\ session.cursor = None => session.pending = NoItems
  /\ session.cursor # None /\ known.stateful =>
       /\ session.pending.rows = {} /\ session.pending.calls = {}
       /\ session.pending.outputs \subseteq known.items.calls

LEMMA NothingJoined ==
  ASSUME NEW i \in Items, NEW ms, Join(i, Message(ms)) = NoItems
  PROVE  i = NoItems /\ ms = {}
<1>1. i = [rows |-> i.rows, calls |-> i.calls, outputs |-> i.outputs]
  BY DEF Items
<1>2. i.rows \cup ms = {} /\ i.calls \cup {} = {} /\ i.outputs \cup {} = {}
  BY DEF Join, Message, NoItems
<1>3. i.rows = {} /\ ms = {} /\ i.calls = {} /\ i.outputs = {}
  BY <1>2
<1>4. QED
  BY <1>1, <1>3 DEF NoItems

\* A step outside the loop, and one that ends it, carry nothing else.
LEMMA CarriedFrame ==
  ASSUME Carried, loop' = loop \/ loop' = NoLoop, UNCHANGED remote
  PROVE  Carried'
BY DEF Carried, remote, NoLoop, At, Answered, Wrapping

\* A step of the loop that neither saves anything nor gets an answer.
LEMMA CarriedMove ==
  ASSUME Typed, Carried, UNCHANGED remote,
         loop'.at \in {"inbox", "send", "reply", "top"} \cup Wrapping,
         loop'.turn = loop.turn,
         loop'.at \in Wrapping =>
           /\ loop.at \in {"record"} \cup Wrapping
           /\ loop'.items.outputs = {}
           /\ loop'.at = "guard" => loop'.items = NoItems
           /\ loop'.at \in {"compact", "summarise", "reset"} /\ loop'.after = "return" =>
                loop'.items = NoItems
  PROVE  Carried'
BY DEF Carried, remote, NoLoop, At, Answered, Wrapping

LEMMA CarriedRun ==
  ASSUME Typed, Carried, RunLoop
  PROVE  Carried'
<1>0. loop \in Loop /\ known \in [items : Items, stateful : BOOLEAN]
      /\ session \in [cursor : {None} \cup Turns, pending : Items]
      /\ turns \in 0..MaxTurns /\ MaxTurns \in Nat
  BY AgentLoopAssumption DEF Typed
<1>1. ASSUME loop' = NoLoop, UNCHANGED remote PROVE Carried'
  BY <1>1, CarriedFrame
\* The messages a step adds have no outputs.
<1>2. \A items, ms : Join(items, Message(ms)).outputs = items.outputs
  BY DEF Join, Message
<1>3. CASE DrainQueue
  <2>1. PICK ms :
          /\ loop' = [loop EXCEPT !.items = Join(@, Message(ms)),
                        !.at = IF @ = "top" THEN "inbox" ELSE "lateinbox"]
          /\ loop.at \in {"top", "late"} /\ UNCHANGED remote
    BY <1>3 DEF DrainQueue
  <2>2. /\ loop'.at = IF loop.at = "top" THEN "inbox" ELSE "lateinbox"
        /\ loop'.turn = loop.turn
        /\ loop'.items = Join(loop.items, Message(ms))
    BY <1>0, <2>1 DEF Loop
  <2>3. loop'.items.outputs = loop.items.outputs
    BY <1>2, <2>2
  <2>4. loop.at = "late" => loop'.items.outputs = {}
    BY <2>3 DEF Carried, Wrapping
  <2>5. QED
    BY <2>1, <2>2, <2>4, CarriedMove DEF Wrapping
<1>4. CASE DrainInbox
  <2>1. /\ UNCHANGED remote /\ loop.at = "inbox"
        /\ \/ loop' = NoLoop
           \/ loop'.at = "send" /\ loop'.turn = loop.turn
    BY <1>0, <1>4 DEF DrainInbox, At, GiveUp, Loop
  <2>2. QED
    BY <1>1, <2>1, CarriedMove DEF Wrapping
<1>5. CASE LateInbox
  <2>1. PICK ms : KeepAlive(Join(loop.items, Message(ms)))
    BY <1>5 DEF LateInbox
  <2> DEFINE items == Join(loop.items, Message(ms))
  <2>2. items.outputs = {}
    BY <1>2, <1>5 DEF LateInbox, At, Carried, Wrapping
  <2> HIDE DEF items
  <2>3. /\ loop'.turn = loop.turn
        /\ \/ loop'.at = "guard" /\ items = NoItems /\ loop'.items = loop.items
           \/ loop'.at = "compact" /\ loop'.after = "continue" /\ loop'.items = items
    BY <1>0, <2>1 DEF KeepAlive, Loop, items
  <2>4. loop'.at = "guard" => loop'.items = NoItems
    BY <1>0, <2>3, NothingJoined DEF Loop, items
  <2>5. QED
    BY <1>5, <2>2, <2>3, <2>4, CarriedMove DEF LateInbox, At, Wrapping
<1>6. CASE Send
  <2>1. loop'.at = "reply" /\ loop'.turn = loop.turn
    BY <1>0, <1>6 DEF Send, Loop
  <2>2. QED
    BY <1>6, <2>1, CarriedMove DEF Send, Wrapping
<1>7. ASSUME NEW text \in BOOLEAN, NEW calls \in BOOLEAN, Reply(text, calls)
      PROVE  Carried'
  <2> DEFINE t == turns + 1
             made == TurnItems(t, text, calls)
  <2>1. /\ loop'.at = "record" /\ loop'.turn = t /\ loop'.calls = calls
        /\ loop'.items = NoItems /\ loop'.stateful = loop.stateful
        /\ ~loop.stateful => loop'.transcript = Join(Sent, made)
    BY <1>0, <1>7 DEF Reply, Loop
  <2>2. /\ known' = [items |-> Join(Asked, made), stateful |-> loop.stateful]
        /\ session' = [cursor |-> t, pending |-> NoItems]
    BY <1>7 DEF Reply
  <2>3. t # None /\ t # 0
    BY <1>0, AgentLoopAssumption
  <2>4. calls => t \in Join(Asked, made).calls
    BY DEF Join, TurnItems
  <2>5. ~loop.stateful => Asked = Sent
    BY DEF Asked, Seen
  <2> HIDE DEF t, made
  <2>6. QED
    BY <2>1, <2>2, <2>3, <2>4, <2>5 DEF Carried, At, Answered, Wrapping, NoItems
<1>8. CASE Record
  <2>1. /\ loop'.turn = loop.turn /\ loop'.items = loop.items
        /\ loop'.calls = loop.calls /\ loop'.stateful = loop.stateful
        /\ loop'.transcript = loop.transcript
        /\ loop'.at = IF loop.calls THEN "tools"
                      ELSE IF loop.keep < MaxKeepAlive THEN "late" ELSE "guard"
    BY <1>0, <1>8 DEF Record, Goto, Loop
  <2>2. loop.at = "record" /\ UNCHANGED remote
    BY <1>8 DEF Record, At
  <2>3. CASE loop.calls
    BY <2>1, <2>2, <2>3 DEF Carried, At, Answered, Wrapping, remote
  <2>4. CASE ~loop.calls
    <3>1. loop'.items = NoItems /\ loop'.items.outputs = {}
      BY <2>1, <2>2 DEF Carried, NoItems
    <3>2. QED
      BY <2>1, <2>2, <2>4, <3>1, CarriedMove DEF Wrapping
  <2>5. QED
    BY <2>3, <2>4
<1>9. ASSUME NEW question \in BOOLEAN, ExecuteTools(question) PROVE Carried'
  <2>1. /\ loop'.turn = loop.turn /\ loop'.items = Outputs({loop.turn})
        /\ loop'.calls = FALSE /\ loop'.stateful = loop.stateful
        /\ loop'.transcript = loop.transcript
        /\ loop'.at = IF question THEN "pause" ELSE "top"
    BY <1>0, <1>9 DEF ExecuteTools, Loop
  <2>2. loop.at = "tools" /\ UNCHANGED remote
    BY <1>9 DEF ExecuteTools, At
  <2>3. QED
    BY <2>1, <2>2 DEF Carried, At, Answered, Wrapping, remote
<1>10. CASE Pause
  <2>1. /\ session' = [session EXCEPT !.pending = PausePayload]
        /\ loop' = NoLoop /\ known' = known /\ loop.at = "pause"
    BY <1>10 DEF Pause, Return, At
  <2>2. session'.cursor = session.cursor /\ session'.pending = PausePayload
    BY <1>0, <2>1
  <2>3. /\ session.cursor # None /\ known.stateful = loop.stateful
        /\ loop.items = Outputs({loop.turn}) /\ loop.turn \in known.items.calls
    BY <2>1 DEF Carried, At, Answered
  <2>4. known.stateful => /\ PausePayload.rows = {} /\ PausePayload.calls = {}
                          /\ PausePayload.outputs = {loop.turn}
    BY <2>3 DEF PausePayload, Outputs
  <2>5. QED
    BY <2>1, <2>2, <2>3, <2>4 DEF Carried, At, Answered, Wrapping, NoLoop
<1>11. ASSUME NEW outstanding, CompletionGuard(outstanding) PROVE Carried'
  <2>1. /\ loop'.turn = loop.turn /\ loop'.items = loop.items
        /\ loop'.at \in {"top", "compact"}
    BY <1>0, <1>11 DEF CompletionGuard, Loop
  <2>2. loop.at = "guard" /\ UNCHANGED remote
    BY <1>11 DEF CompletionGuard, At
  <2>3. QED
    BY <2>1, <2>2, CarriedMove DEF Carried, Wrapping, NoItems
<1>12. CASE SkipCompaction
  <2>1. \/ loop' = NoLoop
        \/ loop'.at = "top" /\ loop'.turn = loop.turn
    BY <1>0, <1>12 DEF SkipCompaction, Compacted, Return, Loop
  <2>2. QED
    BY <1>1, <1>12, <2>1, CarriedMove DEF SkipCompaction, Wrapping
<1>13. CASE StartCompaction \/ StoreSummary
  <2>1. /\ loop'.turn = loop.turn /\ loop'.items = loop.items
        /\ loop'.after = loop.after /\ loop'.at \in {"summarise", "reset"}
        /\ loop.at \in {"compact", "summarise"} /\ UNCHANGED remote
    BY <1>0, <1>13 DEF StartCompaction, StoreSummary, Goto, Loop, At
  <2>2. QED
    BY <2>1, CarriedMove DEF Carried, Wrapping
<1>14. CASE ResetCursor
  <2>1. /\ loop.at = "reset" /\ session.pending = NoItems
        /\ session'.cursor = None /\ session'.pending = session.pending
    BY <1>0, <1>14 DEF ResetCursor, At, Carried, Wrapping
  <2>2. loop' = NoLoop \/ loop'.at = "top"
    BY <1>0, <1>14 DEF ResetCursor, Compacted, Return, Loop
  <2>3. QED
    BY <2>1, <2>2 DEF Carried, At, Answered, Wrapping, NoLoop
<1>15. QED
  BY <1>1, <1>3, <1>4, <1>5, <1>6, <1>7, <1>8, <1>9, <1>10, <1>11, <1>12, <1>13,
     <1>14, AgentLoopAssumption DEF RunLoop, ProviderFails, Interrupt, GiveUp

\* A new run carries what was saved for it; nothing else changes there.
LEMMA CarriedStep == Typed /\ Carried /\ [Next]_vars => Carried'
<1> SUFFICES ASSUME Typed, Carried, [Next]_vars PROVE Carried'
  OBVIOUS
<1>1. CASE RunLoop
  BY <1>1, CarriedRun
<1>2. ASSUME NEW c, NEW items, NEW transcript, Enter(c, items, transcript)
      PROVE  Carried'
  <2>1. loop'.at = "top" /\ UNCHANGED remote
    BY <1>2 DEF Enter, NoLoop
  <2>2. QED
    BY <2>1 DEF Carried, At, Answered, Wrapping, remote
<1>3. ASSUME loop' = loop \/ loop' = NoLoop, UNCHANGED remote PROVE Carried'
  BY <1>3, CarriedFrame
<1>4. QED
  BY <1>1, <1>2, <1>3
     DEF Next, Enqueue, Deliver, SwapProvider, Crash, Call, BeginRun, RefuseRun,
         BeginResume, NothingToResume, vars

LEMMA CarriedAlways == Spec => []Carried
<1>1. Init => Carried
  BY DEF Init, Carried, NoLoop, At, Answered, Wrapping
<1>2. QED
  BY <1>1, CarriedStep, TypedAlways, PTL DEF Spec

\* Calls and outputs pair, but for calls whose outputs a run holds, or held when
\* it was broken off.
Paired ==
  /\ session.cursor # None /\ known.stateful =>
       Mismatched(Join(known.items, session.pending)) \subseteq cut \cup HeldCalls
  /\ session.cursor # None /\ ~known.stateful => Mismatched(session.pending) = {}
  /\ loop.at \in Answered /\ ~loop.stateful =>
       Mismatched(loop.transcript) \subseteq
         IF loop.calls \/ At("pause") THEN {loop.turn} ELSE {}

\* A step that leaves the provider's side alone and drops no output unnoticed.
LEMMA PairedFrame ==
  ASSUME Paired, UNCHANGED remote, loop'.at \notin Answered,
         cut \cup HeldCalls \subseteq (cut \cup HeldCalls)'
  PROVE  Paired'
<1>1. /\ session' = session /\ known' = known
      /\ Mismatched(Join(known.items, session.pending))'
           = Mismatched(Join(known.items, session.pending))
  BY DEF remote, Mismatched, Join
<1>2. QED
  BY <1>1 DEF Paired, Mismatched

\* What a run that ends had in hand is cut off; a run without anything ends.
LEMMA PairedEnd ==
  ASSUME Paired, UNCHANGED remote, loop' = NoLoop,
         \/ cut' = cut \cup HeldCalls
         \/ HeldCalls = {} /\ cut' = cut
  PROVE  Paired'
BY PairedFrame DEF NoLoop, Answered

\* Another stage, with the same outputs.
LEMMA PairedMove ==
  ASSUME Paired, UNCHANGED <<remote, cut>>, loop'.at \notin Answered,
         loop.at \notin {"record", "tools"} \/ (loop.at = "record" /\ ~loop.calls),
         loop'.items.outputs = loop.items.outputs
  PROVE  Paired'
<1>1. HeldCalls' = HeldCalls
  BY DEF HeldCalls, remote, Answered
<1>2. QED
  BY <1>1, PairedFrame

LEMMA PairedRun ==
  ASSUME Typed, Carried, Paired, RunLoop
  PROVE  Paired'
<1>0. /\ loop \in Loop /\ known \in [items : Items, stateful : BOOLEAN]
      /\ session \in [cursor : {None} \cup Turns, pending : Items]
  BY DEF Typed
<1>1. \A items, ms : Join(items, Message(ms)).outputs = items.outputs
  BY DEF Join, Message
<1>2. CASE DrainQueue
  <2>1. PICK ms :
          /\ loop' = [loop EXCEPT !.items = Join(@, Message(ms)),
                        !.at = IF @ = "top" THEN "inbox" ELSE "lateinbox"]
          /\ loop.at \in {"top", "late"} /\ UNCHANGED <<remote, cut>>
    BY <1>2 DEF DrainQueue, losses
  <2>2. /\ loop'.at \in {"inbox", "lateinbox"}
        /\ loop'.items = Join(loop.items, Message(ms))
    BY <1>0, <2>1 DEF Loop
  <2>3. QED
    BY <1>1, <2>1, <2>2, PairedMove DEF Answered
<1>3. CASE DrainInbox
  <2>1. PICK ms \in SUBSET Mail :
          IF ms # {} /\ loop.keep >= MaxKeepAlive
            THEN GiveUp(ms)
            ELSE /\ loop' = [loop EXCEPT !.at = "send",
                               !.items = Join(@, Message(ms)),
                               !.keep = IF ms # {} THEN @ + 1 ELSE @]
                 /\ UNCHANGED <<entry, losses>>
    BY <1>3 DEF DrainInbox
  <2>2. UNCHANGED remote /\ loop.at = "inbox"
    BY <1>3 DEF DrainInbox, At
  <2>3. CASE GiveUp(ms)
    BY <2>2, <2>3, PairedEnd DEF GiveUp
  <2>4. CASE /\ loop' = [loop EXCEPT !.at = "send",
                               !.items = Join(@, Message(ms)),
                               !.keep = IF ms # {} THEN @ + 1 ELSE @]
             /\ UNCHANGED <<entry, losses>>
    <3>1. loop'.at = "send" /\ loop'.items = Join(loop.items, Message(ms))
      BY <1>0, <2>4 DEF Loop
    <3>2. QED
      BY <1>1, <2>2, <2>4, <3>1, PairedMove DEF Answered, losses
  <2>5. QED
    BY <2>1, <2>3, <2>4
<1>4. CASE LateInbox
  <2>1. PICK ms : KeepAlive(Join(loop.items, Message(ms)))
    BY <1>4 DEF LateInbox
  <2>2. /\ loop'.at \in {"guard", "compact"}
        /\ loop'.items \in {loop.items, Join(loop.items, Message(ms))}
    BY <1>0, <2>1 DEF KeepAlive, Loop
  <2>3. loop'.items.outputs = loop.items.outputs
    BY <1>1, <2>2
  <2>4. QED
    BY <1>4, <2>2, <2>3, PairedMove DEF LateInbox, At, Answered, losses
<1>5. CASE Send
  <2>1. loop'.at = "reply" /\ loop'.items = loop.items
    BY <1>0, <1>5 DEF Send, Loop
  <2>2. QED
    BY <1>5, <2>1, PairedMove DEF Send, At, Answered
\* The answer: its calls are the only ones without an output.
<1>6. ASSUME NEW text \in BOOLEAN, NEW calls \in BOOLEAN, Reply(text, calls)
      PROVE  Paired'
  <2> DEFINE t == turns + 1
             made == TurnItems(t, text, calls)
  <2>1. /\ loop'.at = "record" /\ loop'.turn = t /\ loop'.calls = calls
        /\ loop'.items = NoItems /\ loop'.stateful = loop.stateful
        /\ ~loop.stateful => loop'.transcript = Join(Sent, made)
    BY <1>0, <1>6 DEF Reply, Loop
  <2>2. /\ known' = [items |-> Join(Asked, made), stateful |-> loop.stateful]
        /\ session' = [cursor |-> t, pending |-> NoItems]
        /\ Mismatched(Asked) = {} /\ cut' = cut
    BY <1>6 DEF Reply, Refused, losses
  <2>3. Mismatched(Join(Asked, made)) \subseteq IF calls THEN {t} ELSE {}
    BY <2>2 DEF Mismatched, Join, TurnItems
  <2>4. Mismatched(Join(Join(Asked, made), NoItems)) = Mismatched(Join(Asked, made))
    BY DEF Mismatched, Join, NoItems
  <2>5. ~loop.stateful => Asked = Sent
    BY DEF Asked, Seen
  <2> HIDE DEF t, made
  <2>6. HeldCalls' = IF calls THEN {t} ELSE {}
    BY <2>1, <2>2 DEF HeldCalls, NoItems
  <2>7. Mismatched(NoItems) = {}
    BY DEF Mismatched, NoItems
  <2>8. Mismatched(Join(known.items, session.pending))' = Mismatched(Join(Asked, made))
    BY <2>2, <2>4
  <2>9. Mismatched(session.pending)' = {}
    BY <2>2, <2>7
  <2>10. Mismatched(loop.transcript)' = Mismatched(loop'.transcript)
    BY DEF Mismatched
  <2>11. QED
    BY <2>1, <2>2, <2>3, <2>5, <2>6, <2>8, <2>9, <2>10 DEF Paired, At
<1>7. CASE ProviderFails \/ Interrupt
  BY <1>7, PairedEnd DEF ProviderFails, Interrupt, GiveUp
<1>8. CASE Record
  <2>1. /\ loop'.turn = loop.turn /\ loop'.items = loop.items
        /\ loop'.calls = loop.calls /\ loop'.stateful = loop.stateful
        /\ loop'.transcript = loop.transcript
        /\ loop'.at = IF loop.calls THEN "tools"
                      ELSE IF loop.keep < MaxKeepAlive THEN "late" ELSE "guard"
    BY <1>0, <1>8 DEF Record, Goto, Loop
  <2>2. loop.at = "record" /\ session' = session /\ known' = known /\ cut' = cut
    BY <1>8 DEF Record, At, remote, losses
  <2>3. CASE loop.calls
    <3>1. HeldCalls' = HeldCalls
      BY <2>1, <2>2, <2>3 DEF HeldCalls
    <3>2. QED
      BY <2>1, <2>2, <2>3, <3>1 DEF Paired, At, Answered, Mismatched, Join
  <2>4. CASE ~loop.calls
    BY <1>8, <2>1, <2>2, <2>4, PairedMove DEF Answered, Record
  <2>5. QED
    BY <2>3, <2>4
<1>9. ASSUME NEW question \in BOOLEAN, ExecuteTools(question) PROVE Paired'
  <2>1. /\ loop'.turn = loop.turn /\ loop'.items = Outputs({loop.turn})
        /\ loop'.calls = FALSE /\ loop'.stateful = loop.stateful
        /\ loop'.transcript = loop.transcript
        /\ loop'.at = IF question THEN "pause" ELSE "top"
    BY <1>0, <1>9 DEF ExecuteTools, Loop
  <2>2. loop.at = "tools" /\ session' = session /\ known' = known /\ cut' = cut
    BY <1>9 DEF ExecuteTools, At, remote, losses
  <2>3. HeldCalls' = HeldCalls
    <3>1. loop.calls /\ loop.items = NoItems
      BY <2>2 DEF Carried, At
    <3>2. QED
      BY <2>1, <2>2, <3>1 DEF HeldCalls, Outputs, NoItems
  <2>4. loop.calls
    BY <2>2 DEF Carried, At
  <2>5. QED
    BY <2>1, <2>2, <2>3, <2>4 DEF Paired, At, Answered, Mismatched, Join
\* The outputs in hand are saved next to the calls they answer.
<1>10. CASE Pause
  <2>1. /\ session'.cursor = session.cursor /\ session'.pending = PausePayload
        /\ loop' = NoLoop /\ known' = known /\ loop.at = "pause" /\ cut' = cut
    BY <1>0, <1>10 DEF Pause, Return, At, losses
  <2>2. /\ session.cursor # None /\ known.stateful = loop.stateful
        /\ loop.items = Outputs({loop.turn}) /\ loop.turn \in known.items.calls
        /\ session.pending = NoItems
        /\ ~loop.stateful => loop.transcript = known.items
    BY <2>1 DEF Carried, At, Answered
  <2>3. CASE loop.stateful
    <3>1. PausePayload = Outputs({loop.turn})
      BY <2>2, <2>3 DEF PausePayload
    <3>2. Mismatched(Join(known.items, NoItems)) \subseteq cut \cup {loop.turn}
      BY <2>1, <2>2, <2>3 DEF Paired, HeldCalls, Outputs, NoItems
    <3>3. Mismatched(Join(known.items, Outputs({loop.turn}))) \subseteq cut
      BY <2>2, <3>2 DEF Mismatched, Join, Outputs, NoItems
    <3>4. Mismatched(Join(known.items, session.pending))' \subseteq cut
      BY <2>1, <3>1, <3>3
    <3>5. QED
      BY <2>1, <2>2, <2>3, <3>4 DEF Paired, NoLoop, At, Answered
  <2>4. CASE ~loop.stateful
    <3>1. PausePayload = Join(known.items, Outputs({loop.turn}))
      BY <2>2, <2>4 DEF PausePayload
    <3>2. Mismatched(known.items) \subseteq {loop.turn}
      BY <2>1, <2>2, <2>4 DEF Paired, At, Answered
    <3>3. Mismatched(Join(known.items, Outputs({loop.turn}))) = {}
      BY <2>2, <3>2 DEF Mismatched, Join, Outputs
    <3>4. Mismatched(session.pending)' = {}
      BY <2>1, <3>1, <3>3
    <3>5. QED
      BY <2>1, <2>2, <2>4, <3>4 DEF Paired, NoLoop, At, Answered
  <2>5. QED
    BY <2>3, <2>4
<1>11. ASSUME NEW outstanding, CompletionGuard(outstanding) PROVE Paired'
  <2>1. loop'.items = loop.items /\ loop'.at \in {"top", "compact"}
    BY <1>0, <1>11 DEF CompletionGuard, Loop
  <2>2. QED
    BY <1>11, <2>1, PairedMove DEF CompletionGuard, At, Answered, losses
\* After a compaction the run goes on with its messages, or ends with nothing.
<1>12. ASSUME Compacted, loop.at \in {"compact", "summarise", "reset"}
       PROVE  /\ cut' = cut
              /\ \/ loop'.at = "top" /\ loop'.items = loop.items
                 \/ loop' = NoLoop /\ HeldCalls = {}
  <2>1. CASE loop.after = "return"
    <3>1. HeldCalls = {}
      BY <1>12, <2>1 DEF HeldCalls, Carried, NoItems
    <3>2. QED
      BY <1>12, <2>1, <3>1 DEF Compacted, Return, losses
  <2>2. CASE loop.after # "return"
    BY <1>0, <1>12, <2>2 DEF Compacted, Loop, losses
  <2>3. QED
    BY <2>1, <2>2
<1>13. CASE SkipCompaction
  BY <1>12, <1>13, PairedMove, PairedEnd DEF SkipCompaction, At, Answered
<1>14. CASE StartCompaction \/ StoreSummary
  <2>1. /\ loop'.items = loop.items /\ loop'.at \in {"summarise", "reset"}
        /\ loop.at \in {"compact", "summarise"} /\ UNCHANGED <<remote, cut>>
    BY <1>0, <1>14 DEF StartCompaction, StoreSummary, Goto, Loop, At, losses
  <2>2. QED
    BY <2>1, PairedMove DEF Answered
<1>15. CASE ResetCursor
  <2>1. session'.cursor = None
    BY <1>0, <1>15 DEF ResetCursor
  <2>2. loop'.at \in {"top", "out"}
    BY <1>12, <1>15 DEF ResetCursor, At, NoLoop
  <2>3. QED
    BY <2>1, <2>2 DEF Paired, Answered
<1>16. QED
  BY <1>2, <1>3, <1>4, <1>5, <1>6, <1>7, <1>8, <1>9, <1>10, <1>11, <1>13,
     <1>14, <1>15, AgentLoopAssumption DEF RunLoop

LEMMA PairedStep ==
  ASSUME Typed, TakesTurns, Carried, Paired, [Next]_vars
  PROVE  Paired'
<1>1. CASE RunLoop
  BY <1>1, PairedRun
<1>2. ASSUME NEW c \in Callers, NEW kind, NEW items, NEW transcript,
             Admitted(c, kind), Enter(c, items, transcript)
      PROVE  Paired'
  <2>1. loop'.at = "top" /\ UNCHANGED <<remote, cut>>
    BY <1>2 DEF Enter, NoLoop, losses
  <2>2. HeldCalls = {}
    BY <1>2, AdmittedAlone DEF Carried, NoLoop, NoItems, HeldCalls
  <2>3. QED
    BY <2>1, <2>2, PairedFrame DEF Answered
<1>3. CASE Crash
  BY <1>3, PairedEnd DEF Crash
<1>4. ASSUME loop' = loop, UNCHANGED <<remote, cut>> PROVE Paired'
  BY <1>4 DEF Paired, HeldCalls, Answered, At, remote, Mismatched, Join
<1>5. QED
  BY <1>1, <1>2, <1>3, <1>4
     DEF Next, Enqueue, Deliver, SwapProvider, Call, BeginRun, RefuseRun,
         BeginResume, NothingToResume, vars, losses

\* A session at rest has no loop, hence no outputs in hand.
LEMMA AtRest ==
  ASSUME TakesTurns, Carried, Quiet
  PROVE  loop = NoLoop /\ HeldCalls = {}
<1>1. At("out")
  BY DEF TakesTurns, Quiet
<1>2. QED
  BY <1>1 DEF Carried, NoLoop, NoItems, HeldCalls

\* Between runs no tool call waits for an output that is not saved, unless a run
\* was broken off before it could: however runs pause, end, fail or crash, and
\* whatever kind of provider comes next.
THEOREM PausesAreComplete == Spec => []CallsAnswered
<1>1. Init => Paired
  BY DEF Init, NoLoop, Paired, Answered
<1>2. Typed /\ TakesTurns /\ Carried /\ Paired => CallsAnswered
  <2> SUFFICES ASSUME Typed, TakesTurns, Carried, Paired, Quiet, ~Foreign(stateful)
               PROVE  Mismatched(NextSeen) \subseteq cut
    BY DEF CallsAnswered
  <2>1. HeldCalls = {}
    BY AtRest
  <2>2. Mismatched(Replay) = {} /\ Mismatched(NoItems) = {}
    BY DEF Replay, Message, Mismatched, NoItems
  <2>3. Mismatched(Join(session.pending, Replay)) = Mismatched(session.pending)
    BY DEF Replay, Message, Mismatched, Join
  <2>4. InitialItems(stateful) \in {session.pending, Join(session.pending, Replay)}
    BY DEF InitialItems, Replays
  <2>5. CASE session.cursor = None
    <3>1. NextSeen = InitialItems(stateful) /\ session.pending = NoItems
      BY <2>5 DEF NextSeen, Seen, Carried
    <3>2. QED
      BY <2>2, <2>3, <2>4, <3>1
  <2>6. CASE session.cursor # None /\ ~stateful
    <3>1. NextSeen = InitialItems(stateful) /\ ~known.stateful
      BY <2>6 DEF NextSeen, Seen, Foreign, Typed
    <3>2. QED
      BY <2>3, <2>4, <2>6, <3>1 DEF Paired
  <2>7. CASE session.cursor # None /\ stateful
    <3>1. NextSeen = Join(known.items, session.pending) /\ known.stateful
      BY <2>7 DEF NextSeen, Seen, InitialItems, Replays, Foreign, Typed
    <3>2. QED
      BY <2>1, <2>7, <3>1 DEF Paired
  <2>8. QED
    BY <2>5, <2>6, <2>7 DEF Typed
<1>3. QED
  BY <1>1, <1>2, PairedStep, CarriedAlways, TypedAlways, PTL DEF Spec

-----------------------------------------------------------------------------
(* What the model is told                                                  *)

LEMMA ToldOf ==
  /\ \A a, b : Told(Join(a, b)) = Told(a) \cup Told(b)
  /\ \A ms : Told(Message(ms)) = ms
  /\ \A t : Told(Outputs({t})) = {Did(t)}
  /\ Told(NoItems) = {}
  /\ Told(Replay) = Replay.rows
BY DEF Told, Join, Message, Outputs, NoItems, Replay

\* Every stored row is on its way to the model: a replay has them all; a
\* provider that holds the conversation has been told, will be by the saved
\* inputs or the run's items, or a run had the row and did not send it; saved
\* inputs that stand for a conversation, and what a run sends to a provider
\* that holds none, stand for all of it.
Remembered ==
  /\ history.rows \subseteq Replay.rows
  /\ At("summarise") => history.rows \subseteq loop.snapshot
  /\ session.cursor # None /\ known.stateful =>
       history.rows \subseteq Told(known.items) \cup Told(session.pending)
                              \cup Told(loop.items) \cup excused
  /\ HasStructuralContext(session.pending) =>
       history.rows \subseteq Told(session.pending) \cup Told(loop.items) \cup excused
  /\ ~At("out") /\ ~loop.stateful => history.rows \subseteq Told(Sent) \cup excused
  /\ /\ loop.at \in {"top", "inbox", "send"} /\ loop.turn = 0 /\ loop.kind = "run"
     /\ loop.stateful /\ session.cursor = None
     => history.rows \subseteq Told(loop.items) \cup excused
  /\ At("reply") /\ loop.stateful /\ session.cursor = None =>
       history.rows \subseteq Told(loop.items) \cup excused

\* A step of a run that goes on, with new rows among its items.
LEMMA RememberedMove ==
  ASSUME Remembered, UNCHANGED <<session, known>>, NEW ms,
         history'.rows = history.rows \cup ms, Replay'.rows = Replay.rows \cup ms,
         Told(loop'.items) = Told(loop.items) \cup ms,
         loop'.stateful = loop.stateful, loop'.transcript = loop.transcript,
         loop'.turn = loop.turn, loop'.kind = loop.kind, excused' = excused,
         ~At("out"), loop'.at \notin {"reply", "summarise"},
         loop'.at \in {"top", "inbox", "send"} =>
           loop.at \in {"top", "inbox"} \/ loop.turn # 0
  PROVE  Remembered'
<1>1. Told(Sent)' = Told(Sent) \cup ms
  <2>1. \/ Sent = loop.items /\ Sent' = loop'.items
        \/ /\ Sent = Join(loop.transcript, loop.items)
           /\ Sent' = Join(loop.transcript, loop'.items)
    BY DEF Sent
  <2>2. Told(Sent') = Told(Sent) \cup ms
    BY <2>1, ToldOf
  <2>3. QED
    BY <2>2 DEF Told
<1>2. /\ Told(loop.items)' = Told(loop.items) \cup ms
      /\ Told(known.items)' = Told(known.items)
      /\ Told(session.pending)' = Told(session.pending)
  BY DEF Told
<1>3. HasStructuralContext(session.pending)' = HasStructuralContext(session.pending)
  BY DEF HasStructuralContext
<1>4. QED
  BY <1>1, <1>2, <1>3 DEF Remembered, At

\* A run that ends is excused for what it had.
LEMMA RememberedEnd ==
  ASSUME Remembered, UNCHANGED <<session, known>>, NEW ms, loop' = NoLoop,
         history'.rows = history.rows \cup ms, Replay'.rows = Replay.rows \cup ms,
         excused' = excused \cup Told(loop.items) \cup ms
  PROVE  Remembered'
<1>1. /\ Told(loop.items)' = {}
      /\ Told(known.items)' = Told(known.items)
      /\ Told(session.pending)' = Told(session.pending)
  BY ToldOf DEF Told, NoLoop
<1>2. HasStructuralContext(session.pending)' = HasStructuralContext(session.pending)
  BY DEF HasStructuralContext
<1>3. loop'.at = "out"
  BY DEF NoLoop
<1>4. QED
  BY <1>1, <1>2, <1>3 DEF Remembered, At

\* New rows join the active history; the rows of a replay are the whole of it.
LEMMA AddRowsReplay ==
  ASSUME Typed, NEW ms, AddRows(ms)
  PROVE  /\ history'.rows = history.rows \cup ms
         /\ Replay'.rows = Replay.rows \cup ms
BY DEF Typed, AddRows, Replay, Message

LEMMA RememberedRun ==
  ASSUME Typed, Carried, Remembered, RunLoop
  PROVE  Remembered'
<1>0. /\ loop \in Loop /\ known \in [items : Items, stateful : BOOLEAN]
      /\ session \in [cursor : {None} \cup Turns, pending : Items]
      /\ history \in [rows : SUBSET Rows, active : SUBSET Rows, summed : SUBSET Rows]
      /\ Staged(loop)
  BY DEF Typed
<1>1. history' = history => history'.rows = history.rows /\ Replay'.rows = Replay.rows
  BY DEF Replay, Message
<1>2. CASE DrainQueue
  <2>1. PICK ms :
          /\ loop' = [loop EXCEPT !.items = Join(@, Message(ms)),
                        !.at = IF @ = "top" THEN "inbox" ELSE "lateinbox"]
          /\ AddRows(ms)
    BY <1>2 DEF DrainQueue
  <2>2. /\ loop'.at = IF loop.at = "top" THEN "inbox" ELSE "lateinbox"
        /\ loop'.items = Join(loop.items, Message(ms))
        /\ loop'.stateful = loop.stateful /\ loop'.transcript = loop.transcript
        /\ loop'.turn = loop.turn /\ loop'.kind = loop.kind
    BY <1>0, <2>1 DEF Loop
  <2>3. /\ UNCHANGED <<session, known>> /\ excused' = excused
        /\ loop.at \in {"top", "late"}
    BY <1>2 DEF DrainQueue, remote, losses
  <2>4. Told(loop'.items) = Told(loop.items) \cup ms
    BY <2>2, ToldOf
  <2>5. QED
    BY <2>1, <2>2, <2>3, <2>4, AddRowsReplay, RememberedMove DEF At
<1>3. CASE DrainInbox
  <2>1. PICK ms \in SUBSET Mail :
          /\ TakeInbox(ms)
          /\ IF ms # {} /\ loop.keep >= MaxKeepAlive
             THEN GiveUp(ms)
             ELSE /\ loop' = [loop EXCEPT !.at = "send",
                                !.items = Join(@, Message(ms)),
                                !.keep = IF ms # {} THEN @ + 1 ELSE @]
                  /\ UNCHANGED <<entry, losses>>
    BY <1>3 DEF DrainInbox
  <2>2. /\ UNCHANGED <<session, known>> /\ loop.at = "inbox" /\ AddRows(ms)
    BY <1>3, <2>1 DEF DrainInbox, At, remote, TakeInbox
  <2>3. CASE GiveUp(ms)
    BY <2>2, <2>3, AddRowsReplay, RememberedEnd DEF GiveUp
  <2>4. CASE /\ loop' = [loop EXCEPT !.at = "send",
                               !.items = Join(@, Message(ms)),
                               !.keep = IF ms # {} THEN @ + 1 ELSE @]
             /\ UNCHANGED <<entry, losses>>
    <3>1. /\ loop'.at = "send" /\ loop'.items = Join(loop.items, Message(ms))
          /\ loop'.stateful = loop.stateful /\ loop'.transcript = loop.transcript
          /\ loop'.turn = loop.turn /\ loop'.kind = loop.kind
      BY <1>0, <2>4 DEF Loop
    <3>2. Told(loop'.items) = Told(loop.items) \cup ms
      BY <3>1, ToldOf
    <3>3. QED
      BY <2>2, <2>4, <3>1, <3>2, AddRowsReplay, RememberedMove DEF At, losses
  <2>5. QED
    BY <2>1, <2>3, <2>4
<1>4. CASE LateInbox
  <2>1. PICK ms \in SUBSET Mail :
          TakeInbox(ms) /\ KeepAlive(Join(loop.items, Message(ms)))
    BY <1>4 DEF LateInbox
  <2>2. /\ UNCHANGED <<session, known>> /\ loop.at = "lateinbox" /\ AddRows(ms)
        /\ excused' = excused
    BY <1>4, <2>1 DEF LateInbox, At, remote, losses, TakeInbox
  <2>3. /\ loop'.stateful = loop.stateful /\ loop'.transcript = loop.transcript
        /\ loop'.turn = loop.turn /\ loop'.kind = loop.kind
        /\ loop'.at \in {"guard", "compact"}
        /\ IF Join(loop.items, Message(ms)) = NoItems
             THEN loop'.items = loop.items
             ELSE loop'.items = Join(loop.items, Message(ms))
    BY <1>0, <2>1 DEF KeepAlive, Loop
  <2>4. Told(loop'.items) = Told(loop.items) \cup ms
    BY <1>0, <2>3, ToldOf, NothingJoined DEF Loop
  <2>5. QED
    BY <2>2, <2>3, <2>4, AddRowsReplay, RememberedMove DEF At
\* Sent without a replay where one was due: excused; else all is among the items.
<1>5. CASE Send
  <2>1. /\ loop'.at = "reply" /\ loop'.items = loop.items
        /\ loop'.stateful = loop.stateful /\ loop'.transcript = loop.transcript
    BY <1>0, <1>5 DEF Send, Loop
  <2>2. /\ UNCHANGED <<session, known, history>> /\ loop.at = "send"
        /\ excused' = excused \cup Unreplayed
    BY <1>5 DEF Send, At, remote
  <2>3. /\ Told(loop.items)' = Told(loop.items) /\ Told(Sent)' = Told(Sent)
        /\ Told(known.items)' = Told(known.items)
        /\ Told(session.pending)' = Told(session.pending)
        /\ HasStructuralContext(session.pending)' = HasStructuralContext(session.pending)
    BY <2>1, <2>2 DEF Told, Sent, Join, HasStructuralContext
  <2>4. loop.stateful /\ session.cursor = None =>
          history.rows \subseteq Told(loop.items) \cup excused'
    <3>1. CASE loop.turn = 0 /\ loop.kind = "run"
      BY <2>2, <3>1 DEF Remembered
    <3>2. CASE ~(loop.turn = 0 /\ loop.kind = "run")
      <4>1. loop.turn > 0 \/ loop.kind = "resume"
        BY <1>0, <3>2 DEF Loop
      <4>2. loop.stateful /\ session.cursor = None => Unreplayed = Replay.rows
        BY <4>1 DEF Unreplayed
      <4>3. QED
        BY <2>2, <4>2 DEF Remembered
    <3>3. QED
      BY <3>1, <3>2
  <2>5. Replay'.rows = Replay.rows /\ history'.rows = history.rows
    BY <1>1, <2>2
  <2>6. QED
    BY <2>1, <2>2, <2>3, <2>4, <2>5 DEF Remembered, At
\* Nothing is lost with the saved inputs: an answer shows that the request had
\* an output for each call, theirs included.
<1>6. ASSUME NEW text \in BOOLEAN, NEW calls \in BOOLEAN, Reply(text, calls)
      PROVE  Remembered'
  <2> DEFINE t == turns + 1
             made == TurnItems(t, text, calls)
  <2>1. /\ loop'.at = "record" /\ loop'.items = NoItems
        /\ loop'.stateful = loop.stateful
        /\ loop.stateful \/ loop'.transcript = Join(Sent, made)
    BY <1>0, <1>6 DEF Reply, Loop
  <2>2. /\ known' = [items |-> Join(Asked, made), stateful |-> loop.stateful]
        /\ session' = [cursor |-> t, pending |-> NoItems]
        /\ ~Refused /\ history' = history /\ excused' = excused /\ loop.at = "reply"
    BY <1>6 DEF Reply, losses, At
  <2> HIDE DEF t, made
  <2>3. ASSUME loop.stateful, session.cursor = None
        PROVE  history.rows \subseteq Told(Asked) \cup excused
    <3>1. Asked = loop.items
      BY <2>3 DEF Asked, Seen, Sent
    <3>2. QED
      BY <2>2, <2>3, <3>1 DEF Remembered, At
  <2>4. ASSUME loop.stateful, session.cursor # None
        PROVE  history.rows \subseteq Told(Asked) \cup excused
    <3>1. Asked = Join(known.items, loop.items) /\ known.stateful
      BY <1>0, <2>2, <2>4 DEF Asked, Seen, Sent, Refused, Foreign
    <3>2. Told(session.pending) \subseteq Told(Asked)
      <4>1. /\ session.pending.rows = {}
            /\ session.pending.outputs \subseteq known.items.calls
        BY <2>4, <3>1 DEF Carried
      <4>2. Asked.calls \subseteq Asked.outputs
        BY <2>2 DEF Refused, Mismatched
      <4>3. known.items.calls \subseteq Asked.calls
        BY <3>1 DEF Join
      <4>4. QED
        BY <4>1, <4>2, <4>3 DEF Told
    <3>3. Told(Asked) = Told(known.items) \cup Told(loop.items)
      BY <3>1, ToldOf
    <3>4. QED
      BY <2>4, <3>1, <3>2, <3>3 DEF Remembered
  <2>5. Told(known.items)' = Told(Asked) \cup Told(made)
    <3>1. Told(known'.items) = Told(Asked) \cup Told(made)
      BY <2>2, ToldOf
    <3>2. QED
      BY <3>1 DEF Told
  <2>6. ASSUME ~loop.stateful
        PROVE  history.rows \subseteq Told(Sent)' \cup excused
    <3>1. history.rows \subseteq Told(Sent) \cup excused
      BY <2>2, <2>6 DEF Remembered, At
    <3>2. Join(Sent, made) # None
      <4>1. Join(Sent, made) \in Items
        BY <1>6, <2>1, <2>6, TypedStep, AskedTyped, JoinTyped, ItemsTyped
           DEF Reply, Turns, Typed, t, made
      <4>2. QED
        BY <4>1, NoneIsNoItems
    <3>3. Sent' = Join(Join(Sent, made), NoItems)
      BY <2>1, <2>6, <3>2 DEF Sent
    <3>4. Told(Sent') = Told(Sent) \cup Told(made)
      BY <3>3, ToldOf
    <3>5. QED
      BY <3>1, <3>4 DEF Told
  <2>7. ~HasStructuralContext(session.pending)'
    BY <2>2 DEF HasStructuralContext, NoItems
  <2>8. QED
    BY <1>1, <2>1, <2>2, <2>3, <2>4, <2>5, <2>6, <2>7 DEF Remembered, At
<1>7. CASE ProviderFails \/ Interrupt
  <2>1. /\ UNCHANGED <<session, known, history>> /\ loop' = NoLoop
        /\ excused' = excused \cup Told(loop.items) \cup {}
    BY <1>7 DEF ProviderFails, Interrupt, GiveUp, remote
  <2>2. QED
    BY <1>1, <2>1, RememberedEnd
<1>8. CASE Record
  <2> DEFINE ms == known.items.rows \cap {Said(loop.turn)}
  <2>1. /\ loop'.items = loop.items /\ loop'.stateful = loop.stateful
        /\ loop'.transcript = loop.transcript
        /\ loop'.at \in {"tools", "late", "guard"}
    BY <1>0, <1>8 DEF Record, Goto, Loop
  <2>2. /\ UNCHANGED <<session, known>> /\ loop.at = "record" /\ AddRows(ms)
        /\ excused' = excused
    BY <1>8 DEF Record, At, remote, losses
  <2>3. ms \subseteq Told(known.items)
    BY DEF Told
  <2> HIDE DEF ms
  <2>4. /\ session.pending = NoItems
        /\ ~loop.stateful => loop.transcript = known.items /\ loop.transcript # None
    BY <1>0, <2>2, NoneIsNoItems DEF Carried, Answered, Staged
  <2>5. ~loop.stateful => ms \subseteq Told(Sent)
    BY <2>3, <2>4, ToldOf DEF Sent
  <2>6. /\ Told(loop.items)' = Told(loop.items) /\ Told(Sent)' = Told(Sent)
        /\ Told(known.items)' = Told(known.items)
        /\ Told(session.pending)' = Told(session.pending)
    BY <2>1, <2>2 DEF Told, Sent, Join
  <2>7. ~HasStructuralContext(session.pending)'
    BY <2>2, <2>4 DEF HasStructuralContext, NoItems
  <2>8. QED
    BY <2>1, <2>2, <2>3, <2>5, <2>6, <2>7, AddRowsReplay DEF Remembered, At
<1>9. ASSUME NEW question \in BOOLEAN, ExecuteTools(question) PROVE Remembered'
  <2>1. /\ loop'.turn = loop.turn /\ loop'.items = Outputs({loop.turn})
        /\ loop'.stateful = loop.stateful /\ loop'.transcript = loop.transcript
        /\ loop'.kind = loop.kind /\ loop'.at \in {"pause", "top"}
    BY <1>0, <1>9 DEF ExecuteTools, Loop
  <2>2. /\ loop.at = "tools" /\ UNCHANGED <<session, known>>
        /\ AddRows({Did(loop.turn)}) /\ excused' = excused
    BY <1>9 DEF ExecuteTools, At, remote, losses
  <2>3. loop.items = NoItems /\ loop.turn # 0
    BY <2>2 DEF Carried, Answered
  <2>4. Told(loop'.items) = Told(loop.items) \cup {Did(loop.turn)}
    BY <2>1, <2>3, ToldOf
  <2>5. QED
    BY <2>1, <2>2, <2>3, <2>4, AddRowsReplay, RememberedMove DEF At
\* The saved inputs stand for what the run would have sent next.
<1>10. CASE Pause
  <2>1. /\ session'.cursor = session.cursor /\ session'.pending = PausePayload
        /\ loop' = NoLoop /\ known' = known /\ loop.at = "pause"
        /\ history' = history /\ excused' = excused
    BY <1>0, <1>10 DEF Pause, Return, At, losses
  <2>2. /\ known.stateful = loop.stateful /\ session.pending = NoItems
        /\ loop.items = Outputs({loop.turn})
        /\ ~loop.stateful => loop.transcript # None
    BY <1>0, <2>1, NoneIsNoItems DEF Carried, Answered, At, Staged
  <2>3. PausePayload = Sent
    BY <2>2 DEF PausePayload, Sent
  <2>4. /\ Told(session.pending)' = Told(Sent)
        /\ Told(known.items)' = Told(known.items)
        /\ HasStructuralContext(session.pending)' = HasStructuralContext(Sent)
    BY <2>1, <2>3 DEF Told, HasStructuralContext
  <2>5. CASE loop.stateful
    <3>1. Sent = loop.items /\ ~HasStructuralContext(Sent)
      BY <2>2, <2>5 DEF Sent, HasStructuralContext, Outputs
    <3>2. Told(session.pending) = {}
      BY <2>2, ToldOf
    <3>3. QED
      BY <1>1, <2>1, <2>2, <2>4, <2>5, <3>1, <3>2 DEF Remembered, At, NoLoop
  <2>6. CASE ~loop.stateful
    BY <1>1, <2>1, <2>2, <2>4, <2>6 DEF Remembered, At, NoLoop
  <2>7. QED
    BY <2>5, <2>6
<1>11. ASSUME NEW outstanding, CompletionGuard(outstanding) PROVE Remembered'
  <2>1. /\ loop'.turn = loop.turn /\ loop'.items = loop.items
        /\ loop'.stateful = loop.stateful /\ loop'.transcript = loop.transcript
        /\ loop'.kind = loop.kind /\ loop'.at \in {"top", "compact"}
    BY <1>0, <1>11 DEF CompletionGuard, Loop
  <2>2. /\ loop.at = "guard" /\ UNCHANGED <<session, known, history>>
        /\ excused' = excused
    BY <1>11 DEF CompletionGuard, At, remote, losses
  <2>3. loop.turn # 0
    BY <2>2 DEF Carried, Wrapping
  <2>4. /\ history'.rows = history.rows \cup {} /\ Replay'.rows = Replay.rows \cup {}
        /\ Told(loop'.items) = Told(loop.items) \cup {}
    BY <1>1, <2>1, <2>2
  <2>5. QED
    BY <2>1, <2>2, <2>3, <2>4, RememberedMove DEF At
\* After a compaction the run goes on with its messages, or ends with nothing.
<1>12. ASSUME Compacted, loop.at \in {"compact", "summarise", "reset"}
       PROVE  /\ excused' = excused /\ loop.turn # 0
              /\ session.pending = NoItems
              /\ \/ /\ loop'.at = "top" /\ loop'.items = loop.items
                    /\ loop'.turn = loop.turn /\ loop'.kind = loop.kind
                    /\ loop'.stateful = loop.stateful
                    /\ loop'.transcript = loop.transcript
                 \/ loop' = NoLoop /\ loop.items = NoItems
  <2>1. loop.turn # 0 /\ session.pending = NoItems
    BY <1>12 DEF Carried, Wrapping
  <2>2. CASE loop.after = "return"
    BY <1>12, <2>1, <2>2 DEF Compacted, Return, losses, Carried
  <2>3. CASE loop.after # "return"
    BY <1>0, <1>12, <2>1, <2>3 DEF Compacted, Loop, losses
  <2>4. QED
    BY <2>2, <2>3
<1>13. CASE SkipCompaction
  <2>1. /\ UNCHANGED <<session, known, history>> /\ Compacted
        /\ loop.at \in {"compact", "summarise", "reset"}
    BY <1>13 DEF SkipCompaction, At, remote
  <2>2. /\ history'.rows = history.rows \cup {} /\ Replay'.rows = Replay.rows \cup {}
    BY <1>1, <2>1
  <2>3. CASE loop' = NoLoop /\ loop.items = NoItems
    <3>1. excused' = excused \cup Told(loop.items) \cup {}
      BY <1>12, <2>1, <2>3, ToldOf
    <3>2. QED
      BY <2>1, <2>2, <2>3, <3>1, RememberedEnd
  <2>4. CASE loop'.at = "top" /\ loop'.items = loop.items
    <3>1. Told(loop'.items) = Told(loop.items) \cup {}
      BY <2>4
    <3>2. loop' # NoLoop
      BY <2>4 DEF NoLoop
    <3>3. QED
      BY <1>12, <2>1, <2>2, <2>4, <3>1, <3>2, RememberedMove DEF At
  <2>5. QED
    BY <1>12, <2>1, <2>3, <2>4
<1>14. CASE StartCompaction
  <2>1. /\ loop'.items = loop.items /\ loop'.at = "summarise"
        /\ loop'.stateful = loop.stateful /\ loop'.transcript = loop.transcript
        /\ loop'.snapshot = Replay.rows
    BY <1>0, <1>14 DEF StartCompaction, Loop
  <2>2. /\ UNCHANGED <<session, known, history>> /\ excused' = excused
        /\ loop.at = "compact"
    BY <1>14 DEF StartCompaction, At, remote, losses
  <2>3. /\ Told(loop.items)' = Told(loop.items) /\ Told(Sent)' = Told(Sent)
        /\ Told(known.items)' = Told(known.items)
        /\ Told(session.pending)' = Told(session.pending)
        /\ HasStructuralContext(session.pending)' = HasStructuralContext(session.pending)
    BY <2>1, <2>2 DEF Told, Sent, Join, HasStructuralContext
  <2>4. QED
    BY <1>1, <2>1, <2>2, <2>3 DEF Remembered, At
\* The summary covers what it was written from, which is still all there is.
<1>15. CASE StoreSummary
  <2>1. /\ loop'.items = loop.items /\ loop'.at = "reset"
        /\ loop'.stateful = loop.stateful /\ loop'.transcript = loop.transcript
    BY <1>0, <1>15 DEF StoreSummary, Goto, Loop
  <2>2. /\ UNCHANGED <<session, known>> /\ excused' = excused
        /\ loop.at = "summarise"
        /\ history' = [history EXCEPT !.active = {}, !.summed = loop.snapshot]
    BY <1>15 DEF StoreSummary, Summarise, At, remote, losses
  <2>3. history'.rows = history.rows /\ Replay'.rows = loop.snapshot
    BY <1>0, <2>2 DEF Replay, Message
  <2>4. /\ Told(loop.items)' = Told(loop.items) /\ Told(Sent)' = Told(Sent)
        /\ Told(known.items)' = Told(known.items)
        /\ Told(session.pending)' = Told(session.pending)
        /\ HasStructuralContext(session.pending)' = HasStructuralContext(session.pending)
    BY <2>1, <2>2 DEF Told, Sent, Join, HasStructuralContext
  <2>5. QED
    BY <2>1, <2>2, <2>3, <2>4 DEF Remembered, At
<1>16. CASE ResetCursor
  <2>1. /\ session'.cursor = None /\ session'.pending = session.pending
        /\ history' = history /\ loop.at = "reset" /\ Compacted
    BY <1>0, <1>16 DEF ResetCursor, At
  <2>2. ~HasStructuralContext(session.pending)'
    BY <1>12, <2>1 DEF HasStructuralContext, NoItems
  <2>3. loop'.at # "out" => Told(Sent)' = Told(Sent)
    BY <1>12, <2>1 DEF Told, Sent, Join, NoLoop
  <2>4. QED
    BY <1>1, <1>12, <2>1, <2>2, <2>3 DEF Remembered, At, NoLoop
<1>17. QED
  BY <1>2, <1>3, <1>4, <1>5, <1>6, <1>7, <1>8, <1>9, <1>10, <1>11, <1>13,
     <1>14, <1>15, <1>16, AgentLoopAssumption DEF RunLoop

LEMMA RememberedStep ==
  ASSUME Typed, TakesTurns, Carried, Remembered, [Next]_vars
  PROVE  Remembered'
<1>0. loop = NoLoop => loop.at = "out" /\ Told(loop.items) = {}
  BY ToldOf DEF NoLoop
<1>1. CASE RunLoop
  BY <1>1, RememberedRun
\* A run starts with the conversation, unless the provider holds it.
<1>2. ASSUME NEW c \in Callers, NEW items, NEW transcript, NEW kind, NEW ms,
             Admitted(c, kind), Enter(c, items, transcript),
             history'.rows = history.rows \cup ms, Replay'.rows = Replay.rows \cup ms,
             ms \subseteq Told(items),
             ~caller[c].stateful =>
               history'.rows \subseteq
                 Told(items) \cup (IF transcript = None THEN {} ELSE Told(transcript))
                             \cup excused,
             \/ kind = "resume"
             \/ caller[c].stateful /\ session.cursor = None =>
                  history'.rows \subseteq Told(items)
      PROVE  Remembered'
  <2>1. loop = NoLoop
    BY <1>2, AdmittedAlone DEF Carried
  <2>2. /\ loop'.at = "top" /\ loop'.kind = kind /\ loop'.items = items
        /\ loop'.transcript = transcript /\ loop'.stateful = caller[c].stateful
        /\ session' = session /\ known' = known /\ excused' = excused
    BY <1>2 DEF Enter, Admitted, NoLoop, remote, losses
  <2>3. /\ Told(known.items)' = Told(known.items)
        /\ Told(session.pending)' = Told(session.pending)
        /\ HasStructuralContext(session.pending)' = HasStructuralContext(session.pending)
        /\ Told(loop.items)' = Told(items)
    BY <2>2 DEF Told, HasStructuralContext
  <2>4. ~caller[c].stateful =>
          Told(Sent)' = Told(items) \cup (IF transcript = None THEN {} ELSE Told(transcript))
    <3>1. ~caller[c].stateful =>
            Sent' = IF transcript = None THEN items ELSE Join(transcript, items)
      BY <2>2 DEF Sent
    <3>2. ~caller[c].stateful =>
            Told(Sent') = Told(items) \cup (IF transcript = None THEN {} ELSE Told(transcript))
      BY <3>1, ToldOf
    <3>3. QED
      BY <3>2 DEF Told
  <2>5. QED
    BY <1>0, <1>2, <2>1, <2>2, <2>3, <2>4 DEF Remembered, At
<1>3. ASSUME NEW c \in Callers, NEW m \in Texts, BeginRun(c, m) PROVE Remembered'
  <2> DEFINE initial == InitialItems(caller[c].stateful)
             items == Join(initial, Message({m}))
  <2>1. /\ history'.rows = history.rows \cup {m}
        /\ Replay'.rows = Replay.rows \cup {m}
    BY <1>3, AddRowsReplay DEF BeginRun
  <2>2. Told(items) = Told(initial) \cup {m}
    BY ToldOf
  <2>3. loop = NoLoop
    BY <1>3, AdmittedAlone DEF BeginRun, Carried
  <2>4. Told(Join(session.pending, Replay)) = Told(session.pending) \cup Replay.rows
    BY ToldOf
  <2>5. \/ ~caller[c].stateful
        \/ caller[c].stateful /\ session.cursor = None
        => history.rows \subseteq Told(initial) \cup excused
    BY <1>0, <2>3, <2>4 DEF InitialItems, Replays, Remembered
  <2>6. caller[c].stateful /\ session.cursor = None =>
          history.rows \subseteq Told(initial)
    BY <2>4 DEF InitialItems, Replays, Remembered
  <2> HIDE DEF initial
  <2>7. Admitted(c, "run") /\ Enter(c, items, None)
    BY <1>3 DEF BeginRun, initial
  <2> HIDE DEF items
  <2>8. QED
    BY <1>2, <2>1, <2>2, <2>5, <2>6, <2>7
<1>4. ASSUME NEW c \in Callers, BeginResume(c) PROVE Remembered'
  <2> DEFINE transcript == IF caller[c].stateful THEN None ELSE Replay
  <2>1. Admitted(c, "resume") /\ Enter(c, NoItems, transcript)
    BY <1>4 DEF BeginResume
  <2>2. history'.rows = history.rows \cup {} /\ Replay'.rows = Replay.rows \cup {}
    BY <1>4 DEF BeginResume, Replay, Message
  <2>3. Replay # None /\ Told(Replay) = Replay.rows
    BY ReplayTyped, NoneIsNoItems, ToldOf
  <2>4. ~caller[c].stateful =>
          history'.rows \subseteq
            Told(NoItems) \cup (IF transcript = None THEN {} ELSE Told(transcript))
                          \cup excused
    BY <2>2, <2>3 DEF Remembered
  <2> HIDE DEF transcript
  <2>5. QED
    BY <1>2, <2>1, <2>2, <2>4, ToldOf
<1>5. CASE Crash
  <2>1. /\ UNCHANGED <<session, known>> /\ loop' = NoLoop
        /\ excused' = excused \cup Told(loop.items) \cup {}
        /\ history'.rows = history.rows \cup {} /\ Replay'.rows = Replay.rows \cup {}
    BY <1>5 DEF Crash, remote, Replay, Message
  <2>2. QED
    BY <2>1, RememberedEnd
<1>6. ASSUME loop' = loop, UNCHANGED <<remote, history, losses>> PROVE Remembered'
  <2>1. /\ Told(loop.items)' = Told(loop.items) /\ Told(Sent)' = Told(Sent)
        /\ Told(known.items)' = Told(known.items)
        /\ Told(session.pending)' = Told(session.pending)
        /\ HasStructuralContext(session.pending)' = HasStructuralContext(session.pending)
        /\ Replay' = Replay
    BY <1>6 DEF Told, Sent, Join, HasStructuralContext, Replay, Message, remote
  <2>2. QED
    BY <1>6, <2>1 DEF Remembered, At, remote, losses
<1>7. QED
  BY <1>1, <1>3, <1>4, <1>5, <1>6
     DEF Next, Enqueue, Deliver, SwapProvider, Call, RefuseRun, NothingToResume,
         vars

\* Between runs, a message that replays the history carries all of it, whatever
\* was compacted, interrupted, killed or swapped before; one that relies on the
\* cursor or on saved inputs lacks only what a broken-off or bounded run had
\* taken and not sent, and what a request without a replay had left out.
THEOREM NothingIsForgotten == Spec => []NothingForgotten
<1>1. Init => Remembered
  BY DEF Init, Remembered, At, NoLoop, HasStructuralContext, NoItems
<1>2. Typed /\ TakesTurns /\ Carried /\ Remembered => NothingForgotten
  <2> SUFFICES ASSUME Typed, TakesTurns, Carried, Remembered, Quiet,
                      ~(stateful /\ Foreign(TRUE))
               PROVE  history.rows \subseteq Told(NextSeen)
                        \cup (IF Replays(stateful) THEN {} ELSE excused)
    BY DEF NothingForgotten
  <2>1. loop.at = "out" /\ Told(loop.items) = {}
    BY AtRest, ToldOf DEF NoLoop
  <2>2. Told(Join(session.pending, Replay)) = Told(session.pending) \cup Replay.rows
    BY ToldOf
  <2>3. CASE ~stateful
    <3>1. NextSeen = InitialItems(stateful)
      BY <2>3 DEF NextSeen, Seen
    <3>2. QED
      BY <2>1, <2>2, <2>3, <3>1 DEF InitialItems, Replays, Remembered
  <2>4. CASE stateful /\ session.cursor = None
    <3>1. NextSeen = Join(session.pending, Replay) /\ Replays(stateful)
      BY <2>4 DEF NextSeen, Seen, InitialItems, Replays
    <3>2. QED
      BY <2>2, <3>1 DEF Remembered
  <2>5. CASE stateful /\ session.cursor # None
    <3>1. /\ NextSeen = Join(known.items, session.pending) /\ known.stateful
          /\ ~Replays(stateful)
      BY <2>5 DEF NextSeen, Seen, InitialItems, Replays, Foreign, Typed
    <3>2. QED
      BY <2>1, <2>5, <3>1, ToldOf DEF Remembered
  <2>6. QED
    BY <2>3, <2>4, <2>5
<1>3. QED
  BY <1>1, <1>2, RememberedStep, CarriedAlways, TypedAlways, PTL DEF Spec
=============================================================================
