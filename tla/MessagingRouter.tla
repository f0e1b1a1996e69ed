--------------------------- MODULE MessagingRouter ---------------------------
(***************************************************************************)
(* An inbound chat message from the platform to the agent and back         *)
(* (messaging/router.py, store.py and the adapters' receiving halves): the *)
(* dedup claim, the chat's session, the router's coalescing and the reply. *)
(* A step of a handler ends at an await that really waits, the others run  *)
(* on.  Telegram is polled: one dispatch at a time, an offset kept in      *)
(* memory.  LINE and WhatsApp post to a webhook: a post is sent again      *)
(* until one is answered.  Signature checks, payload shapes and the        *)
(* chunking of replies are data.                                           *)
(***************************************************************************)
EXTENDS Naturals, Sequences, FiniteSets, FiniteSetsExt

CONSTANTS
  MaxMessages,   \* bound: messages the users of one chat send
  MaxHandlers,   \* bound: times the router is handed one of them
  MaxTroubles    \* bound: failures, restarts and reconnects

VARIABLES
  via,       \* "poll" or "webhook": how the platform delivers
  tg,        \* the poll loop: running, its batch, its handler, its offset
  platform,  \* what the platform still owes: Telegram's confirmed offset, posts answered
  db,        \* messaging_inbound_dedup, messaging_chats
  mem,       \* the process: _active_sessions, the sender, sessions made, queued input
  handler,   \* handler[h]: the h-th call of handle_incoming
  hist       \* given to an agent, handlings that failed, troubles

vars == <<via, tg, platform, db, mem, handler, hist>>

Messages == 1..MaxMessages
Handlers == 1..MaxHandlers
Sessions == 1..MaxHandlers
Points   == {"none", "claim", "lookup", "create", "upsert", "route", "run",
             "reply", "release", "done", "dead"}

NoHandler == [msg |-> 0, at |-> "none", sess |-> 0]

Init ==
  /\ via \in {"poll", "webhook"}
  /\ tg = [on |-> via = "poll", batch |-> {}, h |-> 0, offset |-> 0]
  /\ platform = [confirmed |-> 0, answered |-> {}]
  /\ db = [claimed |-> {}, session |-> 0]
  /\ mem = [active |-> {}, sender |-> TRUE, made |-> 0,
            queue |-> [s \in Sessions |-> {}]]
  /\ handler = [h \in Handlers |-> NoHandler]
  /\ hist = [given |-> [m \in Messages |-> 0],
             failed |-> [m \in Messages |-> 0], troubles |-> 0]

Used == Cardinality({h \in Handlers : handler[h].at # "none"})
At(h, p) == handler[h].at = p
Goto(h, p) == handler' = [handler EXCEPT ![h].at = p]

\* handle_incoming starts: a text that is not blank.
Hand(m) ==
  /\ Used < MaxHandlers
  /\ handler' = [handler EXCEPT ![Used + 1] = [NoHandler EXCEPT !.msg = m, !.at = "claim"]]

Trouble == hist.troubles < MaxTroubles /\ hist' = [hist EXCEPT !.troubles = @ + 1]

-----------------------------------------------------------------------------
(* Delivery. *)

\* getUpdates with the offset confirms what is below it and returns the rest.
Fetch ==
  /\ via = "poll" /\ tg.on /\ tg.batch = {} /\ tg.h = 0
  /\ LET low == Max({platform.confirmed, tg.offset}) IN
       /\ platform' = [platform EXCEPT !.confirmed = low]
       /\ tg' = [tg EXCEPT !.batch = {m \in Messages : m > low}]
  /\ UNCHANGED <<via, db, mem, handler, hist>>

\* The offset moves before the router is done.
AdvanceFirst ==
  /\ tg.on /\ tg.h = 0 /\ tg.batch # {}
  /\ Hand(Min(tg.batch))
  /\ tg' = [tg EXCEPT !.h = Used + 1, !.offset = Min(tg.batch)]
  /\ UNCHANGED <<via, platform, db, mem, hist>>

\* The next update goes to the router.
Dispatch ==
  /\ tg.on /\ tg.h = 0 /\ tg.batch # {}
  /\ Hand(Min(tg.batch))
  /\ tg' = [tg EXCEPT !.h = Used + 1]
  /\ UNCHANGED <<via, platform, db, mem, hist>>

\* The dispatch is over, whatever became of it: the offset moves past it.
Advance ==
  /\ tg.on /\ tg.h # 0 /\ At(tg.h, "done")
  /\ tg' = [tg EXCEPT !.h = 0, !.batch = @ \ {handler[tg.h].msg},
                      !.offset = Max({@, handler[tg.h].msg})]
  /\ UNCHANGED <<via, platform, db, mem, handler, hist>>

\* A post, or one the platform repeats because none was answered with 200.
Post(m) ==
  /\ via = "webhook" /\ mem.sender /\ m \notin platform.answered
  /\ Hand(m)
  /\ UNCHANGED <<via, tg, platform, db, mem, hist>>

Answer(h) ==
  /\ via = "webhook" /\ At(h, "done") /\ handler[h].msg \notin platform.answered
  /\ platform' = [platform EXCEPT !.answered = @ \cup {handler[h].msg}]
  /\ UNCHANGED <<via, tg, db, mem, handler, hist>>

-----------------------------------------------------------------------------
(* MessagingRouter. *)

\* INSERT with the message as primary key: the second one is a duplicate.
Claim(h) ==
  /\ At(h, "claim")
  /\ db' = [db EXCEPT !.claimed = @ \cup {handler[h].msg}]
  /\ Goto(h, IF handler[h].msg \in db.claimed THEN "done" ELSE "lookup")
  /\ UNCHANGED <<via, tg, platform, mem, hist>>

Lookup(h) ==
  /\ At(h, "lookup")
  /\ handler' = [handler EXCEPT ![h].sess = db.session,
                                ![h].at = IF db.session = 0 THEN "create" ELSE "route"]
  /\ UNCHANGED <<via, tg, platform, db, mem, hist>>

CreateSession(h) ==
  /\ At(h, "create")
  /\ mem' = [mem EXCEPT !.made = @ + 1]
  /\ handler' = [handler EXCEPT ![h].sess = mem.made + 1, ![h].at = "upsert"]
  /\ UNCHANGED <<via, tg, platform, db, hist>>

UpsertReplacing(h) ==
  /\ At(h, "upsert")
  /\ db' = [db EXCEPT !.session = handler[h].sess]
  /\ Goto(h, "route")
  /\ UNCHANGED <<via, tg, platform, mem, hist>>

\* ON CONFLICT leaves the first session of the chat; the handler goes on
\* with its own.
Upsert(h) ==
  /\ At(h, "upsert")
  /\ db' = [db EXCEPT !.session = IF @ = 0 THEN handler[h].sess ELSE @]
  /\ Goto(h, "route")
  /\ UNCHANGED <<via, tg, platform, mem, hist>>

\* Queue behind the session's run, the router's or another caller's: is_busy()
\* answers at once, so nothing is awaited between the check and what follows.
Enqueue(h) ==
  /\ At(h, "route")
  /\ mem' = [mem EXCEPT !.queue[handler[h].sess] = @ \cup {handler[h].msg}]
  /\ Goto(h, "done")
  /\ UNCHANGED <<via, tg, platform, db, hist>>

\* Become the session's run.
StartRun(h) ==
  /\ At(h, "route") /\ handler[h].sess \notin mem.active
  /\ mem' = [mem EXCEPT !.active = @ \cup {handler[h].sess}]
  /\ Goto(h, "run")
  /\ hist' = [hist EXCEPT !.given[handler[h].msg] = @ + 1]
  /\ UNCHANGED <<via, tg, platform, db>>

\* A run of the session, of whatever caller, drains its queue before a model call.
RunDrains(s) ==
  LET q == mem.queue[s] IN
  /\ q # {}
  /\ mem' = [mem EXCEPT !.queue[s] = {}]
  /\ hist' = [hist EXCEPT !.given = [m \in Messages |-> @[m] + IF m \in q THEN 1 ELSE 0]]
  /\ UNCHANGED <<via, tg, platform, db, handler>>

RunEnds(h) ==
  /\ At(h, "run")
  /\ mem' = [mem EXCEPT !.active = @ \ {handler[h].sess}]
  /\ Goto(h, "reply")
  /\ UNCHANGED <<via, tg, platform, db, hist>>

\* Sent, dropped without a sender, or failed and logged: the handler returns.
DispatchReply(h) ==
  /\ At(h, "reply") /\ Goto(h, "done")
  /\ UNCHANGED <<via, tg, platform, db, mem, hist>>

\* An exception anywhere in _handle_claimed.
Fails(h) ==
  /\ handler[h].at \in {"lookup", "create", "upsert", "run"}
  /\ hist.troubles < MaxTroubles
  /\ hist' = [hist EXCEPT !.troubles = @ + 1, !.failed[handler[h].msg] = @ + 1]
  /\ mem' = [mem EXCEPT !.active = IF At(h, "run") THEN @ \ {handler[h].sess} ELSE @]
  /\ Goto(h, "release")
  /\ UNCHANGED <<via, tg, platform, db>>

Release(h) ==
  /\ At(h, "release")
  /\ db' = [db EXCEPT !.claimed = @ \ {handler[h].msg}]
  /\ Goto(h, "done")
  /\ UNCHANGED <<via, tg, platform, mem, hist>>

-----------------------------------------------------------------------------
(* The adapter and the process come and go. *)

\* TelegramAdapter.stop: a dispatch under way is shielded and runs on.
StopAdapter ==
  /\ mem.sender /\ Trouble
  /\ mem' = [mem EXCEPT !.sender = FALSE]
  /\ tg' = [tg EXCEPT !.on = FALSE, !.batch = {}, !.h = 0]
  /\ UNCHANGED <<via, platform, db, handler>>

StartAdapter ==
  /\ ~mem.sender
  /\ mem' = [mem EXCEPT !.sender = TRUE]
  /\ tg' = [tg EXCEPT !.on = via = "poll", !.offset = 0]
  /\ UNCHANGED <<via, platform, db, handler, hist>>

Restart ==
  /\ Trouble
  /\ mem' = [mem EXCEPT !.active = {}, !.sender = TRUE, !.queue = [s \in Sessions |-> {}]]
  /\ tg' = [on |-> via = "poll", batch |-> {}, h |-> 0, offset |-> 0]
  /\ handler' = [h \in Handlers |->
       IF handler[h].at \in {"none", "done"} THEN handler[h]
       ELSE [handler[h] EXCEPT !.at = "dead"]]
  /\ UNCHANGED <<via, platform, db>>

Next ==
  \/ Fetch \/ Dispatch \/ Advance
  \/ \E m \in Messages : Post(m)
  \/ \E h \in Handlers :
       \/ Answer(h) \/ Claim(h) \/ Lookup(h) \/ CreateSession(h) \/ Upsert(h)
       \/ Enqueue(h) \/ StartRun(h) \/ RunEnds(h) \/ DispatchReply(h)
       \/ Fails(h) \/ Release(h)
  \/ \E s \in Sessions : RunDrains(s)
  \/ StopAdapter \/ StartAdapter \/ Restart

Spec == Init /\ [][Next]_vars

-----------------------------------------------------------------------------
(* Every variable keeps its shape (router.py:70-95). *)
TypeOK ==
  /\ via \in {"poll", "webhook"}
  /\ tg \in [on : BOOLEAN, batch : SUBSET Messages, h : 0..MaxHandlers, offset : 0..MaxMessages]
  /\ platform \in [confirmed : 0..MaxMessages, answered : SUBSET Messages]
  /\ db \in [claimed : SUBSET Messages, session : 0..MaxHandlers]
  /\ mem.active \in SUBSET Sessions /\ mem.made \in 0..MaxHandlers
  /\ mem.queue \in [Sessions -> SUBSET Messages] /\ mem.sender \in BOOLEAN
  /\ handler \in [Handlers -> [msg : 0..MaxMessages, at : Points, sess : 0..MaxHandlers]]

\* A message reaches an agent at most once more than its handling failed,
\* however often the platform repeats it, the poll loop forgets its offset or
\* the process restarts: the dedup claim of router.py:124 holds up.
GivenOncePerFailure ==
  \A m \in Messages : hist.given[m] <= 1 + hist.failed[m]

\* Two messages of one chat do not run side by side in one session: the later
\* one joins the run that is under way (router.py:171-195).
OneRunPerSession ==
  \A h, g \in Handlers :
    At(h, "run") /\ At(g, "run") /\ handler[h].sess = handler[g].sess => h = g

\* What the poll loop has moved past was handed to the router, so that a stop
\* between two updates skips none (telegram.py:290-320, review fix C5).
NothingSkipped ==
  \A m \in Messages : m <= Max({tg.offset, platform.confirmed}) =>
    \E h \in Handlers : handler[h].msg = m /\ handler[h].at = "done"
=============================================================================
