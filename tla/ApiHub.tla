-------------------------------- MODULE ApiHub --------------------------------
(***************************************************************************)
(* The HTTP API's leads (api/hub.py, api/channel.py, api/routes.py) and    *)
(* the lead manager that gives them their sessions (core/leads/manager.py).*)
(* One lead's name is kept: browsers ask for it to be created, connect,    *)
(* and send it messages, all on one event loop; a request goes on where    *)
(* the database answers it, in the order it was asked.                     *)
(***************************************************************************)
EXTENDS Naturals, Sequences, FiniteSets

CONSTANTS
  Requests,     \* POST /api/leads with that name
  Browsers,
  MaxMessages,  \* bound: messages posted
  QueueMax,     \* _SUBSCRIBER_QUEUE_MAX
  MaxStarts     \* bound: starts of the server

VARIABLES
  disk,      \* the lead's YAML, and its row in lead_sessions
  hub,       \* the lead's channel in _channels, and its handle's session
  channels,  \* every LeadChannel whose driver runs
  request,   \* each create_lead: where it is, and the session it has
  line,      \* requests whose upsert is done, in that order
  browser,   \* each WebSocket: its channel, and the events in its queue
  overtaken, \* a request was resuming a session when another wrote its own
  counts     \* sessions made, messages, starts

ahvars == <<disk, hub, channels, request, line, browser, overtaken, counts>>

None    == 0
NoLead  == [channel |-> None, session |-> None]
Offline == [channel |-> None, queued |-> 0]
Arrived == [at |-> "new", session |-> None]

NewChannel(s) == [session |-> s, status |-> "idle", queue |-> 0]

\* A lead whose YAML is there may have a session of an earlier run.
Init ==
  /\ \E yaml \in BOOLEAN : disk = [yaml |-> yaml, session |-> None]
  /\ hub = NoLead /\ channels = <<>> /\ line = <<>>
  /\ request = [r \in Requests |-> Arrived] /\ browser = [b \in Browsers |-> Offline]
  /\ overtaken = FALSE /\ counts = [sessions |-> 0, messages |-> 0, starts |-> 0]

Up == counts.starts > 0

\* ApiHub._open_channel: the channel's driver starts, and it is the lead's now.
OpenChannel(s) ==
  /\ channels' = Append(channels, NewChannel(s))
  /\ hub' = [channel |-> Len(channels) + 1, session |-> s]

\* The server starts, or dies and starts again: a discovered lead resumes its
\* session, or gets one.
Start ==
  /\ counts.starts < MaxStarts
  /\ LET new == counts.sessions + 1
         s   == IF disk.session # None THEN disk.session ELSE new IN
       IF disk.yaml
       THEN /\ disk' = [disk EXCEPT !.session = s]
            /\ channels' = <<NewChannel(s)>> /\ hub' = [channel |-> 1, session |-> s]
            /\ counts' = [counts EXCEPT !.starts = @ + 1,
                            !.sessions = IF s = new THEN new ELSE @]
       ELSE /\ channels' = <<>> /\ hub' = NoLead /\ UNCHANGED disk
            /\ counts' = [counts EXCEPT !.starts = @ + 1]
  /\ line' = <<>> /\ overtaken' = FALSE /\ browser' = [b \in Browsers |-> Offline]
  /\ request' = [r \in Requests |-> IF request[r].at = "new" THEN Arrived
                                    ELSE [at |-> "done", session |-> None]]

-----------------------------------------------------------------------------
(* create_lead. *)

\* scaffold_lead_yaml: left as it is if it is there.
Scaffold == disk' = [disk EXCEPT !.yaml = TRUE]

\* Refused if the lead has a channel; the YAML, unless it is there.
Create(r) ==
  /\ Up /\ request[r].at = "new"
  /\ IF hub.channel # None
     THEN request' = [request EXCEPT ![r].at = "done"] /\ UNCHANGED disk
     ELSE request' = [request EXCEPT ![r].at = "get"] /\ Scaffold
  /\ UNCHANGED <<hub, channels, line, browser, counts, overtaken>>

\* LeadSessionStore.get: its session is resumed, or one is made.
Get(r) ==
  /\ request[r].at = "get"
  /\ request' = [request EXCEPT ![r].at = IF disk.session = None THEN "make" ELSE "resume",
                                ![r].session = disk.session]
  /\ UNCHANGED <<disk, hub, channels, line, browser, counts, overtaken>>

Make(r) ==
  /\ request[r].at = "make"
  /\ counts' = [counts EXCEPT !.sessions = @ + 1]
  /\ request' = [request EXCEPT ![r].at = "upsert", ![r].session = counts.sessions + 1]
  /\ UNCHANGED <<disk, hub, channels, line, browser, overtaken>>

\* LeadSessionStore.upsert: the last one stays.
Upsert(r) ==
  /\ request[r].at = "upsert" /\ line' = Append(line, r)
  /\ disk' = [disk EXCEPT !.session = request[r].session]
  /\ request' = [request EXCEPT ![r].at = "open"]
  /\ overtaken' = (overtaken \/ \E x \in Requests : request[x].at = "resume")
  /\ UNCHANGED <<hub, channels, browser, counts>>

\* The handle, and from here to the answer nothing is awaited.
Open(r) ==
  /\ request[r].at = "open" /\ line # <<>> /\ Head(line) = r
  /\ OpenChannel(request[r].session)
  /\ line' = Tail(line)
  /\ request' = [request EXCEPT ![r].at = "done"]
  /\ UNCHANGED <<disk, browser, counts, overtaken>>

\* The session was there: no row is written.
Resume(r) ==
  /\ request[r].at = "resume"
  /\ OpenChannel(request[r].session)
  /\ request' = [request EXCEPT ![r].at = "done"]
  /\ UNCHANGED <<disk, line, browser, counts, overtaken>>

\* The agent cannot be built, or a store fails: the YAML stays.
Fails(r) ==
  /\ request[r].at \in {"get", "make"}
  /\ request' = [request EXCEPT ![r].at = "done"]
  /\ UNCHANGED <<disk, hub, channels, line, browser, counts, overtaken>>

-----------------------------------------------------------------------------
(* LeadChannel. *)

\* _broadcast: to every browser of the channel, dropped where its queue is full.
Broadcast(ch) ==
  browser' = [b \in Browsers |->
                IF browser[b].channel = ch /\ browser[b].queued < QueueMax
                THEN [browser[b] EXCEPT !.queued = @ + 1] ELSE browser[b]]

SetStatus(ch, status) == channels' = [channels EXCEPT ![ch].status = status]

\* A message of a POST or of a browser, to the driver's queue.
Send ==
  /\ hub.channel # None /\ counts.messages < MaxMessages
  /\ counts' = [counts EXCEPT !.messages = @ + 1]
  /\ channels' = [channels EXCEPT ![hub.channel].queue = @ + 1]
  /\ UNCHANGED <<disk, hub, request, line, browser, overtaken>>

DriverTakes(ch) ==
  /\ channels[ch].status # "driving" /\ channels[ch].queue > 0
  /\ channels' = [channels EXCEPT ![ch].status = "driving", ![ch].queue = @ - 1]
  /\ Broadcast(ch)
  /\ UNCHANGED <<disk, hub, request, line, counts, overtaken>>

\* The run ends, waits for the user, or raises: the driver goes on.
RunEnds(ch, status) ==
  /\ channels[ch].status = "driving" /\ SetStatus(ch, status) /\ Broadcast(ch)
  /\ UNCHANGED <<disk, hub, request, line, counts, overtaken>>

Connect(b) ==
  /\ browser[b].channel = None /\ hub.channel # None
  /\ browser' = [browser EXCEPT ![b] = [channel |-> hub.channel, queued |-> 0]]
  /\ UNCHANGED <<disk, hub, channels, request, line, counts, overtaken>>

Pump(b) ==
  /\ browser[b].queued > 0
  /\ browser' = [browser EXCEPT ![b].queued = @ - 1]
  /\ UNCHANGED <<disk, hub, channels, request, line, counts, overtaken>>

Disconnect(b) ==
  /\ browser[b].channel # None
  /\ browser' = [browser EXCEPT ![b] = Offline]
  /\ UNCHANGED <<disk, hub, channels, request, line, counts, overtaken>>

Next ==
  \/ Start \/ Send
  \/ \E r \in Requests :
       Create(r) \/ Get(r) \/ Make(r) \/ Upsert(r) \/ Open(r) \/ Resume(r) \/ Fails(r)
  \/ \E ch \in 1..Len(channels) :
       \/ DriverTakes(ch)
       \/ \E status \in {"idle", "awaiting_user"} : RunEnds(ch, status)
  \/ \E b \in Browsers : Connect(b) \/ Pump(b) \/ Disconnect(b)

Spec == Init /\ [][Next]_ahvars

-----------------------------------------------------------------------------
(* Every variable keeps its shape (channel.py:35-54, manager.py:148-152). *)
TypeOK ==
  /\ hub.channel \in 0..Len(channels)
  /\ \A b \in Browsers : browser[b].channel \in 0..Len(channels)
                         /\ browser[b].queued \in 0..QueueMax

\* The session a restart resumes is the one browsers are talking to, however
\* many requests created the lead at once (manager.py:165-192, hub.py:222-235),
\* unless one of them overtook another that had found a session.
RestartResumesShown ==
  ~overtaken /\ hub.channel # None /\ (\A r \in Requests : request[r].at # "open") =>
    disk.session = hub.session /\ channels[hub.channel].session = hub.session
=============================================================================
