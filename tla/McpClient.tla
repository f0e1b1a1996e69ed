------------------------------ MODULE McpClient ------------------------------
(***************************************************************************)
(* The MCP clients of one session for one server                          *)
(* (integrations/mcp/client.py, tools/mcp_tools.py): the manager's cache,  *)
(* the handshake, requests over a child process's pipes or over HTTP, and  *)
(* their end with the run.  A run's tool calls go on side by side.  Ids    *)
(* and processes are numbers; pages of tools, headers and the rendering of *)
(* results are left out.                                                   *)
(***************************************************************************)
EXTENDS Naturals, Sequences, FiniteSets

CONSTANTS
  Calls,      \* the tool calls a run may make side by side
  MaxProcs,   \* bound: server processes, and clients, ever made
  MaxBad      \* bound: crashes, stalls, garbage, failed posts and interrupts

VARIABLES
  transport,  \* "stdio" or "http"
  manager,    \* MCPClientManager: the cached client, the key's lock; clients made
  client,     \* client[k]: its process, flags, locks and next id
  server,     \* server[p]: a process, what it was asked and what it wrote
  call,       \* call[c]: where a tool call is
  mrun        \* a run is on; bad things so far; processes an interrupt left,
              \* and those another one took the place of (history)

mvars == <<transport, manager, client, server, call, mrun>>

Nobody  == "nobody"
Procs   == 1..MaxProcs
NoCallc == [at |-> "none", k |-> 0, building |-> FALSE, kind |-> "none",
            id |-> 0, p |-> 0, got |-> <<>>]

Init ==
  /\ transport \in {"stdio", "http"}
  /\ manager = [cached |-> 0, lock |-> Nobody, made |-> 0]
  /\ client = [k \in Procs |-> [proc |-> 0, ready |-> FALSE, init |-> Nobody,
                                req |-> Nobody, next |-> 1]]
  /\ server = [p \in Procs |-> [live |-> FALSE, shook |-> FALSE, owner |-> 0,
                                asked |-> {}, out |-> <<>>]]
  /\ call = [c \in Calls |-> NoCallc]
  /\ mrun = [on |-> FALSE, bad |-> 0, cut |-> {}, displaced |-> {}]

Http     == transport = "http"
Alive(k) == Http \/ (client[k].proc # 0 /\ server[client[k].proc].live)
At(c, point) == call[c].at = point
Bad(n)   == mrun.bad < MaxBad /\ mrun' = [mrun EXCEPT !.bad = @ + n]

Unborn == {p \in Procs : server[p].owner = 0}

\* The locks a call gives up when it leaves `async with'.
Unlocked(k, c) ==
  [client[k] EXCEPT !.init = IF @ = c THEN Nobody ELSE @,
                    !.req  = IF @ = c THEN Nobody ELSE @]

-----------------------------------------------------------------------------
(* The run. *)

StartRun ==
  /\ ~mrun.on /\ \E p \in Unborn : \E q \in Unborn : p # q
  /\ mrun' = [mrun EXCEPT !.on = TRUE]
  /\ call' = [c \in Calls |-> [NoCallc EXCEPT !.at = "lookup"]]
  /\ UNCHANGED <<transport, manager, client, server>>

\* close_session: forget the session's client, then end the one process that it
\* has by now.
Closed(srv) ==
  [p \in Procs |-> IF manager.cached # 0 /\ p = client[manager.cached].proc
                   THEN [srv[p] EXCEPT !.live = FALSE] ELSE srv[p]]

RunEnds ==
  /\ mrun.on /\ \A c \in Calls : At(c, "done")
  /\ mrun' = [mrun EXCEPT !.on = FALSE]
  /\ server' = Closed(server)
  /\ manager' = [manager EXCEPT !.cached = 0]
  /\ call' = [c \in Calls |-> NoCallc]
  /\ UNCHANGED <<transport, client>>

\* The run is cancelled, and its calls with it: asyncio ends a process that is
\* being started; that of a client still being built, or one whose end is being
\* waited for, is nobody's any more.
Interrupt ==
  /\ mrun.on /\ mrun.bad < MaxBad
  /\ mrun' = [mrun EXCEPT !.on = FALSE, !.bad = @ + 1,
       !.cut = @ \cup {client[call[c].k].proc : c \in {x \in Calls : call[x].building}}
                 \cup {call[c].p : c \in {x \in Calls : At(x, "closing")}}]
  /\ server' = Closed(server)
  /\ manager' = [manager EXCEPT !.cached = 0, !.lock = Nobody]
  /\ call' = [c \in Calls |-> NoCallc]
  /\ UNCHANGED <<transport, client>>

-----------------------------------------------------------------------------
(* MCPClientManager.client_for. *)

Lookup(c) ==
  /\ At(c, "lookup")
  /\ IF manager.cached # 0
     THEN /\ call' = [call EXCEPT ![c].k = manager.cached, ![c].at = "init"]
          /\ UNCHANGED manager
     ELSE /\ manager.lock = Nobody /\ manager.made < MaxProcs
          /\ manager' = [manager EXCEPT !.lock = c, !.made = @ + 1]
          /\ call' = [call EXCEPT ![c].k = manager.made + 1, ![c].at = "init",
                                  ![c].building = TRUE]
  /\ UNCHANGED <<transport, client, server, mrun>>

FailedUnclosed(c, srv) ==
  LET k == call[c].k IN
  /\ call' = [call EXCEPT ![c].at = "done", ![c].building = FALSE]
  /\ client' = [client EXCEPT ![k] = Unlocked(k, c)]
  /\ manager' = [manager EXCEPT !.lock = IF @ = c THEN Nobody ELSE @]
  /\ server' = srv

\* The call raised.  client_for closes the client it could not initialise.
Failed(c, srv) ==
  LET k == call[c].k
      b == call[c].building
  IN
  /\ call' = [call EXCEPT ![c].at = "done", ![c].building = FALSE]
  /\ client' = [client EXCEPT ![k] = IF b THEN [Unlocked(k, c) EXCEPT !.proc = 0, !.ready = FALSE]
                                     ELSE Unlocked(k, c)]
  /\ manager' = [manager EXCEPT !.lock = IF @ = c THEN Nobody ELSE @]
  /\ server' = [p \in Procs |-> IF b /\ p = client[k].proc
                                THEN [srv[p] EXCEPT !.live = FALSE] ELSE srv[p]]

-----------------------------------------------------------------------------
(* initialize, and the requests. *)

\* Initialised and alive: client_for caches the client, or the request is next.
Initialised(c) ==
  /\ At(c, "init") /\ client[call[c].k].ready /\ Alive(call[c].k)
  /\ IF call[c].building
     THEN /\ manager' = [manager EXCEPT !.cached = call[c].k, !.lock = Nobody]
          /\ call' = [call EXCEPT ![c].building = FALSE]
     ELSE /\ call' = [call EXCEPT ![c].at = "write", ![c].kind = "tools"]
          /\ UNCHANGED manager
  /\ UNCHANGED <<transport, client, server, mrun>>

\* _ensure_process(restart=True) before the handshake, under the first lock.
Handshake(c) ==
  LET k == call[c].k IN
  /\ At(c, "init") /\ client[k].init = Nobody /\ ~(client[k].ready /\ Alive(k))
  /\ call' = [call EXCEPT ![c].at = IF Alive(k) THEN "write" ELSE "spawn",
                          ![c].kind = "initialize"]
  /\ client' = [client EXCEPT ![k].init = c, ![k].ready = FALSE]
  /\ UNCHANGED <<transport, manager, server, mrun>>

Request(c) == <<client[call[c].k].next, c, call[c].kind>>
Asked(srv, p, r) ==
  [srv EXCEPT ![p].asked = @ \cup {r}, ![p].shook = @ \/ r[3] = "initialize"]

\* One request at a time, under the second lock.  A process that died fails it
\* (WriteFails); where there is none, _ensure_process(restart=False) starts one,
\* without a handshake.
Write(c) ==
  LET k == call[c].k
      p == client[k].proc
  IN
  /\ At(c, "write") /\ ~Http /\ client[k].req = Nobody
  /\ \/ /\ Alive(k)
        /\ call' = [call EXCEPT ![c].at = "read", ![c].p = p, ![c].id = client[k].next]
        /\ server' = Asked(server, p, Request(c))
        /\ client' = [client EXCEPT ![k].req = c, ![k].next = @ + 1]
     \/ /\ p = 0 /\ UNCHANGED server
        /\ call' = [call EXCEPT ![c].at = "respawn", ![c].id = client[k].next]
        /\ client' = [client EXCEPT ![k].req = c, ![k].next = @ + 1, ![k].ready = FALSE]
  /\ UNCHANGED <<transport, manager, mrun>>

\* create_subprocess_exec returns.  A process that was started meanwhile under
\* the other lock is no longer the client's: nothing ends it.
Spawned(c, q) ==
  LET k == call[c].k
      born == [server EXCEPT ![q].live = TRUE, ![q].owner = k]
  IN
  /\ q \in Unborn /\ \A r \in Unborn : q <= r
  /\ \/ /\ At(c, "spawn") /\ server' = born
        /\ call' = [call EXCEPT ![c].at = "write"]
     \/ /\ At(c, "respawn")
        /\ server' = Asked(born, q, <<call[c].id, c, call[c].kind>>)
        /\ call' = [call EXCEPT ![c].at = "read", ![c].p = q]
  /\ client' = [client EXCEPT ![k].proc = q]
  /\ mrun' = [mrun EXCEPT !.displaced = @ \cup {client[k].proc}]
  /\ UNCHANGED <<transport, manager>>

SpawnFails(c) ==
  /\ call[c].at \in {"spawn", "respawn"} /\ Bad(1)
  /\ Failed(c, server)
  /\ UNCHANGED transport

WriteFails(c) ==
  /\ At(c, "write") /\ ~Http /\ client[call[c].k].req = Nobody
  /\ client[call[c].k].proc # 0 /\ ~Alive(call[c].k)
  /\ Failed(c, server)
  /\ UNCHANGED <<transport, mrun>>

\* The answer of a request: the handshake is over, or the tool call.
Answered(c, answer) ==
  LET k == call[c].k IN
  IF call[c].kind = "initialize"
  THEN /\ call' = [call EXCEPT ![c].at = "init", ![c].got = answer]
       /\ client' = [client EXCEPT ![k] = [Unlocked(k, c) EXCEPT !.ready = TRUE]]
  ELSE /\ call' = [call EXCEPT ![c].at = "done", ![c].got = answer]
       /\ client' = [client EXCEPT ![k] = Unlocked(k, c)]

\* notifications/initialized finds the process dead.
Unnotified(c) == call[c].kind = "initialize" /\ ~Alive(call[c].k)

\* The next line: the answer, one to skip because its id is another's, or
\* something that is not JSON.
ReadAny(c) ==
  LET p == call[c].p IN
  /\ At(c, "read") /\ server[p].out # <<>>
  /\ LET line == Head(server[p].out)
         rest == [server EXCEPT ![p].out = Tail(@)]
     IN IF line = <<>> \/ Unnotified(c) THEN Failed(c, rest)
        ELSE Answered(c, line) /\ server' = rest /\ UNCHANGED manager
  /\ UNCHANGED <<transport, mrun>>

Read(c) ==
  LET p == call[c].p IN
  /\ At(c, "read") /\ server[p].out # <<>>
  /\ LET line == Head(server[p].out)
         rest == [server EXCEPT ![p].out = Tail(@)]
     IN IF line = <<>> \/ (line[1] = call[c].id /\ Unnotified(c)) THEN Failed(c, rest)
        ELSE IF line[1] = call[c].id
        THEN Answered(c, line) /\ server' = rest /\ UNCHANGED manager
        ELSE /\ call' = [call EXCEPT ![c].p = client[call[c].k].proc]
             /\ server' = rest /\ UNCHANGED <<client, manager>>
  /\ UNCHANGED <<transport, mrun>>

ReadsEnd(c) ==
  /\ At(c, "read") /\ server[call[c].p].out = <<>> /\ ~server[call[c].p].live
  /\ Failed(c, server)
  /\ UNCHANGED <<transport, mrun>>

\* request_timeout_seconds: aclose forgets the process, then waits for it.
TimesOut(c) ==
  /\ At(c, "read") /\ Bad(1)
  /\ call' = [call EXCEPT ![c].at = "closing", ![c].p = client[call[c].k].proc]
  /\ client' = [client EXCEPT ![call[c].k].proc = 0, ![call[c].k].ready = FALSE]
  /\ UNCHANGED <<transport, manager, server>>

ProcessEnds(c) ==
  /\ At(c, "closing")
  /\ Failed(c, [server EXCEPT ![call[c].p].live = FALSE])
  /\ UNCHANGED <<transport, mrun>>

\* MCPStreamableHTTPClient: no lock, each answer comes with its own post.
Post(c, ok) ==
  /\ At(c, "write") /\ Http
  /\ IF ok THEN Answered(c, Request(c)) /\ UNCHANGED <<manager, mrun, server>>
     ELSE Bad(1) /\ Failed(c, server)
  /\ UNCHANGED transport

-----------------------------------------------------------------------------
(* The server's process. *)

Answers(p) ==
  /\ server[p].live
  /\ \E r \in server[p].asked :
       server' = [server EXCEPT ![p].asked = @ \ {r}, ![p].out = Append(@, r)]
  /\ UNCHANGED <<transport, manager, client, call, mrun>>

WritesGarbage(p) ==
  /\ server[p].live /\ Bad(1)
  /\ server' = [server EXCEPT ![p].out = Append(@, <<>>)]
  /\ UNCHANGED <<transport, manager, client, call>>

Crashes(p) ==
  /\ server[p].live /\ Bad(1)
  /\ server' = [server EXCEPT ![p].live = FALSE]
  /\ UNCHANGED <<transport, manager, client, call>>

Next ==
  \/ StartRun \/ RunEnds \/ Interrupt
  \/ \E c \in Calls :
       \/ Lookup(c) \/ Initialised(c) \/ Handshake(c) \/ Write(c)
       \/ SpawnFails(c) \/ \E q \in Procs : Spawned(c, q)
       \/ WriteFails(c) \/ Read(c) \/ ReadsEnd(c) \/ TimesOut(c) \/ ProcessEnds(c)
       \/ \E ok \in BOOLEAN : Post(c, ok)
  \/ \E p \in Procs : Answers(p) \/ WritesGarbage(p) \/ Crashes(p)

Spec == Init /\ [][Next]_mvars

-----------------------------------------------------------------------------
(* Every variable keeps its shape (client.py:313-322, 550-553). *)
TypeOK ==
  /\ manager.cached \in 0..MaxProcs /\ manager.lock \in Calls \cup {Nobody}
  /\ \A k \in Procs : client[k].proc \in 0..MaxProcs /\ client[k].ready \in BOOLEAN
  /\ \A p \in Procs : server[p].owner \in 0..MaxProcs /\ server[p].live \in BOOLEAN
  /\ \A c \in Calls : call[c].at \in
       {"none", "lookup", "init", "spawn", "write", "respawn", "read", "closing",
        "done"}

\* A call gets the answer to what it asked, though calls share a pipe, lines
\* go wrong and answers come after the request they belong to has failed
\* (client.py:442-484).
AnswerIsOwn ==
  \A c \in Calls : call[c].got # <<>> => call[c].got[2] = c

\* A server process does not outlive the run that spawned it, whichever of its
\* calls failed or timed out, unless the run was interrupted while the process's
\* client was being built or its end was waited for, or another process of the
\* client took its place (client.py:324-345, 570-576, 589-601; base.py:548).
ClosedAfterRun ==
  ~mrun.on => \A p \in Procs :
    server[p].live => p \in mrun.cut \cup mrun.displaced
=============================================================================
