-------------------------- MODULE MessagingService --------------------------
(***************************************************************************)
(* Connecting and disconnecting Telegram, LINE and WhatsApp               *)
(* (messaging/service.py, the adapters' start and stop, webhook_server.py, *)
(* the credentials table and the slash commands of tui/app.py).  connect,  *)
(* disconnect and shutdown run under one lock; the restore at startup runs *)
(* before any command is read.                                             *)
(***************************************************************************)
EXTENDS Naturals, Sequences, FiniteSets, Functions

CONSTANTS
  MaxCommands,  \* bound: /connect and /disconnect typed
  MaxFailures   \* bound: failures of the network, the port or SQLite, and restarts

Platforms == {"telegram", "line", "whatsapp"}
Configs   == {"good", "other", "bad"}       \* "bad": the platform refuses it
None      == "none"

VARIABLES
  creds,     \* messaging_credentials: the config of each platform
  adapters,  \* MessagingService._adapters, with the config each was given
  senders,   \* MessagingRouter._adapter_senders
  polls,     \* a Telegram poll loop is running
  web,       \* WebhookServer: its routes, its application, runner and site
  todo,      \* stored platforms a start has yet to restore
  op,        \* the command that holds the lock, and where it is
  bounds     \* commands and failures so far; configs that have come up

svars == <<creds, adapters, senders, polls, web, todo, op, bounds>>

Free == [kind |-> "free", p |-> None, c |-> None]
Down == [routes |-> <<>>, app |-> <<>>, runner |-> FALSE, site |-> FALSE]

Init ==
  /\ creds = [p \in Platforms |-> None] /\ adapters = creds
  /\ senders = {} /\ polls = FALSE /\ web = Down /\ op = Free
  /\ todo = {}
  /\ bounds = [commands |-> 0, failures |-> 0, proven |-> {}]

-----------------------------------------------------------------------------
(* WebhookServer. *)

Routes(p) == CASE p = "telegram" -> <<>>
               [] p = "line" -> <<[path |-> p, verb |-> "POST"]>>
               [] p = "whatsapp" -> <<[path |-> p, verb |-> "GET"], [path |-> p, verb |-> "POST"]>>

\* Once its runner is set up an application takes no new path, only another
\* method of the path added last; and no method of a path twice.
Addable(w, r) ==
  /\ r \notin Range(w.app)
  /\ w.runner => w.app # <<>> /\ w.app[Len(w.app)].path = r.path

Insert(s, r) == IF r \in Range(s) THEN s ELSE Append(s, r)

\* The route is noted before the application takes it; `port' is whether the
\* port can be bound.
Register(w, r, port) ==
  IF ~Addable(w, r) THEN [w EXCEPT !.routes = Insert(@, r)]
  ELSE [routes |-> Insert(w.routes, r), app |-> Append(w.app, r),
        runner |-> TRUE, site |-> IF w.runner THEN w.site ELSE port]

Registers(w, r, port) == Addable(w, r) /\ (w.runner \/ port)

\* A new application with the routes left, bound again unless there are none.
Unregister(w, r, port) ==
  IF r \notin Range(w.routes) THEN w
  ELSE LET left == SelectSeq(w.routes, LAMBDA x : x # r) IN
       IF left = <<>> THEN Down
       ELSE [routes |-> left, app |-> left, runner |-> TRUE, site |-> port]

UnregisterAll(w, p, port) ==
  LET rs == Routes(p)
      left[n \in 0..Len(rs)] ==
        IF n = 0 THEN w ELSE Unregister(left[n - 1], rs[Len(rs) - n + 1], port)
  IN left[Len(rs)]

-----------------------------------------------------------------------------
(* The adapters' start and stop, and the service. *)

Failing(f) == bounds.failures + (IF f THEN 1 ELSE 0) <= MaxFailures
Failed(f)  == bounds.failures + (IF f THEN 1 ELSE 0)

\* TelegramAdapter.stop, LineAdapter.stop, WhatsAppAdapter.stop.
Stopped(p, port) ==
  /\ polls' = (polls /\ p # "telegram")
  /\ web' = UnregisterAll(web, p, port)

\* connect, under the lock: whatever runs is stopped and forgotten.
BeginConnect(p, c) ==
  /\ op = Free /\ todo = {} /\ bounds.commands < MaxCommands
  /\ op' = [kind |-> "start", p |-> p, c |-> c]
  /\ adapters' = [adapters EXCEPT ![p] = None]
  /\ senders' = senders \ {p}
  /\ \E fails \in BOOLEAN :
       /\ Failing(fails)
       /\ IF adapters[p] # None THEN Stopped(p, ~fails) ELSE ~fails /\ UNCHANGED <<polls, web>>
       /\ bounds' = [bounds EXCEPT !.commands = @ + 1, !.failures = Failed(fails)]
  /\ UNCHANGED <<creds, todo>>

\* Where a start may fail: before anything is up, or counting the chats after.
StartFails == {"at once", "counting chats"}

\* Telegram: getMe refuses the token or cannot be reached; a poll task already
\* running is cancelled when the start fails after it (review fix C2).
\* Webhooks: a config without its keys fails in the constructor; a route that
\* is not taken ends the start, and the routes noted before it stay.
Started(p, c, fails) ==
  IF p = "telegram"
  THEN [ok |-> c # "bad" /\ fails = "no", polls |-> c # "bad" /\ fails = "no", web |-> web]
  ELSE LET rs   == Routes(p)
           port == fails # "at once"
           upTo[n \in 0..Len(rs)] ==
             IF n = 0 THEN [ok |-> c # "bad", web |-> web]
             ELSE IF ~upTo[n - 1].ok THEN upTo[n - 1]
             ELSE [ok  |-> Registers(upTo[n - 1].web, rs[n], port),
                   web |-> Register(upTo[n - 1].web, rs[n], port)]
           end == upTo[Len(rs)]
       IN [ok |-> end.ok /\ fails = "no", polls |-> polls, web |-> end.web]

\* _spawn_adapter: the factory, the start, then the two tables.
Spawn ==
  /\ op.kind \in {"start", "restore"}
  /\ \E fails \in StartFails \cup {"no"} : LET s == Started(op.p, op.c, fails) IN
       /\ Failing(fails # "no")
       /\ polls' = s.polls /\ web' = s.web
       /\ IF s.ok
          THEN /\ adapters' = [adapters EXCEPT ![op.p] = op.c]
               /\ senders' = senders \cup {op.p}
               /\ op' = IF op.kind = "start" THEN [op EXCEPT !.kind = "save"] ELSE Free
               /\ bounds' = [bounds EXCEPT !.proven = @ \cup {<<op.p, op.c>>}]
          ELSE /\ op' = Free
               /\ bounds' = [bounds EXCEPT !.failures = Failed(fails # "no")]
               /\ UNCHANGED <<adapters, senders>>
  /\ UNCHANGED <<creds, todo>>

\* save_credentials, after the adapter is up.
Save ==
  /\ op.kind = "save" /\ op' = Free
  /\ \E fails \in BOOLEAN :
       /\ Failing(fails)
       /\ creds' = IF fails THEN creds ELSE [creds EXCEPT ![op.p] = op.c]
       /\ bounds' = [bounds EXCEPT !.failures = Failed(fails)]
  /\ UNCHANGED <<adapters, senders, polls, web, todo>>

\* disconnect: stop, unregister, delete the credentials (which may fail).
Disconnect(p) ==
  /\ op = Free /\ todo = {} /\ bounds.commands < MaxCommands
  /\ adapters' = [adapters EXCEPT ![p] = None]
  /\ senders' = senders \ {p}
  /\ \E fails \in BOOLEAN :
       /\ Failing(fails)
       /\ creds' = IF fails THEN creds ELSE [creds EXCEPT ![p] = None]
       /\ IF adapters[p] # None THEN Stopped(p, TRUE) ELSE UNCHANGED <<polls, web>>
       /\ bounds' = [bounds EXCEPT !.commands = @ + 1, !.failures = Failed(fails)]
  /\ UNCHANGED <<todo, op>>

\* shutdown, or a crash, at any point, and the next process.
Restart ==
  /\ bounds.failures < MaxFailures
  /\ bounds' = [bounds EXCEPT !.failures = @ + 1]
  /\ adapters' = [p \in Platforms |-> None] /\ senders' = {}
  /\ polls' = FALSE /\ web' = Down /\ op' = Free
  /\ todo' = {p \in Platforms : creds[p] # None}
  /\ UNCHANGED creds

\* start: the stored platforms one after the other, before any command.
Restore(p) ==
  /\ op = Free /\ p \in todo
  /\ todo' = todo \ {p}
  /\ op' = [kind |-> "restore", p |-> p, c |-> creds[p]]
  /\ UNCHANGED <<creds, adapters, senders, polls, web, bounds>>

Next ==
  \/ \E p \in Platforms, c \in Configs : BeginConnect(p, c)
  \/ \E p \in Platforms : Disconnect(p) \/ Restore(p)
  \/ Spawn \/ Save \/ Restart

Spec == Init /\ [][Next]_svars

-----------------------------------------------------------------------------
(* Every variable keeps its shape (service.py:61-79). *)
TypeOK ==
  /\ creds \in [Platforms -> Configs \cup {None}]
  /\ adapters \in [Platforms -> Configs \cup {None}]
  /\ senders \in SUBSET Platforms /\ polls \in BOOLEAN
  /\ web.runner \in BOOLEAN /\ web.site \in BOOLEAN
  /\ todo \in SUBSET Platforms
  /\ op.kind \in {"free", "start", "save", "restore"}

\* A poll loop always belongs to the adapter the service knows, so that a
\* disconnect ends it, whatever failed while it came up (telegram.py:142-160,
\* review fix C2); and only a configuration that has come up is stored, so that
\* a restart can restore it (service.py:178-208, base.py:88-95).
OnlyKnownAdapters ==
  /\ polls <=> adapters["telegram"] # None
  /\ \A p \in Platforms : creds[p] # None => <<p, creds[p]>> \in bounds.proven
=============================================================================
