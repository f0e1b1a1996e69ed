# A TLA+ model of Feather OS

Feather OS runs a "lead" agent, a loop around a language model, in a terminal UI
or in a worker process of it. The lead delegates to sub-agents, each a process of
its own, schedules prompts for itself, and answers chats. Everything that the
processes share lies in one SQLite database: sessions, tasks, scheduled jobs and
the mailbox through which agents talk to each other. Around the agents there are
providers of models, MCP servers, a memory, chat platforms, settings in layers of
files, a terminal UI and an HTTP API. This directory models the parts of that
system where the order of events decides about correctness. TLC checks the
modules on small instances, and TLAPS proves nearly all of the safety properties, for
all instances (section 5).

Paths below are relative to the package `src/feather/` of the repository.

## 1. Inventory

| Component | State | Operations | What is hard about it |
|---|---|---|---|
| **Agent mailbox** `storage/agent_message_store.py`, `storage/connection.py` | table `agent_messages`: status, correlation id, `in_reply_to` | `send` (cap, insert, flip of the answered question), `claim_reply`, `inbox`, `mark_delivered` | many processes write; the coroutines of one process share its connection, hence its transactions; kills between reading and acknowledging |
| **Sub-agent life cycle** `core/subagents/`, `core/ipc/process.py`, `tools/spawn_agent_tool.py`, `terminate_agent_tool.py`, `task_tools.py`, `FeatherRuntime.shutdown` | `SubagentRegistry`, processes, the reaper's snapshot, phase of the runtime | spawn, resume, stop, terminate, reaper pass, shutdown, exits of children | a batch of tool calls runs concurrently with the reaper; whoever removes an entry answers for the child; every store call may fail |
| **Task store** `storage/task_store.py` | status, owner and outputs of tasks; plans, runs, events | create, update, add output | children and the lead write the same rows, with no compare-and-set |
| **Cron scheduler** `core/scheduling/cron_scheduler.py`, `storage/cron_store.py`, `tools/cron_tools.py` | table `cron_jobs`, the set of jobs being dispatched | tick, dispatch, retry; create, update, delete | tools change a job between two awaits of its dispatch; shutdown in a dispatch; one failure in a batch |
| **Agent loop** `core/agent/`, `core/session/`, `storage/session_store.py` | status, provider cursor and pending inputs of a session, its messages, the input queue, session locks | run, tool batch, inbox drain, compaction, keep-alive, `resume_on_inbox` | cancellation anywhere; input that comes as a run ends; what the provider is taken to know already |
| **Lead supervisor and worker** `core/leads/supervisor.py`, `worker_core.py`, `core/ipc/`, the driver in `tui/app.py` | worker process, pipes, run in progress, queues of the driver | start, run, cancel, shut down, reload, restart after a crash | completion events without an id; a crash with commands in flight; restarts asked for from three places |
| **Restart watcher** `core/restart_watcher.py` | the restart request in the database | request, poll, clear | a new request erased by the handling of an old one |
| **Lead manager and HTTP API** `core/leads/manager.py`, `api/` | leads, their stored sessions, channels and subscribers | create, select, post a message, stream events | concurrent requests for one name; awaits between look-up and insertion |
| **Console** `cli/__init__.py` | two queues and two events of three tasks | read a line, run, answer, wake for mail | to which run a line belongs that is typed while the state changes |
| **Messaging router** `messaging/router.py`, `store.py` | inbound claims, chat-to-session mapping | receive, claim, run a turn, reply | redelivery, two first messages of one chat, failures between claim and run |
| **Messaging adapters** `messaging/service.py`, `adapters/`, `webhook_server.py` | credentials, adapters, poll loops, one web server's routes | connect, disconnect, restore, shut down | a step of several fails; several platforms on one server |
| **Providers** `providers/` | one streamed call; the transcript that a stateless provider is sent | attempt, retry, fall back, translate | what was shown before a failure; calls without outputs |
| **MCP client** `integrations/mcp/client.py`, `tools/mcp_tools.py` | a server process, locks, the manager's cache | handshake, request, cancel, close at the end of the run | calls share one pipe; late answers; interrupts |
| **Memory** `memory/` | points in Qdrant, locks per session | extract in the background, remember, update, forget | the cursor of a session is the end of its newest memory |
| **Attachments** `storage/attachment_store.py`, `integrations/attachments/` | rows of `message_attachments`, copies under `.feather/attachments`, indexing tasks | parse, validate, save, build the request, discard, index | a thread copies on after an interrupt; discarding among other turns' commits |
| **User profile** `storage/user_profile.py` | `user.md`, a cache per process | read, create, update, delete, append | threads that an interrupt leaves behind; other processes |
| **Configuration** `config/`, `FeatherRuntime.apply_config_change`, `tui/config_screen.py` | layers of YAML files, each process's copy, the agents built from it; pending edits of the screen | load, set, reset, apply, reload in the worker, edit, save | which process has read which version; edits that depend on each other |
| **Setup** `setup/`, `/qdrant` in `cli/commands.py` | files of `~/.feather`, the Docker container | migrate, ask, write, init, remove | kills between two files that belong together |
| **Log triage bot** `core/log_triage_bot.py` | file cursor, fingerprints reported | read the tail, report | rotation, order of the log, caps |
| Other tools, skills, resources, observability | caches, files | | single calls, or read-only; not modelled, see section 7 |

How they interact: tools run in the agent loop and call the stores. A spawn starts
a process that runs an agent loop of its own on the same database. The reaper, the
children's `request_input`, `send_message`, the log triage bot and the cron dispatcher
put rows into the mailbox; the agent loop of the addressee drains it between two provider
calls. The router, the API, the console and the terminal UI's driver call `run` of an
agent, in this process or through a supervisor; the loop calls a provider, MCP servers
and the memory. A change of the settings rebuilds agents in the process and, by a command,
in the worker. The user's input, the model's choice of tools and the clock come from
outside.

What makes the components correct:

* *Mailbox*: an inbox never exceeds its cap; only the oldest message of a full
  inbox is dropped; nothing is acknowledged that its recipient did not get; an
  answered question stays closed; a sender's messages arrive in order.
* *Life cycle*: one final report per launch, and at least one unless a fault
  explains it; no child without an owner; no completed task without an output.
* *Cron*: an active job has a next run, fires once for it, and is dispatched
  while the loop runs; a one-time job completes only after its message is sent.
* *Agent loop*: one turn of a session at a time; what a session stores reaches the model
  with the next message, whenever the history is replayed; no tool call is left without an output, unless
  a run is broken off between the two; mail cannot keep a run going for ever.
* *Lead worker*: a result belongs to the run that asked for it; a request to restart
  is served; no worker outlives its UI.
* *Messaging*: an inbound message is given to an agent once; one session per chat; no
  poll loop without an adapter.
* *Providers, MCP*: the text of a turn that is returned is the one that was shown, unless a
  stream stalled after some of it; a call gets its own answer; no server outlives the run,
  unless an interrupt left it or two calls started one each.
* *Settings*: what was reported as applied was read and is in use; the screen gates fields by
  what will hold once the edits are saved.
* *Attachments, tasks*: a message whose run starts has all its rows and copies, one that is discarded leaves none; the
  last entry of a timeline is the task's status, after a change that no other overlapped.
* *Files*: profile, setup and a lead's session fit together whenever they are read.

The hazards behind these properties, with the line where each bites, are the list
`hazards` of `PROJECT.json`.

## 2. Modules

| Module | Models | Uses |
|---|---|---|
| `MessageTable` | rows of `agent_messages` and the effect of each SQL statement on them | |
| `AgentMailbox` | the mailbox with every store call atomic: what the store promises | `MessageTable` |
| `AgentMessageStore` | the store statement by statement on shared connections; implements `AgentMailbox` | `MessageTable`, `INSTANCE AgentMailbox` |
| `SubagentLifecycle` | registry, processes, reaper, tools, shutdown, task status | |
| `CronScheduler` | ticks, dispatches and the cron tools | |
| `AgentLoop` | one session: callers, lock, turns, drains, tools, compaction, failures | |
| `LeadWorker` | the UI's driver, supervisor, worker, restart watcher | |
| `MessagingRouter`, `MessagingService` | inbound messages; connecting platforms | |
| `ProviderTurn`, `TurnTranslation` | one call of a provider; the request made of a transcript | |
| `McpClient` | clients, server processes and calls of one session and one server | |
| `MemoryWriter`, `UserProfile`, `LogTriage` | the write paths of memory and profile; the bot | |
| `ConfigChange`, `ConfigScreen`, `ModelCatalog` | a setting from file to agent; the settings screen; catalog inheritance | |
| `Onboarding` | wizard, migration, memory container | |
| `ApiHub`, `ConsoleDriver` | leads over HTTP; the console loop | |
| `Attachments`, `TaskLedger` | files dropped into a message; plans, tasks and their timeline | |
| `ServiceSlots` | the variables that the services of the last seven rows take turns with | |
| `HandedServices` | seven services that hand something on: the router, the adapters, the provider, MCP, the console, memory, the triage bot; one of them in each behaviour | `ServiceSlots`, the seven by `INSTANCE` |
| `KeptServices` | seven services that keep something: settings and their screen, set-up, profile, hub, attachments, tasks; one of them in each behaviour | `ServiceSlots`, the seven by `INSTANCE` |
| `Services` | those fourteen, and the translators and the catalog | `HandedServices`, `KeptServices`, the two by `INSTANCE` |
| `AgentMailboxProofs`, `AgentMessageStoreProofs` | theorems about the mailbox, the store, and that one implements the other; both begin with the same lemmas about the table | |
| `SubagentLifecycleProofs`, `CronSchedulerProofs`, `AgentLoopProofs`, `LeadWorkerProofs`, `HandedServicesProofs`, `KeptServicesProofs` | theorems about the module each is named after | |
| `MCAgentMailbox`, `MCAgentMessageStore`, `MCSubagentLifecycle`, `MCAgentLoop`, `MCServices` | constants and symmetry of the small instances | |

`AgentMailbox` is the composition point of the core: `AgentMessageStore` implements it,
and what the other modules do with the mailbox is one of its actions (the reaper's report,
the cron prompt and the triage summary are a `Send`; the drain in `AgentLoop` is
`SelectGroup`, `PersistGroup`, `MarkDelivered` of a session, as a step of its turn).

### MessageTable, AgentMailbox

`table` maps message ids to rows; a row has the sender, recipient, status, the two
correlation fields and the time stamp that orders an inbox. Bodies and session ids
are left out: nothing depends on them (an address is the pair the code compares).
`Send` is the transaction of `send`: the cap is enforced on the rows PENDING before
the insert, then the row is inserted, then the question it answers becomes
RESPONDED. `ClaimReply` is `claim_reply`. A drain is three steps, because
`_drain_agent_inbox` awaits between them and may be killed there: `SelectGroup`
(the messages of the sender that has waited longest), `PersistGroup` (they are
written to the session: the recipient *has* them, history variable `handed`) and
`MarkDelivered`; `AbandonDrain` ends it anywhere.

### AgentMessageStore

A process opens one connection for the store and all of its coroutines share it, so
`ConnOf` maps coroutines to connections. One action per statement. `work` is the
uncommitted table of the single write transaction, `writer` the connection that has
it. Three facts about `sqlite3`, taken from how the code uses it and marked external
in the map, carry the model: an UPDATE or INSERT opens a transaction if none is
open on its connection; a BEGIN inside one is an error at once; writers on other
connections wait, and give up in the end (`Busy`). Giving up at a BEGIN IMMEDIATE leaves nothing behind. The
UPDATE of `mark_delivered` has its implicit BEGIN before it, and nothing rolls that back:
the connection stays in a transaction without the lock (`deferred`), which the next `send` on it finds
nested, and the next commit ends. `Cancel` is an
`asyncio.CancelledError`, which `send`'s `except Exception` does not catch: neither
commit nor rollback runs. `failed` records which calls were cancelled in their transaction (`left`), refused the
lock (`busy`) or refused as nested. `Crash` is the end of a process. The refinement mapping
reads the abstract table from `db`.

### SubagentLifecycle

All but the children runs on one event loop; a step is what happens between two
awaits that really wait. `calls` is a batch of tool calls of the lead
(`asyncio.gather`); the next batch starts when all have returned. A launch goes
start, launch, register, record, or through `undo` when the registration is
refused. `terminate_agent` and `task_stop` remove the entry first (`ClaimToKill`), then
`Kill`, `ReportKill`, and `CloseTask` for `task_stop` alone. The reaper keeps the
part of its snapshot that is still ahead in `todo`; `Advance` goes to the next exited
entry and claims **whatever is registered under that session id by then**, as
`registry.remove(session_id)` does. A shutdown looks at no tool call: whoever calls it has cancelled its run, so
`BeginShutdown` drops the calls where they are (`CancelCalls`), as an interrupt does. Children write to the task store on their own.
`Faults` says which of launches, task store, mailbox, interrupts and SIGKILLs fail.

### CronScheduler

`tick.at` says which await of `run_pending` comes next: `send`, `sent` (before
`mark_job_succeeded` reads the row), `failed` (before `mark_job_failed` does),
`write` (before the UPDATE computed from it), `reread`. An `update_cron` is likewise
a read and a write (`edit`). `batch` is `jobs_to_dispatch`, oldest first; `Abort` is an
exception that leaves `run_pending`, whose `finally` takes only the current job out of
`_dispatching_job_ids`. Cron expressions are periods, one-time schedules dates; time
is a bounded natural number.

### AgentLoop

One session, and coroutines that call `run` or `resume_on_inbox` under its lock. The
turn is a program counter over the awaits of `_run_loop`: load, bind the provider, drain queue and
inbox, persist, ask, run the tools, compact, end. What a request carries is a set of
items (texts, mail, calls, outputs) and what the *model has been told* follows from the
provider cursor, as the code's cursor makes it. A cancelled turn leaves what it has
written; a change of the provider between two runs drops or keeps the cursor as `bind` does.

### LeadWorker

The worker has its pipe of commands and one queue of events that `run`, a reload and
`shutdown` all read. `Ends` are the two completion events, which carry no id; `seen`
keeps which run's result was returned for which call. The driver's states are those of
the screen's `PerLeadState`. The troubles are restarts from the slash command, the watcher and
the exit, configuration reloads, a look at another lead, a worker that dies or hangs,
a failing spawn or store; each behaviour has `MaxTroubles` of them.

### The services

Each is a module of its own; `via`, `transport`, `api`, `inWorker` and `project` are choices
that the initial state makes and nothing changes.

* `MessagingRouter`: a handler's awaits between the claim in `messaging_inbound_dedup`, the chat's
  session and the agent; a message starts a run of an idle session (`StartRun`) or is queued behind whichever run is
  busy in it (`Enqueue`), the router's or another caller's; Telegram's offset, or webhook posts that are repeated until one is
  answered.
* `MessagingService`: `connect`, `disconnect`, restore and `shutdown` step by step under one lock,
  with the shared web server's routes.
* `ProviderTurn`: attempts, stream events, a timeout before or after something was shown,
  fallback and widened routing; what the end of a stream accepts, a call without all its
  arguments included. `TurnTranslation`: transcripts the loop can build, and the two translators as functions on them.
* `McpClient`: process, handshake, id of each request, a late answer in the pipe;
  the manager's cache and its closing with the run. A process is started across an await under one of two locks, the
  handshake's or the request's (`Spawned`, `SpawnFails`): the later one takes the place of the other, which nothing ends any more.
* `MemoryWriter`: extraction window, groups, update as delete and insert, a lock per session. The cursor
  is a message, and a message whose files cannot be saved is deleted (`Discard`): a window whose cursor is gone starts at the
  first message.
* `UserProfile`: `stat`, `read`, change and `rename` of a thread whose caller may be interrupted.
* `ConfigChange`: two layers of each file, each process's copy and agent, applies in order.
  `ConfigScreen`: edits, the editor and the gating of fields. `ModelCatalog`: `_resolve_inherits`
  against the closure it should compute.
* `Onboarding`: each file the wizard and the migration write, in order, with kills between them.
* `LogTriage`: the tail's reach, the cap, the high-water mark, the bounded memory of fingerprints, which a relaunch of
  the bot empties.
* `ApiHub`: requests for one name, each between two of its awaits. `ConsoleDriver`: reader, driver and
  watcher over two queues, two events and the input queue.
* `Attachments`: what a dropped token is taken for, then message row, copy by a thread, attachment row, request, and the
  discarding of all of it. Sessions share the store's connection, so a commit publishes what others have written; an
  interrupt lets the statement or the copy that is under way go on. Files are six sorts by kind, size and name. The text
  of a message is never rewritten (`update_message_content`, `base.py:993`): `parse.py:164-179` puts the same text into
  `provisional_display` and `display_text`, so the two never differ.
* `TaskLedger`: finding or creating a plan, a task and its entry, an update, the look at the row, the entry in the
  timeline, each a step between which other calls come and the call may be cut off.

They share no state, so `Services` puts them in one module, checked in one run: its first variable says which service
a behaviour is of, its others (`ServiceSlots`) are that service's variables under a substitution, and its properties
say one thing of several services each (`KeptIsUsable`: what is on disk fits together). A state of one service is
never a state of another, so this is the union of the sixteen runs, not their product. `HandedServices` and
`KeptServices` are the two halves of it that are proved about. A behaviour of `Services!Spec` is one of `HandedSpec`,
one of `KeptSpec`, or one of the translators or the catalog, of which the properties of the two modules say nothing:
so what is proved of `HandedSpec` and `KeptSpec` is what the run checks of `Spec`.

### Steps that are merged

An UPDATE and the commit after it in the task store and the cron store; one entry of the
shutdown's loop (claim, kill, task status); the BLOCKED status of `request_input`
and the message it sends; registry calls, whose lock is never held across a wait.
The cron model has one process that polls (see section 6).

## 3. What TLC checks

Every run finishes within three minutes; bounds are chosen so that what a property is about
happens: a full inbox, a question and its answer, two coroutines in one transaction, a
resume during a reaper pass, a job changed in its dispatch, a run cancelled between a tool call and
its output, a worker restarted with a command in its pipe.

| Run | Instance | Properties |
|---|---|---|
| `mailbox` | 3 messages, 2 agents, 1 question, cap 2 | `PendingBounded`, `DeliveredWasHanded`, `AnsweredIsClosed`, `StatusMovesForward`, `DropsOldestOfFull` |
| `store_isolated` | two processes of one coroutine each, both reading and writing, crashes, cap 2 | `PerSenderOrder`, refinement `ImplementsMailbox` |
| `store_shared` | three coroutines on two connections; the two loops can be cancelled, the reaper not; cap 1 | `ContendedWritesBackOff`, `DrainedWasHanded`, `NoStrandedTransaction` |
| `subagents` | 2 tasks, one of them from an earlier runtime, 2 launches, 2 concurrent calls of spawn, resume and stop, with failing stores and interrupts | `TypeOK`, `AtMostOneReport`, `NoOrphan`, `CompletedHasOutput` |
| `subagents_live` | 1 task, 2 launches, all five tools, failing launches, SIGKILL | `ExitIsReported` (liveness) |
| `cron` | 1 job with periods 1, 2 and dates 1, 2, three updates, times to 3, failing sends and stores, halts | `ActiveIsScheduled`, `SentOncePerTime`, `CompletedWasSent` |
| `cron_batch` | 3 jobs, ticks of 2, deletes, failing store | `DueIsDispatchedOrStranded` (liveness) |
| `agent_loop` | 2 callers, 2 texts, 1 message, queue of 1, 3 turns, one trouble of seven kinds | `OneTurnAtATime`, `NothingForgotten`, `CallsAnswered`, `ExternalTurnsBounded` |
| `agent_killed` (violated) | 1 caller, 1 message, one crash | `MailIsTold` |
| `leads` | 2 texts, 2 runs, 2 troubles of eight kinds | `ResultIsOwn`, `OneWorker`, `RequestIsServed`, `RequestIsCleared`, `WorkerFollowsTui` (the last two liveness) |
| `leads_after_restart` (violated) | the same | `NextMessageContinues` |
| `services` | sixteen services, see below | `TypesOK`, `MessagesHandledOnce`, `ChatKeepsSession`, `NothingOutlivesItsOwner`, `AnswersMeetTheirQuestions`, `TurnsAreAsShown`, `ComputedAsStated`, `SettingsAreAsTold`, `KeptIsUsable`, `TakenOnce`, `WrittenWhole` |

`TypeOK` and `TypesOK` are the type invariants. The other modules define theirs as a
description of their variables; those of the mailbox, the store and the scheduler are proved.

Why the bounds are enough. Three messages and a cap of 2 overflow an inbox, by a
competing pair too; a fourth repeats the overflow. One correlation id has a question, a
reply and a competing reply. Two calls and the reaper are all that can compete for one
launch; a third party is the shutdown, which is in the instance. The invariants of the cron job
concern one job at a time, hence one job with
many changes; the limit and the rest of a batch need three jobs in ticks of two, and no
changes but deletes. In the agent loop two callers compete for the lock while a third party, the user,
fills a queue of one; three turns are a call, its output and an answer, which is where cancellation,
compaction or a change of provider can come between. Two runs and two troubles of the worker are a run
whose result comes late and the run that might be given it, and a restart that meets another one.

The services: two chat messages handled three times with one failure, restart or reconnection (a redelivery and
a competitor); three commands and two failures over three platforms (two share the web server); two attempts
with two text deltas and one call; transcripts of six items with two calls in a turn; three calls, three server
processes and one bad event of MCP (a call that waits while another times out, and the process after; a handshake, a request
and what they are asked beside); a session of three turns and one of one, two groups (a memory, its update by the other session, and a
window after its message was deleted); two writes, two dirty fields; three catalog entries (a chain, a cycle, a missing parent);
two commands at each of two terminals; three calls of two processes' profile stores; four log lines with three errors over
two files; three requests, one browser and two starts of the API; three lines, two questions and one message at the console;
two messages of up to two files with three interrupts, errors or kills (one that is discarded while the other commits); three calls
of the task tools with one cut off (an overlap, and a third call that sees what it left).

What the properties say of larger instances is the business of section 5.

Deadlock is checked for `subagents*`, `cron` and `agent_loop`. It is not where the system may stop in
the model: message ids are used up (mailbox), the clock is at its horizon
(`cron_batch`), the user has typed all there is to type and exits (`leads`), or a service is done.

*Exceptions in properties.* Some things the code cannot promise, and the property names
them rather than leaving them out of the model. Section 6 says how the code comes to each,
and which of them a line of the repository rules out.

| Property | Does not hold for |
|---|---|
| `PendingBounded` (of the store) | coroutines that share a connection |
| `NoStrandedTransaction` | the connection of a call that was cancelled in its transaction, or of a `mark_delivered` that was refused the lock |
| `ContendedWritesBackOff` | a call refused the lock after one was cancelled on another connection; BEGINs on one connection, or after a call on it failed |
| `NoOrphan` | a child that the reaper took for its predecessor |
| `SentOncePerTime` | a dispatch cut off after the send, a row overwritten by an update read before it |
| `DueIsDispatchedOrStranded` | jobs stranded by an exception, jobs behind those |
| `NothingForgotten` | while a cursor or saved inputs stand for the history: what a bounded or broken-off run had taken and not sent, and what a request without a replay left out; a cursor of another provider |
| `CallsAnswered` | the calls of a run that was broken off before it saved the outputs; a cursor of another provider |
| `ResultIsOwn`, `RequestIsServed` | the runs after an interrupt; a request the new worker makes before the watcher's clear |
| `McpClient!ClosedAfterRun` | a process whose client an interrupt met while it was being built or closed; one that another took the place of |
| `ProviderTurn!ReturnsWhatWasShown` | a stream that stalled after some of its text |
| `LogTriage!ReportedOnce` | a rotation between stat and open; another launch of the bot |
| `MemoryWriter!WindowIsNew` | a session after a window that found its cursor's message gone |
| `UserProfile!ToldIsKept` | a change while a thread that an interrupt left, or another process, was at the file |
| `ApiHub!RestartResumesShown` | requests of which one wrote its session while another was resuming one |
| `ConfigScreen!ForeseesSave` | a pending edit of the active provider; a project's file |
| `Onboarding!SetUpIsUsable` | a yaml without the packaged lines |
| `Attachments!AttachmentsFollowMessage` | a clean-up that was itself disturbed; an interrupt while the message is stored may leave it alone (`CutIsBare`), a kill some of its rows (`RowHasCopy`) |
| `TaskLedger!TimelineIsTrue` | a task from a change that another overlapped, or that was cut off, to the next that was neither |

## 4. Fairness

`SubagentLifecycle!FairSpec` has weak fairness of the reaper's steps and of each tool
call's; `CronScheduler!FairSpec` of the scheduler's steps. Both loops poll for ever and catch
what a pass raises, and asyncio resumes every coroutine whose await is done. Nothing
is assumed of children, the lead, the user, the clock, or of whoever restarts a
process; a store that fails for ever is an exception in `DueIsDispatchedOrStranded`.
`LeadWorker!Fairness` has it of each worker's pipes and command loop, of the watcher, of the steps of a restart and of
whoever reads the supervisor's events: both processes' event loops run what is ready, waits with a timeout end, and a run
ends unless its process hangs (a hung worker takes no steps). Nothing is assumed of the user.
The mailbox modules and the services have no liveness properties: whether a message is read
depends on the agent loop, and what a platform, a model or a terminal does next is up to it.

## 5. What is proved

With TLAPS, for every value of the constants:

| Theorem | States | Assumption beyond the module's |
|---|---|---|
| `AgentMailboxProofs!TypeCorrect` | `Spec => []TypeOK` | |
| `AgentMailboxProofs!InboxBounded` | `[]PendingBounded` | |
| `AgentMailboxProofs!NothingAcknowledgedUnread` | `[]DeliveredWasHanded` | |
| `AgentMailboxProofs!AnswersCloseQuestions` | `[]AnsweredIsClosed` | |
| `AgentMailboxProofs!StatusesMoveForward` | `StatusMovesForward` | |
| `AgentMailboxProofs!OnlyOldestDropped` | `DropsOldestOfFull` | |
| `AgentMessageStoreProofs!StoreImplementsMailbox` | `ImplementsMailbox` | `Isolated` |
| `AgentMessageStoreProofs!ConcurrentSendsBounded` | `[]PendingBounded` | `Isolated` |
| `AgentMessageStoreProofs!TypeCorrect` | `[]TypeOK` | |
| `AgentMessageStoreProofs!NoneStranded` | `[]NoStrandedTransaction` | |
| `AgentMessageStoreProofs!DrainedAlwaysHanded` | `[]DrainedWasHanded` | |
| `AgentMessageStoreProofs!SenderOrderKept` | `[]PerSenderOrder` | one coroutine per address |
| `AgentMessageStoreProofs!ContentionBacksOff` | `[]ContendedWritesBackOff` | |
| `SubagentLifecycleProofs!TypesHold` | `[]TypeOK` | |
| `SubagentLifecycleProofs!ChildrenHaveOwner` | `[]NoOrphan` | no SIGKILL of the runtime |
| `SubagentLifecycleProofs!ReportedOnce` | `[]AtMostOneReport` | |
| `SubagentLifecycleProofs!CompletedTasksHaveOutput` | `[]CompletedHasOutput` | no `task_update` |
| `CronSchedulerProofs!TypesAlways` | `[]TypeOK` | |
| `CronSchedulerProofs!ActiveAlwaysScheduled` | `[]ActiveIsScheduled` | |
| `CronSchedulerProofs!CompletedAlwaysSent` | `[]CompletedWasSent` | |
| `CronSchedulerProofs!OncePerTime` | `[]SentOncePerTime` | |
| `AgentLoopProofs!TurnsNeverOverlap` | `[]OneTurnAtATime` | |
| `AgentLoopProofs!DrivenTurnsBounded` | `[]ExternalTurnsBounded` | |
| `AgentLoopProofs!PausesAreComplete` | `[]CallsAnswered` | |
| `AgentLoopProofs!NothingIsForgotten` | `[]NothingForgotten` | |
| `LeadWorkerProofs!WorkersNeverOverlap` | `[]OneWorker` | |
| `LeadWorkerProofs!RequestsAreServed` | `[]RequestIsServed` | |
| `LeadWorkerProofs!ResultsAreOwn` | `[]ResultIsOwn` | |
| `HandedServicesProofs!MessagesAlwaysHandledOnce` | `[]MessagesHandledOnce` | |
| `HandedServicesProofs!ChatAlwaysKeepsSession` | `ChatKeepsSession` | |
| `HandedServicesProofs!NothingAlwaysOutlives` | `[]NothingOutlivesItsOwner` | |
| `HandedServicesProofs!TurnsAlwaysAsShown` | `[]TurnsAreAsShown` | |
| `HandedServicesProofs!AnswersAlwaysMeet` | `[]AnswersMeetTheirQuestions` | |
| `HandedServicesProofs!AlwaysTakenOnce` | `[]TakenOnce` | |
| `KeptServicesProofs!ToldAlwaysKept` | `[]ToldIsKept`, the profile's part of `KeptIsUsable` | |
| `KeptServicesProofs!KeptAlwaysUsable` | `[]KeptIsUsable` | |
| `KeptServicesProofs!SettingsAlwaysAsTold` | `[]SettingsAreAsTold` | |
| `KeptServicesProofs!AlwaysWrittenWhole` | `[]WrittenWhole` | |

The modules assume little: sets are finite, the cap is positive, "none" values are not members of the sets they stand
beside; bounds are numbers; the console's queue holds a line or more (`UserInputQueue` refuses another capacity,
`core/session/input_queue.py:36`), the fingerprints of errors are numbers beyond the mark of none, and a call of the
profile's tool is of a process. Nothing is assumed of the set-up's providers, the hub's requests, the files' turns or
the ledger's calls. The theorems with an assumption of their own are false without it: section 6 says what the code
does then.

*Mailbox.* `PendingBounded` is inductive with `TypeOK` once the effect of `EnforceCap` on the
set of pending rows is a lemma: it removes one row of the recipient when there are
at least `Cap`, and none of anyone else. `DeliveredWasHanded` needs the stage of the
drains: a reader about to mark has persisted what it will mark. The two action properties follow from
the effect of each statement on a row and the types alone.

*Store.* A call is a chain of statements, and any other coroutine of its connection may commit, or leave behind,
what it has written so far. What holds in spite of that is said of two tables, `db` and `Newest` (the writer's
view, or `db`): each statement *continues* the table it works on (rows stay, keep their columns, and are never
pending again: `Continues`), and `Newest` continues `db`. From that follow `Rows` (an id in flight is not a row yet; what a
call has selected are rows), `Delivery` (a drained row is DELIVERED in either table only if it was handed over) and so
`DrainedWasHanded`, for all ways of sharing and cancelling. `PerSenderOrder` needs one coroutine per
address, since two of them may insert in the other order than they took their time stamps: then what a sender has in flight is
younger than its rows (`Stamped`), a group that was selected holds all the elder rows of its sender (`ClosedIn`), and
no write between its selection and its mark adds an elder one (`InOrder`). `NoStrandedTransaction` is `Held`: the
connection that writes has a coroutine between its first write and its commit, or one that was cancelled there; and
`Lockless`: a transaction without the lock is on a connection that does not write, and of which a call was refused it.
`ContendedWritesBackOff` follows: who is refused meets a writer that no step can end, and that a cancelled call left.

*Refinement.* `Isolated` says that coroutines have a connection and an address each and are not cancelled: one process
per agent, with no other task at the store. A connection is in a transaction exactly while its coroutine is between
its first write and its commit (`Holding`), so what the coroutine sees is `db` and its own changes: at each stage
`work` is what the statements so far make of `db` (`Progress`), and at its commit the whole transaction of
`AgentMailbox`. The guards of `Send` hold because ids, stamps and correlation ids in flight differ from each other and
from those in the table (`Separate`). `CommitIsOne` maps a commit to `Send`, `ClaimReply` or `MarkDelivered` (a claim that found
no reply is a stutter), `EndsEarly` whatever ends a call before that to `AbandonDrain` or a stutter, `StepIsOne` and
`NextIsOne` the rest. `ConcurrentSendsBounded` is the bound that the comment on `BEGIN IMMEDIATE` claims, on the store
itself.

*Life cycle.* `TypeOK` alone is not inductive: a call past its first stage has a launch, and
that launch a task and a session (`CallKnown`), and so has what the reaper delivers
(`ReaperKnown`). Reporting once is a matter of who holds the *right to report* on a launch: the
registry, a call that kills, or the reaper. `OneRightEach` says that
at most one holds it, that it is worth one report, and that nobody holds it once the
report is posted; claims move it, since `registry.remove` and the step that takes it
are one step. `NoOrphan` is inductive, given the types. For `CompletedHasOutput` the missing
piece is `OutputFirst`: a child between the two writes of `task_output` belongs to a task
that has its final output already, and outputs are never withdrawn.

*Scheduler.* `Typed` adds to the types what each part of a dispatch knows: its job is in the batch with a time,
the row it will write is *writable* (an active one has a next run), and so is the row of an update in
progress. That is all `ActiveIsScheduled` needs, since both writers write whole rows computed from a present
one. `CompletedWasSent` rests on `SentBefore`: a dispatch that will write COMPLETED has sent. For `SentOncePerTime` three
values may be the time of the next prompt: the batch's, the row's and that of the update in progress.
`Unsent` says that none of them was sent for, or the prompt is *in flight* (sent, and the row does not say so yet), or
an excuse is recorded or, for a stale update, will be when it is written. What is written by a dispatch is later
than its start (`NextFireLater`, and a positive retry), and everything sent for is not (`FiredInTime`).

*Agent loop.* `TakesTurns`: the coordinator counts exactly the callers that hold or wait for the lock, all of them refer to
the one lock object there is, and the loop is at a stage for the one that is inside. `Counted` bounds the requests made
without a tool call by what is left of the keep-alives. `Carried` says, per stage of the turn, what is in the
request that is in hand and what of it is stored; from it `Paired` (a call in the transcript has its output, or the turn still
has it to write) and `Remembered` (each stored item is known to the model, behind the cursor, saved as pending input, in
hand, or recorded as dropped) are inductive, each by a case per action.

*Lead worker.* `Held`: the two restarters are not both inside the restart, one in it has a handle exactly until the fork,
and only the handle's process lives. `Served` bounds how far requests can be ahead of starts. `ResultIsOwn` is about events
without ids: while the lead waits, at most one ending event is on its way and it is that command's, and it is in one place only:
the event queue, the worker's run, its commands or the pipe (`Carrying`); otherwise none is (`Clear`). An `eof` comes last
and only from a process that is gone (`EofLast`).

*Router.* A claimed message is in one place: with one handler, in one session's queue, or given to a run, and each time it is
given, once more than its handling failed, it was in a place where it was not (`RCounted`). What runs in a session is in the set
of active sessions, by one handler (`RRunning`). A batch is all that lies beyond the offset, its first message is its handler's, and
every message up to the offset has a handler that is done (`RPolled`). Handlers are taken in order, so a free one is the
next (`RNumbered`). The proof is of `HandedServices` with `service = "router"`: each step there is a step of the router, or
leaves its variables; and so for every service below, of which an invariant of its own (`AInv`, `MInv`, ...) is shown to hold at
the start and after each of its steps.

*Profile.* Unless threads have met there is one at a time (`UAlone`), since one whose call waits has its
process's lock (`UHolders`). Then what it and the caches know of the file is what the file says (`UKnown`): a cache is tried
against the file's key, which every rename makes larger than all that are known.

*Provider.* Between two attempts nothing is on the screen; while a stream is read what it has delivered is, unless one
stalled before; so it is when the turn is returned (`PTold`).

*Adapters.* What is left to restore is stored and not up, no command is typed before the last of it, and a platform that is
being started is not up (`AStarting`): so whatever starts a poll loop, the adapter it is for becomes known in the same step or
the loop is stopped. What is stored has come up once, or is about to be stored for that (`AProven`).

*MCP.* `MOwned`: a live process belongs to the client that is cached, or to the one being built, whose call has the
manager's lock (`MLocked`) and knows the process or is closing it, or to a client that an interrupt cut short, or
another process took its place. When the run closes, the cached client goes, and no call builds. `MAnswered` is about
the pipe: the ids a client has used are below its next one, and whatever its processes were asked or have written
under the id a call reads for is that call's (`MReads`), so an answer that comes late is passed over, even on a pipe
that calls share.

*Console.* `DAwaits`: an answer is put down only while the driver awaits one, at most one, and it was typed for the last question.
`DKept`: every line typed is given, dropped or in one of the three queues; each step moves it between two of them.

*Memory, triage.* No memory of a session ends beyond its turns, and a message past its newest memory is past all of
them, though the one it ends with may be gone; what the job with the session's lock is about to write reaches to the
end of its window, before which all others end, unless a window of the session was built without its cursor (`WHolds`,
`WInv`). Unless a rotation came between, what a scan found is of the file the bot looked at and beyond its mark, and
what was shown of that file is not (`LOnce`).

*Set-up.* `OOrdered` reads off the order of the writes: the answers' keys are among the answers, then in `.env`; `app.yaml` is there
before it is changed, and what it says is served by `.env` before the marker is written. A kill between any two keeps all of it.

*Hub.* The requests for a lead that have written its row and not gone on stand in line, the row is of the last of them
(`HLined`); with the line empty, the session on the screen is that of the row, unless a request was overtaken
(`HShown`).

*Settings.* An apply that waits for the worker has been read by the UI, one that is reported by every process
(`CRead`); the model the agent was built with is the one in the files as long as nothing was written after the apply
(`CUsed`). On the screen only the two fields of the agent can be told to inherit, by an edit; nothing that is stored
says so (`SInherits`). So once the edits are saved each field has what its edit, its stored value or its default
gives, in that order, which is how the screen looks it up.

*Attachments.* `FState` says of one turn, by where it is, which of its rows and copies there are, in the connection's
view, in the committed database and on disk: those of the files before the one it is at and none after. On its way
out, unless its clean-up was disturbed, every copy has a row in view until the list is read and is on the list
thereafter, and rows go before copies. Other turns' steps touch none of it but for a commit, which makes the view the
database (`FTyped`, `FIndexed`).

*Tasks.* `BPlanned` counts the plans a call saw when it looked for its path: a call that makes one saw none with its
path, so of two plans with one path the later was made by a call that looked before the earlier was there. `BLogging`:
unless calls overlapped or one was cut off, at most one call is between its update of a task and the entry, it will
write the task's status, and with none the last entry is that status.

Only model-checked: liveness (`ExitIsReported`, `RequestIsCleared`, `WorkerFollowsTui`, `DueIsDispatchedOrStranded`: temporal
properties under fairness are out of the prover's reach), the types of the agent loop's inbox and of the lead worker in full (what
`SelectSeq` returns is an induction over a sequence; the theorems prove and use the parts they need),
the types of the services in full (`TypesOK`), and `ComputedAsStated`: what the translators make of a transcript and what the catalog's
entries inherit are folds over data, whose proof would be an induction over that data.
No module has RECURSIVE operators.

## 6. What the models show about the code

Two runs are violated on purpose: a line of the repository claims what the code
does not do.

1. `agent_killed`: mail is acknowledged in the drain, before the request that carries it. When the process dies in between, the
   restarted one does not "re-drain the same inbox" (`docs/architecture.md:174`), which is empty, and the provider's cursor goes
   on from before the mail. `MailIsTold` is violated without a kill as well: by the mail whose drain meets the keep-alive limit
   (`base.py:378`), which the run ends without sending, and by a compaction between two turns of a run. That clears the
   cursor (`compaction.py:114`), and the run's next request is made without it and without a replay: `base.py:391`
   reads the session again, so nothing of the old conversation is sent, though "future turns will replay" (`compaction.py:117`).
2. `leads_after_restart`: `/restart-lead` while the lead waits for an answer puts the screen's state to idle
   (`tui/app.py:1440`) and leaves the driver waiting for the answer. The next message is queued as a new run,
   which nobody reads.

Met on the way, and part of the models' behaviour (a property's exception, or a case that a property leaves open):

*Mailbox.* The cap holds per transaction, but coroutines of one process share a connection: the commit at the end of a
`mark_delivered` ends the transaction of a `send` that has counted and not inserted, a writer of another process gets
in between, and "two concurrent writers" pass the cap check after all (`agent_message_store.py:89`). A second `BEGIN
IMMEDIATE` on one connection fails at once rather than wait (`storage/connection.py:22`). A cancelled `send` leaves
the write transaction of its connection open, so that others are refused the lock; a `mark_delivered` that is refused
it leaves its implicit BEGIN, so that the next `send` on its connection fails. A cancelled `claim_reply` can lose an
answer that another coroutine's commit published as claimed. `request_input` can time out just before its answer
arrives, which then stays in the inbox.

*Sub-agents.* The reaper tests the return code of a snapshot's process and removes what is registered *now*: after a
stop and a resume, a running child, not one of "any that exited" (`reaper.py:119`). It removes the entry before it
writes, so a store error loses the report, as does an interrupt of `task_stop` or `terminate_agent` after its claim.
`task_resume` tests that no process is registered: a task resumed during the reaper's delivery gets its predecessor's
verdict. Two spawns of one queued task in a batch both launch. A spawn's late write of RUNNING can overwrite the
verdict about a child that exited at once; `task_stop` writes STOPPED over a completed task; `terminate_agent` leaves
the task RUNNING (`terminate_agent_tool.py:171`). SIGKILL of a runtime leaves its children running.

*Cron.* An exception in one dispatch leaves the rest of the tick in `_dispatching_job_ids` (`cron_scheduler.py:116`): these
jobs never fire again and keep using up the limit. An `update_cron` and a dispatch of the same job overwrite each other:
a reschedule during the dispatch of a one-time job is lost as COMPLETED, a pause during a failing one is undone. The
dispatching set is per process, so two runtimes on one database can each send a prompt for one due time; the model has one.

*Agent loop.* `rebuild_agent` does not "pick up the in-flight conversation" when the provider differs: a response id of
one provider is sent to another (`runtime/root.py:434`). A run that is interrupted between a tool call's request and
the saving of its output leaves the call without one for the provider (`cut` in `CallsAnswered`): a cursor stands for the
call, and nothing is saved to answer it. Input enqueued after the last drain of a run waits for the next run.

*Lead worker.* After one interrupt in worker mode every later `run` returns the result of the run before it, until a restart
or reload (`supervisor.py:358`). That no run goes on during a shutdown does not hold when another lead is on the screen:
`_cancel_in_flight_run` looks at that one (`tui/app.py:757`). Text typed while the worker is unusable is lost, and so is the
worker's input queue in a restart.

*Console and API.* An exception of a run on an answer ends the console's driver silently (`cli/__init__.py`, also
`tui/__init__.py`). A line typed while the lead is busy can reach it before earlier ones that wait for a run. A full input
queue drops its oldest line; the `QueueFull` branch is unreachable. Two concurrent requests for one lead's name
make two sessions and two channels, and the first driver cannot be reached (`manager.py:165`); a lead's status can stay
"running" (`channel.py:72`); `/input` to an idle lead answers "injected" and nothing drains it.

*Messaging.* A second webhook platform cannot be connected while the first is up (`webhook_server.py:56`); a route that is
left over is served by a stopped adapter. Of two concurrent first messages of a chat the loser runs on a session of its own,
once.

*Providers.* The idle timeout starts over with each chunk, so it fires after some text as well, which
`openrouter_provider.py:584` says it cannot, and the retry shows that text again. A Claude stream that ends without
`message_stop` is accepted, a half-streamed call with empty input; an OpenRouter stream with a `finish_reason` is,
whatever there is of a call's arguments: no property says that a returned call is whole. The Claude translator drops
text that stands beside calls.

*MCP.* `_ensure_process` awaits between its check and its assignment (`client.py:410-434`) and is called under two different
locks: a handshake's last notification and a request that find the process dead both start one, and `aclose` ends the
one that was assigned last. A request that waits for the lock while another times out goes to a new process without a handshake
(`client.py:442`). An interrupt during the making or the closing of a client leaves a server process
(`client.py:570` catches `Exception` only).

*Memory.* A proactive memory moves the session's cursor past turns that were not extracted; deleting the newest one moves it
back. Two sessions that update one memory leave two versions; an update chosen before a delete brings the
memory back. An update deletes before it inserts. A window without results is extracted again, and so is the whole of a session
whose newest memory ends with a message that was deleted (`session_store.py:402-412`).

*Attachments.* An interrupt while the message itself is stored leaves its row with the markers of files that are
nowhere (`base.py:973`, before the `try`), a kill a message with some of its rows. A second interrupt while the
cancelled copy is awaited leaves a copy without a row (`attachment_store.py:153`); a kill after the commit of a
discard leaves its copies, one before it a row whose copy is gone. A text file whose name has no ASCII letters passes
`validate_pending_attachments`, loses its suffix in its stored name and is refused only after it was stored, then
discarded.

*Tasks.* Two `task_create` of one batch with one new `plan_filepath` make two plans; later calls join the newer.
Overlapping updates read the row again before they log (`task_store.py:281`), so the timeline can end with an older
status, or with one twice; an update that is cut off is never logged. `find_task_by_session` returns a finished task
when no other is left (`task_store.py:177` says non-terminal).

*Settings.* A setting of an agent that is written to the user's own file and reported as applied is not what the agent
is built with: the factory reads the project's or the packaged file (`core/agent/factory.py:344`), though such a file
should "still load correctly" (`config/loader.py:617`). The value `get` shows may not be the one in use. `--project`
makes a sparse file that replaces the whole base and does not load (`config/loader.py:100`); the usage text names a
default scope that is not the default (`slash.py:48`). `(reset)` in the screen applies nothing
(`config_screen.py:1185`). Agents with a provider of their own keep its cached instance (`factory.py:182`). The
worker's dry run builds with the old settings (`worker_core.py:353`). The screen's fallback for the provider ignores
an edit that is pending, "(inherit)" ignores the project's file, and a confirmation of self-repair holds until the
screen is closed.

*Setup.* `/onboard` clears the project's markers only (`app.py:1164`); a forced rerun is not what `wizard.py:868` says; a
copy cut short leaves a torn file that counts as there; the memory marker and `memory.enabled` may disagree; `/qdrant remove`
leaves the marker, and an `init` that races it a marker without a container.

*Profile, triage.* Writes of two threads share `user.md.tmp`: an interrupt lets go of the lock while its thread writes on, and
another process has its own lock, so an acknowledged change can be lost. A rotation between stat and open repeats errors, as does
a new launch of the bot (`log_triage_bot.py:23-26` says so);
errors beyond the cap, or that sort below the high-water mark, are never shown.

## 7. What is not modelled, and why

*Not at all*: the other tools (shell, files, web: one call each, whose effect is outside), skills, resources, and
observability (read-only, or logging).

*Left out of modelled components*: message bodies, titles, usage accounting, wording and rendering. Of the task store the
rows of runs and the listings: they are written and shown. Of the sub-agents the graveyard of exited sessions (a convenience for error
messages), the mailbox message of `task_resume`, a second `request_input` of one task. Of cron the names of jobs and the parsing of
expressions. Of messaging formats, signatures and the splitting of replies. Of memory what an extraction returns and what a
retrieval finds: a model or an index decides it, so it is any choice. Of MCP the remote transports beyond one request each.
Of attachments the text of PDFs and the quoting of paths. Of providers images, headers and tool schemas. Of the configuration the
schema's table of fields. Of the terminal UI everything that is drawn, completion and key bindings (about half of its code),
and `run_tui` of `tui/__init__.py`, a second console loop that nothing calls. Heartbeats are written and never read.

*Merged*: see the end of section 2.

## 8. Plan

Done: mailbox, store and refinement; life cycle; scheduler; agent loop; lead worker; the sixteen
services; the proofs of every safety property but `ComputedAsStated`. Next:

1. An abstract specification of the agent loop, "every input is handed to the model or remains pending",
   and the loop as its refinement.
2. Liveness of the services, of the console and the API above all, under fairness of their tasks.
3. Composition of the router with the agent loop's lock, and of the profile with prompt assembly.
