--------------------------- MODULE HandedServices ---------------------------
(*****************************************************************************)
(* The services that hand something on which must go where it belongs, once  *)
(* and whole: a chat's message, a model's turn, a call's answer, a typed     *)
(* line, a window of turns, an error of the log; and that start what they    *)
(* have to end.                                                              *)
(*****************************************************************************)
EXTENDS ServiceSlots

CONSTANTS
  RouterMessages, RouterHandlers, RouterTroubles,
  ConnectCommands, ConnectFailures,
  TurnAttempts, TurnText,
  McpCalls, McpProcs, McpBad,
  ConsoleLines, ConsoleMail, ConsoleQuestions, ConsoleCapacity,
  MemorySessions, MemoryTrigger, MemoryTurns, MemoryGroups, MemoryAtoms,
  LogErrors, LogWritten, LogFiles, LogTail, LogPerSummary, LogDedup

\* The router's bounds are numbers.
ASSUME RouterAssumption ==
  RouterMessages \in Nat /\ RouterHandlers \in Nat /\ RouterTroubles \in Nat

\* A pipe's lock is held by a call or by nobody.
ASSUME McpAssumption == McpProcs \in Nat /\ "nobody" \notin McpCalls

\* The input queue holds a line or more: UserInputQueue refuses a capacity that
\* is not positive (core/session/input_queue.py:36).
ASSUME ConsoleAssumption == ConsoleLines \in Nat /\ ConsoleCapacity \in Nat \ {0}

\* Turns and groups are counted.
ASSUME MemoryAssumption == MemoryTrigger \in Nat /\ MemoryGroups \in Nat

\* An error's fingerprint is a number other than the mark of none.
ASSUME LogAssumption ==
  LogErrors \subseteq Nat \ {0} /\ LogTail \in Nat /\ LogPerSummary \in Nat

R == INSTANCE MessagingRouter WITH
  MaxMessages <- RouterMessages, MaxHandlers <- RouterHandlers,
  MaxTroubles <- RouterTroubles, via <- v1, tg <- v2, platform <- v3,
  db <- v4, mem <- v5, handler <- v6, hist <- v7
A == INSTANCE MessagingService WITH
  MaxCommands <- ConnectCommands, MaxFailures <- ConnectFailures,
  creds <- v1, adapters <- v2, senders <- v3, polls <- v4, web <- v5,
  todo <- v6, op <- v7, bounds <- v8
P == INSTANCE ProviderTurn WITH
  MaxAttempts <- TurnAttempts, MaxText <- TurnText, api <- v1, turn <- v2,
  stream <- v3, shown <- v4
M == INSTANCE McpClient WITH
  Calls <- McpCalls, MaxProcs <- McpProcs, MaxBad <- McpBad,
  transport <- v1, manager <- v2, client <- v3, server <- v4, call <- v5,
  mrun <- v6
D == INSTANCE ConsoleDriver WITH
  MaxLines <- ConsoleLines, MaxMail <- ConsoleMail,
  MaxQuestions <- ConsoleQuestions, Capacity <- ConsoleCapacity,
  stopped <- v1, driver <- v2, newRuns <- v3, answer <- v4, busy <- v5,
  awaiting <- v6, inputQueue <- v7, inbox <- v8, watcher <- v9,
  user <- v10
W == INSTANCE MemoryWriter WITH
  Sessions <- MemorySessions, TriggerTurns <- MemoryTrigger,
  MaxTurns <- MemoryTurns, MaxGroups <- MemoryGroups,
  MaxAtoms <- MemoryAtoms, turns <- v1, tasks <- v2, points <- v3,
  job <- v4, kept <- v5, run <- v6, rewound <- v7
L == INSTANCE LogTriage WITH
  Errors <- LogErrors, MaxLog <- LogWritten, MaxLogs <- LogFiles,
  TailErrors <- LogTail, PerSummary <- LogPerSummary,
  DedupCap <- LogDedup, log <- v1, bot <- v2, scan <- v3, shown <- v4,
  raced <- v5

HandedInit ==
  \/ service = "router" /\ R!Init /\ Off3
  \/ service = "adapters" /\ A!Init /\ Off2
  \/ service = "provider" /\ P!Init /\ Off6
  \/ service = "mcp" /\ M!Init /\ Off4
  \/ service = "console" /\ D!Init
  \/ service = "memory" /\ W!Init /\ Off3
  \/ service = "triage" /\ L!Init /\ Off5

HandedNext ==
  \/ service = "router" /\ R!Next /\ UNCHANGED Vars3
  \/ service = "adapters" /\ A!Next /\ UNCHANGED Vars2
  \/ service = "provider" /\ P!Next /\ UNCHANGED Vars6
  \/ service = "mcp" /\ M!Next /\ UNCHANGED Vars4
  \/ service = "console" /\ D!Next
  \/ service = "memory" /\ W!Next /\ UNCHANGED Vars3
  \/ service = "triage" /\ L!Next /\ UNCHANGED Vars5

HandedSpec == HandedInit /\ [][UNCHANGED service /\ HandedNext]_svars

-----------------------------------------------------------------------------
\* A chat message is given to an agent at most once more than its handling
\* failed, never beside another of its session, and the poll loop leaves none
\* behind (messaging/router.py:112-195, telegram.py:290-320).
MessagesHandledOnce ==
  service = "router" => R!GivenOncePerFailure /\ R!OneRunPerSession /\ R!NothingSkipped

\* A chat keeps the session it has, whichever of its first messages made it
\* (messaging/store.py:213).
ChatKeepsSession == [][service = "router" /\ v4.session # 0 => v4'.session = v4.session]_v4

\* No poll loop runs for an adapter the service does not know.  After its run an
\* MCP process lives only if an interrupt met its client before it was the run's
\* or while its end was awaited, or if another took its place in the client
\* (messaging/adapters/telegram.py:142-160, mcp/client.py:324-345, 570-601).
NothingOutlivesItsOwner ==
  /\ service = "adapters" => A!OnlyKnownAdapters
  /\ service = "mcp" => M!ClosedAfterRun

\* The text of a turn that a provider's call returns is the text that was shown,
\* unless a stream timed out after some of it (openrouter_provider.py:499-601).
TurnsAreAsShown == service = "provider" => P!ReturnsWhatWasShown

\* An MCP call gets the answer to what it asked, though calls share a pipe;
\* a line typed at the console answers the question it was typed for, and none
\* goes missing (mcp/client.py:442-484, cli/__init__.py:281-309, 388-406).
AnswersMeetTheirQuestions ==
  /\ service = "mcp" => M!AnswerIsOwn
  /\ service = "console" => D!EachLineHasItsPlace

\* The background jobs take each thing once: an error is in one summary of a
\* bot whose reads no rotation raced, a window of a session is extracted while
\* no memory was made of it, until a deleted message makes the session begin
\* anew (core/log_triage_bot.py:124-135, memory/service.py:139-201).
TakenOnce ==
  /\ service = "triage" => L!ReportedOnce
  /\ service = "memory" => W!WindowIsNew
=============================================================================
