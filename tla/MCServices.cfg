SPECIFICATION Spec
CONSTANTS
  RouterMessages = 2
  RouterHandlers = 3
  RouterTroubles = 1
  ConnectCommands = 3
  ConnectFailures = 2
  TurnAttempts = 2
  TurnText = 2
  TranscriptItems = 6
  TranscriptCalls = 2
  McpCalls = {"c1", "c2", "c3"}
  McpProcs = 3
  McpBad = 1
  MemorySessions = {"s1", "s2"}
  MemoryTrigger = 1
  MemoryTurns <- MCMemoryTurns
  MemoryGroups = 2
  MemoryAtoms = 1
  ConfigWrites = 2
  ConfigDirty = 2
  ScreenEdits = 2
  ScreenErrors = 1
  CatalogEntries = 3
  SetupProviders = {"openrouter", "claude"}
  SetupPackaged = "openrouter"
  SetupRuns = 2
  ProfileStores = {"lead", "child"}
  ProfileCalls = {"c1", "c2", "c3"}
  ProfileStoreOf <- MCStoreOf
  LogErrors = {1, 2, 3}
  LogWritten = 4
  LogFiles = 2
  LogTail = 3
  LogPerSummary = 2
  LogDedup = 1
  HubRequests = {"r1", "r2", "r3"}
  HubBrowsers = {"b1"}
  HubMessages = 1
  HubQueue = 1
  HubStarts = 2
  ConsoleLines = 3
  ConsoleMail = 1
  ConsoleQuestions = 2
  ConsoleCapacity = 1
  FileTurns = {"t1", "t2"}
  FileDrops <- MCDrops
  FileTroubles = 3
  LedgerCalls = 3
  LedgerPaths = {"plan"}
  LedgerCuts = 1
INVARIANTS TypesOK
  MessagesHandledOnce
  NothingOutlivesItsOwner
  AnswersMeetTheirQuestions
  TurnsAreAsShown
  ComputedAsStated
  SettingsAreAsTold
  KeptIsUsable
  TakenOnce
  WrittenWhole
PROPERTIES ChatKeepsSession
CHECK_DEADLOCK FALSE
