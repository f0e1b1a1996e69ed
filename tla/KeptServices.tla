---------------------------- MODULE KeptServices ----------------------------
(*****************************************************************************)
(* The services that keep something on disk which others read: settings and  *)
(* the screen that edits them, the set-up, the profile, a lead's session,    *)
(* files and their rows, plans and tasks.                                    *)
(*****************************************************************************)
EXTENDS ServiceSlots

CONSTANTS
  ConfigWrites, ConfigDirty,
  ScreenEdits, ScreenErrors,
  SetupProviders, SetupPackaged, SetupRuns,
  ProfileStores, ProfileCalls, ProfileStoreOf,
  HubRequests, HubBrowsers, HubMessages, HubQueue, HubStarts,
  FileTurns, FileDrops, FileTroubles,
  LedgerCalls, LedgerPaths, LedgerCuts

\* Every call of the profile's tool is of a process, and is not the mark of a
\* free lock.
ASSUME ProfileAssumption ==
  ProfileStoreOf \in [ProfileCalls -> ProfileStores] /\ "free" \notin ProfileCalls

C == INSTANCE ConfigChange WITH
  MaxWrites <- ConfigWrites, MaxDirty <- ConfigDirty, inWorker <- v1,
  files <- v2, proc <- v3, saving <- v4, applies <- v5, writes <- v6
S == INSTANCE ConfigScreen WITH
  MaxEdits <- ScreenEdits, MaxErrors <- ScreenErrors, project <- v1,
  stored <- v2, dirty <- v3, editor <- v4, flags <- v5, edits <- v6
O == INSTANCE Onboarding WITH
  Providers <- SetupProviders, Packaged <- SetupPackaged,
  MaxRuns <- SetupRuns, home <- v1, env <- v2, yaml <- v3, project <- v4,
  cmd <- v5, container <- v6, docker <- v7, runs <- v8
U == INSTANCE UserProfile WITH
  Stores <- ProfileStores, Calls <- ProfileCalls,
  StoreOf <- ProfileStoreOf, file <- v1, tmp <- v2, cache <- v3,
  lock <- v4, call <- v5, acked <- v6, overlapped <- v7
H == INSTANCE ApiHub WITH
  Requests <- HubRequests, Browsers <- HubBrowsers,
  MaxMessages <- HubMessages, QueueMax <- HubQueue,
  MaxStarts <- HubStarts, disk <- v1, hub <- v2, channels <- v3,
  request <- v4, line <- v5, browser <- v6, overtaken <- v7, counts <- v8
F == INSTANCE Attachments WITH
  Turns <- FileTurns, Drops <- FileDrops, MaxTroubles <- FileTroubles,
  view <- v1, db <- v2, disk <- v3, copying <- v4, turn <- v5,
  index <- v6, left <- v7, troubles <- v8
B == INSTANCE TaskLedger WITH
  MaxCalls <- LedgerCalls, PlanPaths <- LedgerPaths,
  MaxCuts <- LedgerCuts, plans <- v1, tasks <- v2, events <- v3,
  call <- v4, blurred <- v5

KeptInit ==
  \/ service = "config" /\ C!Init /\ Off4
  \/ service = "screen" /\ S!Init /\ Off4
  \/ service = "setup" /\ O!Init /\ Off2
  \/ service = "profile" /\ U!Init /\ Off3
  \/ service = "hub" /\ H!Init /\ Off2
  \/ service = "files" /\ F!Init /\ Off2
  \/ service = "ledger" /\ B!Init /\ Off5

KeptNext ==
  \/ service = "config" /\ C!Next /\ UNCHANGED Vars4
  \/ service = "screen" /\ S!Next /\ UNCHANGED Vars4
  \/ service = "setup" /\ O!Next /\ UNCHANGED Vars2
  \/ service = "profile" /\ U!Next /\ UNCHANGED Vars3
  \/ service = "hub" /\ H!Next /\ UNCHANGED Vars2
  \/ service = "files" /\ F!Next /\ UNCHANGED Vars2
  \/ service = "ledger" /\ B!Next /\ UNCHANGED Vars5

KeptSpec == KeptInit /\ [][UNCHANGED service /\ KeptNext]_svars

-----------------------------------------------------------------------------
\* What the user is told of a setting is so.  One that was reported as applied was
\* read by every process it is for, and is what the agent runs on; the provider
\* and model that the settings screen gates a field by are those that hold once
\* the edits are saved (runtime/root.py:619-690, tui/config_screen.py:779-922).
SettingsAreAsTold ==
  /\ service = "config" => C!AppliedWasRead /\ C!AppliedIsInUse
  /\ service = "screen" => S!ForeseesSave

\* What is on disk is fit for the next to read it.  Once a wizard has completed,
\* the routed provider and memory have their keys, as long as the yaml has the
\* packaged lines that the toggles edit.  A change of the profile that was
\* acknowledged is there, unless a thread that an interrupt left or another
\* process was at the file meanwhile.  The lead's session on disk is the one
\* browsers are shown, unless a request wrote its own while another was resuming
\* one (setup/wizard.py:865-943, storage/user_profile.py:149-241,
\* core/leads/manager.py:165-192).
KeptIsUsable ==
  /\ service = "setup" => O!SetUpIsUsable
  /\ service = "profile" => U!ToldIsKept
  /\ service = "hub" => H!RestartResumesShown

\* What several statements write fits together, whichever of them another call
\* or an interrupt comes between.  A message whose run starts has all its
\* attachments' rows and copies and a discarded one, whose clean-up was not
\* disturbed, none; an interrupt while the message is stored may leave it alone,
\* a kill may leave it with some of its rows, each with its copy.  A path gets a
\* second plan from overlapping calls alone; a task's timeline ends with its
\* status after each change that nothing overlapped or cut
\* (storage/attachment_store.py:91-165, storage/task_store.py:88-290).
WrittenWhole ==
  /\ service = "files" => F!AttachmentsFollowMessage
  /\ service = "ledger" => B!LedgerTellsTheStory
=============================================================================
