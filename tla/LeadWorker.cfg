SPECIFICATION Spec
CONSTANTS
  MaxTexts = 2
  MaxRuns = 2
  MaxTroubles = 2
  Troubles = {"restart-lead", "request_restart", "reload", "other lead", "worker dies", "worker hangs", "spawn fails", "store fails"}
INVARIANTS ResultIsOwn OneWorker RequestIsServed
CHECK_DEADLOCK FALSE
PROPERTIES RequestIsCleared WorkerFollowsTui
