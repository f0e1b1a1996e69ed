SPECIFICATION FairSpec
CONSTANTS
  Tasks = {t1}
  Left = {}
  Launches = {l1, l2}
  Calls = {c1}
  Tools = {"spawn", "resume", "stop", "terminate", "update"}
  Faults = {"launch", "crash"}
  None = None
PROPERTIES
  ExitIsReported
