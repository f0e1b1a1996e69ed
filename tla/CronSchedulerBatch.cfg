SPECIFICATION FairSpec
CONSTANTS
  Jobs = {j1, j2, j3}
  Periods = {1}
  Dates = {}
  Limit = 2
  Retry = 1
  Horizon = 2
  Faults = {"store"}
  MaxEdits = 0
  None = None
\* The clock stops at Horizon: nothing is left to do there.
CHECK_DEADLOCK FALSE
PROPERTIES
  DueIsDispatchedOrStranded
