SPECIFICATION Spec
CONSTANTS
  Jobs = {j1}
  Periods = {1, 2}
  Dates = {1, 2}
  Limit = 1
  Retry = 1
  Horizon = 3
  Faults = {"send","store","halt"}
  MaxEdits = 3
  None = None
INVARIANTS
  ActiveIsScheduled
  SentOncePerTime
  CompletedWasSent

