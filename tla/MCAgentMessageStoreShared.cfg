SPECIFICATION Spec
CONSTANTS
  leadLoop = leadLoop
  reaper = reaper
  subLoop = subLoop
  scheduler = scheduler
  leadConn = leadConn
  subConn = subConn
  uiConn = uiConn
  lead = lead
  sub = sub
  ui = ui
  Stamp = 3
  Messages = {m1, m2}
  Agents = {lead, sub, ui}
  Correlations = {c1}
  NoCorrelation = NoCorrelation
  Stamps <- MCStamps
  Cap = 1
  Coroutines = {leadLoop, reaper, subLoop}
  Readers = {leadLoop, subLoop}
  Conns = {leadConn, subConn}
  ConnOf <- MCConnOf
  AddressOf <- MCAddressOf
  Cancellable = {leadLoop, subLoop}
  NoConn = NoConn
SYMMETRY MCSymmetry
CHECK_DEADLOCK FALSE
INVARIANTS
  ContendedWritesBackOff
  DrainedWasHanded
  NoStrandedTransaction
