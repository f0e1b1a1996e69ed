SPECIFICATION Spec
CONSTANTS
  leadLoop = leadLoop
  reaper = reaper
  subLoop = subLoop
  scheduler = scheduler
  leadConn = leadConn
  subConn = subConn
  uiConn = uiConn
  lead = lead
  sub = sub
  ui = ui
  Stamp = 3
  Messages = {m1, m2, m3}
  Agents = {lead, sub}
  Correlations = {c1}
  NoCorrelation = NoCorrelation
  Stamps <- MCStamps
  Cap = 2
  Coroutines = {leadLoop, subLoop}
  Readers = {leadLoop, subLoop}
  Conns = {leadConn, subConn}
  ConnOf <- MCConnOf
  AddressOf <- MCAddressOf
  Cancellable = {}
  NoConn = NoConn
SYMMETRY MCSymmetry
CHECK_DEADLOCK FALSE
INVARIANTS
  PerSenderOrder
PROPERTIES
  ImplementsMailbox
