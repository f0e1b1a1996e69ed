SPECIFICATION Spec
CONSTANTS
  m1 = m1
  m2 = m2
  m3 = m3
  lead = lead
  sub = sub
  c1 = c1
  Messages <- MCMessages
  Agents = {lead, sub}
  Correlations = {c1}
  NoCorrelation = NoCorrelation
  Stamps <- MCStamps
  Cap = 2
SYMMETRY MCSymmetry
CHECK_DEADLOCK FALSE
INVARIANTS
  PendingBounded
  DeliveredWasHanded
  AnsweredIsClosed
PROPERTIES
  StatusMovesForward
  DropsOldestOfFull
