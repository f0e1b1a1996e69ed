SPECIFICATION Spec
CONSTANTS
  m1 = m1
  Callers = {c1, c2}
  Texts = {t1, t2}
  Mail = {m1}
  From <- SenderOf
  Answers <- Kinds
  MaxQueue = 1
  MaxKeepAlive = 1
  MaxTurns = 3
  MaxTroubles = 1
  Troubles = {"swap", "persist", "mark", "provider", "summary", "cancel", "crash"}
  None = None
SYMMETRY Symmetric
INVARIANTS OneTurnAtATime NothingForgotten CallsAnswered ExternalTurnsBounded
