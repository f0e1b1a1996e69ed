\* A run is killed between the drain of the inbox and the answer.
SPECIFICATION Spec
CONSTANTS
  m1 = m1
  Callers = {c1}
  Texts = {t1, t2}
  Mail = {m1}
  From <- SenderOf
  Answers <- Kinds
  MaxQueue = 1
  MaxKeepAlive = 3
  MaxTurns = 3
  MaxTroubles = 1
  Troubles = {"crash"}
  None = None
SYMMETRY Symmetric
INVARIANTS MailIsTold
