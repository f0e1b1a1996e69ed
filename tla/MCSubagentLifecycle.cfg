SPECIFICATION Spec
CONSTANTS
  Tasks = {t1, t2}
  Left = {t1}
  Launches = {l1, l2}
  Calls = {c1, c2}
  Tools = {"spawn", "resume", "stop"}
  Faults = {"tasks", "mailbox", "interrupt"}
  None = None
SYMMETRY MCSymmetry
INVARIANTS
  TypeOK
  AtMostOneReport
  NoOrphan
  CompletedHasOutput
