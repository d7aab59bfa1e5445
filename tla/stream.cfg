SPECIFICATION Spec
CONSTANTS
  Turns = {t1}
  OtherTurns = {}
  Readers = {c1, c2}
  QueueSize = 2
  MaxSubscribers = 1
  MaxClosed = 1
  MaxSeq = 2
  None = None
SYMMETRY Symmetry
INVARIANTS OutcomeIsRecorded NoForgottenReader SilentEndIsExplained
CHECK_DEADLOCK FALSE
