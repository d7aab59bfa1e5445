SPECIFICATION FairSpec
CONSTANTS
  Turns = {t1}
  OtherTurns = {o1}
  Readers = {c1}
  QueueSize = 2
  MaxSubscribers = 1
  MaxClosed = 1
  MaxSeq = 3
  None = None
INVARIANT TypeOK
PROPERTIES InOrder StreamsEnd
CHECK_DEADLOCK FALSE
