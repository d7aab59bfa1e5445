SPECIFICATION Spec
CONSTANTS
  MaxTurns = 5
  MinRecent = 2
  Readers = {c1}
INVARIANTS CountersMatchRows NothingLost ContextContinues
PROPERTY LogSpec
CHECK_DEADLOCK FALSE
