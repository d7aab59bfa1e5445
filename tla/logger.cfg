SPECIFICATION LWSpec
CONSTANTS
  MaxRecords = 2
  MaxFailures = 1
INVARIANTS TimelineIsSound LogIsComplete
CHECK_DEADLOCK FALSE
