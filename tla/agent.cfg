SPECIFICATION FairSpec
CONSTANTS
  MaxTurns = 1
  MaxIterations = 2
  MaxBatch = 3
  MaxRefreshes = 1
  MaxParallel = 1
  MaxPerTurn = 2
  Kinds = {"tool", "subagent", "garbledSub", "submitPlan", "refresh"}
  Faults = {"callback", "interrupt", "reload"}
INVARIANTS AnswersMatchCalls ChildrenContained 
PROPERTIES GivenUpNeverStarts TurnsEnd
CHECK_DEADLOCK FALSE
