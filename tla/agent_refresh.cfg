SPECIFICATION Spec
CONSTANTS
  MaxTurns = 2
  MaxIterations = 3
  MaxBatch = 1
  MaxRefreshes = 1
  MaxParallel = 1
  MaxPerTurn = 1
  Kinds = {"tool", "refresh"}
  Faults = {}
INVARIANT ModelCallHasSchemas
CHECK_DEADLOCK FALSE
