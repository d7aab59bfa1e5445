SPECIFICATION Spec
CONSTANTS
  Callers = {worker, admin}
  MaxCalls = 2
  MaxExpiries = 1
  MaxSessions = 3
  Speaks = {"2025-03-26"}
INVARIANTS CallRunsOnce SessionRecovers
PROPERTY CallsReturn
CHECK_DEADLOCK FALSE
