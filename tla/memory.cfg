SPECIFICATION Spec
CONSTANTS
  Agent = agent
  Clients = {client}
  Titles = {t1, t2}
  Classes = {"plain", "weak", "unsafe"}
  MaxOps = 3
  MaxEarlier = 1
  None = none
INVARIANTS PolicyHolds DailyLogComplete
 
SYMMETRY Symmetry
CHECK_DEADLOCK FALSE
