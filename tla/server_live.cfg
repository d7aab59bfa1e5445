SPECIFICATION FairSpec
CONSTANTS
  Sessions = {s1}
  Turns = {t1, t2}
  Runtimes = {r1, r2, r3}
  Handlers = {h1, h2}
  None = None
  Stop = Stop
  Faults = {}
 
PROPERTIES LedgerSpec TurnsFinish RequestsReturn
CHECK_DEADLOCK FALSE
