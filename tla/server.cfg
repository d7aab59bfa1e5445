SPECIFICATION Spec
CONSTANTS
  Sessions = {s1}
  Turns = {t1, t2}
  Runtimes = {r1, r2}
  Handlers = {h1, h2, h3}
  None = None
  Stop = Stop
  Faults = {"db", "build", "joinTimeout", "drainTimeout", "crash", "rival"}
SYMMETRY Symmetry
INVARIANTS TypeOK OneTurnInHand  NothingBehindStop ConstructionIsExclusive
CHECK_DEADLOCK FALSE
