CONSTANTS
  Configs <- MCConfigs
  Children = {c1}
  MaxManagers = 3
  MaxTurns = 2
  MaxKeyed = 4
SPECIFICATION Spec
CHECK_DEADLOCK FALSE
INVARIANTS
  
  ContractIsConsented
  OneOpenManager
  TerminalHandedBack
