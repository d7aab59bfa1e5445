SPECIFICATION Spec
CONSTANTS
  Installers = {own, other}
  Own = own
  Refreshers = {r1, r2}
  Asks <- MCAsks
  MaxRelease = 2
  Scenarios <- MCScenarios
  own = own
  other = other
SYMMETRY Symmetry
INVARIANTS OneRequestPerNeed RefreshSettles ActiveFindsCode InstallsAreWhole
CHECK_DEADLOCK FALSE
