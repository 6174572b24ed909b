SPECIFICATION Spec
CONSTANTS
  Loops = {1}
  Configs <- MCConfigs
  CountCap = 2
  MaxIncidents = 1
  StoreFaults = FALSE
  None = None
INVARIANTS
  RecoveryEndsIncident
