SPECIFICATION FairSpec
CONSTANTS
  Loops = {1}
  Configs <- MCFastConfigs
  CountCap = 1
  MaxIncidents = 2
  StoreFaults = TRUE
  None = None
PROPERTIES
  OlderIncidentsUntouched
  Terminates
