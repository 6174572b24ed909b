SPECIFICATION Spec
CONSTANTS
  Loops = {l1, l2}
  Configs <- MCConfigs
  CountCap = 2
  MaxIncidents = 2
  StoreFaults = FALSE
  None = None
  l1 = l1
  l2 = l2
SYMMETRY Symmetry
INVARIANTS
  TypeOK
  SingleLoop
  TracksOpenIncident
  AnnouncedStatus
PROPERTIES
  LogRefined
  Debounced
  NeverRepeated
