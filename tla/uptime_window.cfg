SPECIFICATION Spec
CONSTANTS
  Hosts = {a, b}
  None = None
  Second <- Seconds
  Persistent = TRUE
  MaxDay = 2
  MaxTick = 2
  MaxResponses <- MostResponses
  Verdict <- Verdicts
  HistoryPoints = 1
  Window = 1
  Good = 95
  Fair = 40
  a = a
  b = b
INVARIANTS
  UptimeOfWindow
