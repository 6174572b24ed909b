SPECIFICATION FairSpec
CONSTANTS
  Hosts = {a}
  Requests = {r, s}
  All = All
  MaxChecks = 2
  a = a
  r = r
  s = s
CHECK_DEADLOCK FALSE
INVARIANTS
  TypeOK
  HistoryNotOlder
  StaleOnlyByOverlap
PROPERTIES
  StaleGoesAway
