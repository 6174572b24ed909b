SPECIFICATION Spec
CONSTANTS
  Hosts = {a, b}
  Requests = {r}
  All = All
  MaxChecks = 1
  a = a
  b = b
  r = r
CHECK_DEADLOCK FALSE
INVARIANTS
  RecordedVisible
