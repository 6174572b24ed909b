SPECIFICATION Spec
CONSTANTS
  Hosts = {a, b}
  Versions = {both, one, odd, torn}
  Kind <- MCKind
  Def <- MCDef
  None = None
  MaxConn = 1
  MaxEdits = 2
  a = a
  b = b
  both = both
  one = one
  odd = odd
  torn = torn
CHECK_DEADLOCK FALSE
INVARIANTS
  PreviousInEffect
