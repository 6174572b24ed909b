SPECIFICATION Spec
CONSTANTS
  Hosts = {a, b}
  Nothing = Nothing
  Expect <- Expected
  Accepted = {200, 503}
  Served = {200, 404}
  Ttl = 1
  Timeout = 1
  IdleTimeout = 2
  MinInterval = 1
  MaxClosers = 2
  a = a
  b = b
INVARIANTS
  TypeOK
  SuccessMeansServed
  ConnectionGuarded
PROPERTIES
  JudgedRecently
  FailuresCount
  ChecksReturn
