CONSTANTS
  Nodes = {n1, n2}
  XApps = {x1}
  Early = {x1}
  NumWorkers = 2
  MaxConn = 1
  MaxResend = 1
  Leaves = {n1}
SPECIFICATION Spec
INVARIANTS
  TypeOK
  EarlyXappsUpToDate
CHECK_DEADLOCK FALSE
