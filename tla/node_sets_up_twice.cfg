CONSTANTS
  Nodes = {n1}
  XApps = {x1}
  Early = {x1}
  NumWorkers = 2
  MaxConn = 1
  MaxResend = 1
  Leaves = {}
SPECIFICATION Spec
INVARIANTS
  NodeRegisteredOnce
CHECK_DEADLOCK FALSE
