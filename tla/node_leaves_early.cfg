CONSTANTS
  Nodes = {n1}
  XApps = {x1}
  Early = {x1}
  NumWorkers = 2
  MaxConn = 1
  MaxResend = 0
  Leaves = {n1}
SPECIFICATION Spec
INVARIANTS
  NodeInList
CHECK_DEADLOCK FALSE
