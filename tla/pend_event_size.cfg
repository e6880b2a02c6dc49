CONSTANTS
  XApps = {xa, xb}
  Ids = {0, 1}
  Nodes = {n1}
  NumWorkers = 1
  Fds = {1, 2}
  FirstReqId = 1
  IdMod = 8
  MaxRequests = 2
  MaxInd = 0
  MaxFired = 1
SYMMETRY Symmetric
SPECIFICATION Spec
INVARIANTS
  OnePendingAtTimeout
CHECK_DEADLOCK FALSE
