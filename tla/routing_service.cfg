CONSTANTS
  XApps = {xa, xb}
  Ids = {0, 1}
  Nodes = {n1}
  NumWorkers = 2
  Fds = {1, 2}
  FirstReqId = 1
  IdMod = 8
  MaxRequests = 2
  MaxInd = 1
  MaxFired = 0
SPECIFICATION FairSpec
PROPERTIES
  ImplementsService
  EveryRequestAnswered
CHECK_DEADLOCK FALSE
