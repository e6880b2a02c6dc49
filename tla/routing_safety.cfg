CONSTANTS
  XApps = {xa, xb}
  Ids = {0, 1}
  Nodes = {n1, n2}
  NumWorkers = 2
  Fds = {1, 2}
  FirstReqId = 1
  IdMod = 8
  MaxRequests = 2
  MaxInd = 2
  MaxFired = 0
SYMMETRY Symmetric
SPECIFICATION Spec
INVARIANTS
   TypeOK
  RoutedHome
  MapLookupsSucceed
  DeleteFindsSubscription
  ExpectedAnswers
  PendingIsOutstanding
  TimersAreOwned
  NoAbort
CHECK_DEADLOCK FALSE
