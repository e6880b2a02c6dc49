CONSTANTS
  XApps = {xa, xb}
  Ids = {0, 1}
  Nodes = {n1, n2}
  NumWorkers = 2
  Fds = {1, 2, 3}
  FirstReqId = 1
  IdMod = 2
  MaxRequests = 3
  MaxInd = 0
  MaxFired = 1
SYMMETRY Symmetric
SPECIFICATION Spec
INVARIANTS
   RoutedHome
  DeleteFindsSubscription
  ExpectedAnswers
  ExtractionSucceeds
  TimersAreOwned
CHECK_DEADLOCK FALSE
