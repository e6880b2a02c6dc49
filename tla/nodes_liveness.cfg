CONSTANTS
  Nodes = {n1, n2}
  XApps = {x1}
  Early = {}
  NumWorkers = 2
  MaxConn = 2
  MaxResend = 0
  Leaves = {n1}
SPECIFICATION FairSpec
INVARIANTS
  RegistriesAgree
PROPERTIES
  HandlersEnd
  SetupAnswered
CHECK_DEADLOCK FALSE
