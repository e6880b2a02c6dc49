CONSTANTS
  Ids = {0, 1, 2}
  MaxInd = 1
  MaxResend = 1
  Late = TRUE
SPECIFICATION FairSpec
INVARIANTS
  TypeOK
  ProceduresAreFound
  SubscriptionFindsPending
PROPERTIES
  
  ImplementsService
  CallsEnd
  IndicationsDispatched
  StopCompletes
CHECK_DEADLOCK FALSE
