CONSTANTS
  Ids = {0}
  MaxInd = 0
  MaxResend = 0
  Late = FALSE
SPECIFICATION Spec
INVARIANTS
  NeverUnforeseen
CHECK_DEADLOCK FALSE
