CONSTANTS
  Kinds = {"io"}
  Timeouts = {TRUE}
  AddMayFail = FALSE
  MaxCalls = 1
  MaxWaits = 2
  MaxSteals = 0
SPECIFICATION FairSpec
CHECK_DEADLOCK FALSE
PROPERTY TimeoutEndsCall
