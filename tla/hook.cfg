CONSTANTS
  Kinds = {"io", "connect"}
  Timeouts = {TRUE, FALSE}
  AddMayFail = TRUE
  MaxCalls = 2
  MaxWaits = 5
  MaxSteals = 1
SPECIFICATION FairSpec
CHECK_DEADLOCK FALSE
INVARIANTS NothingLeftBehind TimedOutByOwnTimer
PROPERTIES ExpiryEndsCall SleepReturns ReadyEndsWait
