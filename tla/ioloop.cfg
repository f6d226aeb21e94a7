CONSTANTS
  Workers = {w1}
  Caller = main
  UseCaller = TRUE
  Client = client
  Tasks = {a, b}
  Pins = {w1}
  AnyThread = AnyThread
  None = None
  Pipe = Pipe
  IntBits = 3
  MAX_TIMEOUT = 1
  Delays = {2}
SPECIFICATION FairSpec
CHECK_DEADLOCK FALSE
INVARIANTS NothingLeft TimersAreWatched
PROPERTIES DueRuns StopReturns ImplementsTaskPool
