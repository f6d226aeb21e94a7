CONSTANTS
  Workers = {w1, w2}
  ThreadCount = 2
  Caller = main
  UseCaller = FALSE
  Tasks = {a}
  Holders = {a}
  Pins = {}
  AnyThread = AnyThread
  None = None
  MaxYields = 2
  MaxCalls = 1
  MaxStarts = 1
SPECIFICATION Spec
CHECK_DEADLOCK FALSE
INVARIANT FiberAssertionsHold
