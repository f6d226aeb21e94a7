CONSTANTS
  Workers = {w1, w2, w3, w4}
  ThreadCount = 2
  Caller = main
  UseCaller = TRUE
  Tasks = {a, b}
  Holders = {}
  Pins = {w1, w2, w3, w4, main}
  AnyThread = AnyThread
  None = None
  MaxYields = 2
  MaxCalls = 2
  MaxStarts = 2
SPECIFICATION Spec
SYMMETRY BothSymmetry
CHECK_DEADLOCK FALSE
INVARIANTS CountersExact OnePlace PinHonoured
PROPERTIES ImplementsTaskPool
