CONSTANTS
  Workers = {w1, w2}
  ThreadCount = 1
  Caller = main
  UseCaller = TRUE
  Tasks = {a, b}
  Holders = {b}
  Pins = {w1, w2}
  AnyThread = AnyThread
  None = None
  MaxYields = 1
  MaxCalls = 2
  MaxStarts = 2
SPECIFICATION FairSpec
CHECK_DEADLOCK FALSE
PROPERTIES StopCompletes SubmittedFinishes WokenResumes
