CONSTANTS
  Setters = {s1, s2}
  Listeners = {logs, other}
  Logs = logs
  Values <- LogValues
  Default <- NoLogs
  Equal <- LogsEqual
  MaxSets = 3
  Names = {1, 2}
  Root = 1
  Plain = plain
  Formats = {usual, plain}
  DefaultFormat = usual
  BadFormat = bad
  NoFormat = none
  MaxUses = 1
SPECIFICATION Spec
CHECK_DEADLOCK FALSE
SYMMETRY SetterSymmetry
INVARIANTS DeletedIsNotTold ToldIsValue FollowsLogger LoggersFollowConfig RootServes
