CONSTANTS
  Timers = {x, y}
  Idlers = {i1, i2}
  Delays = {1}
  Gap = 0
  Forever = Forever
  MaxTime = 1
SPECIFICATION FairSpec
CHECK_DEADLOCK FALSE
INVARIANTS OneOutcome NoOversleep
PROPERTIES NotEarly DueIsHanded
