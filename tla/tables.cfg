CONSTANTS
  Fds = {32, 64, 95}
  Threads = {t1, t2}
  None = None
  FirstSlots = 32
  MaxMade = 2
  FirstRoom = 64
  MaxOpens = 2
SPECIFICATION Spec
CHECK_DEADLOCK FALSE
SYMMETRY ThreadSymmetry
INVARIANTS RegisteredReachable ContextIsOwn
PROPERTIES NeverLost
