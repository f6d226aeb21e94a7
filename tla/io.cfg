CONSTANTS
  Fds = {f}
  Idlers = {i1, i2}
  Waiters = {a, b, c}
  None = None
  MayCancel = {f}
  MayClose = {f}
SPECIFICATION FairSpec
CHECK_DEADLOCK FALSE
INVARIANTS RegistryAgrees WaiterInOnePlace
PROPERTIES ReadyIsServed
