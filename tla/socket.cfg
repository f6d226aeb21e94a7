CONSTANTS
  Sockets = {s, r}
  Fibers = {f, g}
  Numbers = {n1, n2}
  Addresses = {x}
  None = None
  MaxFiles = 3
  MaxNames = 1
SPECIFICATION Spec
CONSTRAINT BeforeCloseFails
SYMMETRY AllSymmetry
INVARIANTS NumbersAreHeld WaitsOnOwn LocalIsOwn
