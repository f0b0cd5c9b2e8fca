CONSTANTS
  N = 3
  Window = 3
  Reserve = 1
SPECIFICATION Spec
INVARIANTS
  AcceptedIsWhole
PROPERTY ImplementsOneShot
CHECK_DEADLOCK FALSE
