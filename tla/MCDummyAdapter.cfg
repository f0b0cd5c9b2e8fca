CONSTANTS
  j1 = j1
  j2 = j2
  a1 = a1
  a2 = a2
  Journal = {j1, j2}
  DAttempt = {a1, a2}
SPECIFICATION DSpec
INVARIANTS
  OneChild
  ChildOnRecord
PROPERTY CallReturns
CHECK_DEADLOCK FALSE
