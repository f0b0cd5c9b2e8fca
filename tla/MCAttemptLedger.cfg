CONSTANTS
  a1 = a1
  a2 = a2
  a3 = a3
  x1 = x1
  x2 = x2
  c1 = c1
  c2 = c2
  k = k
  s = s
  o = o
  Nil = Nil
  AttemptId <- MCAttemptId
  Action <- MCAction
  Circuit <- MCCircuit
  Call = {k}
  Semantics = {s}
  Artifact = {o}
  Outcomes <- MCOutcomes
  Time = {0, 1}
  MaxEvents = 7
  None = Nil
SYMMETRY Interchangeable
SPECIFICATION Spec
INVARIANTS
  LineageInOneCircuit
  BasisStands
PROPERTY CostIsFinal
CHECK_DEADLOCK FALSE
