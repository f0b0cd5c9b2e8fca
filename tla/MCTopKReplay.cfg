CONSTANTS
  a1 = a1
  a2 = a2
  a3 = a3
  a4 = a4
  c1 = c1
  c2 = c2
  Caller <- MCCaller
  Action <- MCAction
  Outcomes <- MCOutcomes
  Cost <- MCCost
  Rankings <- MCRankings
  K = 3
  FloatLimit <- MCFloatLimit
  Float <- MCFloat
  Plus <- MCPlus
  FSum <- MCFSum
  MaxRetry = 2
SYMMETRY MCSymmetry
SPECIFICATION Spec
INVARIANTS
  AcceptedIsSerial
  OpenedOnce
  ResultIsOfTheFreeze
CHECK_DEADLOCK FALSE
