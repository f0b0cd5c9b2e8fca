CONSTANTS
  a = a
  b = b
  r1 = r1
  r2 = r2
  Nil = Nil
  Uid <- MCUid
  Request <- MCRequest
  Declarations <- MCDeclarations
  Unmeasured = Nil
  ElapsedChoice <- MCElapsed
  MaxEvents = 4
SPECIFICATION Spec
INVARIANTS
  AckedIsRecoverable
  LiveAgreesWithReplay
PROPERTIES
  NoAckAfterPoison
  ImplementsStageBudget
CONSTRAINT FewAfterInterrupt
CHECK_DEADLOCK FALSE
