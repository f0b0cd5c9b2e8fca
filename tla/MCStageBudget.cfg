CONSTANTS
  t1 = t1
  t2 = t2
  h1 = h1
  m1 = m1
  m2 = m2
  f1 = f1
  r1 = r1
  r2 = r2
  Nil = Nil
  Uid <- MCUid
  Request <- MCRequest
  Declarations <- MCDeclarations
  Unmeasured = Nil
  ElapsedChoice <- MCElapsed
SPECIFICATION Spec
INVARIANTS
  SpentWithinCaps
  IncrementalAfterTranslation
  CompleteIsVerifiedSuccess
  AssertedElapsedIsExact
CHECK_DEADLOCK FALSE
