CONSTANTS
  h1 = h1
  h2 = h2
  Helper <- MCHelper
  Cases = 2
  MaxInvoked = 4
SYMMETRY MCSymmetry
SPECIFICATION Spec
INVARIANTS
  OldGoneBeforeNew
  AskedOnce
  UnknownStaysHeld
  LaunchIsAdmitted
  CloseIsComplete
CHECK_DEADLOCK FALSE
