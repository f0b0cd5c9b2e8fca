CONSTANTS
  e1 = e1
  e2 = e2
  Event = {e1, e2}
  MaxRows = 3
SPECIFICATION JSpec
INVARIANTS
  PublishedOnStableStorage
  LoadContinuesLedger
CHECK_DEADLOCK FALSE
