CONSTANTS
  e1 = e1
  e2 = e2
  Event = {e1, e2}
  MaxRows = 3
SPECIFICATION JSpec
INVARIANTS
  PublishedIsLoadable
CHECK_DEADLOCK FALSE
