CONSTANTS
  a1 = a1
  a2 = a2
  h = h
  p1 = p1
  p2 = p2
  s1 = s1
  s2 = s2
  success = success
  failure = failure
  None = None
  Profile = {success, failure}
  Aid = {a1, a2}
  Host = {h}
  Pid = {p1, p2}
  Session = {s1, s2}
  Time = {0, 1}
  MaxAttempts = 2
  NoIdentity = None
SPECIFICATION LSpec
CONSTRAINTS
  FewAfterInterrupt
  FewTroubles
SYMMETRY Symmetry
INVARIANTS
  SpawnHasDurableIntent
  CompleteMeansAllGone
  KnownHandleIsCleaned
PROPERTIES
  NoSpawnAfterUnresolved
CHECK_DEADLOCK FALSE
