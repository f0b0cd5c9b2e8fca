CONSTANTS
  a = a
  b = b
  r1 = r1
  h1 = h1
  h2 = h2
  p1 = p1
  p2 = p2
  s1 = s1
  Nil = Nil
  Uid <- MCUid
  Request = {r1}
  Declarations <- MCDeclarations
  Unmeasured = Nil
  ElapsedChoice <- MCElapsed
  MaxEvents = 4
  Host = {h1, h2}
  Pid = {p1, p2}
  Session = {s1}
  Time = {0, 3}
  MaxAttempts = 2
  NoIdentity = Nil
  BoundSession = s1
  ProfileMaps <- MCProfileMaps
  NoHost = Nil
SPECIFICATION Spec
CONSTRAINT FirstNamesFirst
INVARIANTS
  LaunchPaidFor
  JoinHoldsOnDisk
  CompleteMeansEveryTaskRan
PROPERTIES
  NothingAfterPoison
  RunReleasesLock
CHECK_DEADLOCK FALSE
