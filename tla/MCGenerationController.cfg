CONSTANTS
  Launch <- MCLaunch
  Plan <- MCPlan
  Cap <- MCCap
  MaxLives = 2
SPECIFICATION FairSpec
INVARIANTS
  SpawnPaidFor
  OneTree
  CommittedIsWhole
  SummaryAccounts
PROPERTY RunReturns
CHECK_DEADLOCK FALSE
