SPECIFICATION FairSpec
CONSTANTS
  Callers = {c1, c2}
  Boot = Boot
  Lineups <- SmallLineups
  KeyOf <- KeyOfUser
  Size = 1
  MaxLive = 2
  MaxMishaps = 1
  Sandboxes <- Names
  MadeFor <- KeyOfName
  None = None
INVARIANTS PoolTypeOK PoolBounded BudgetIsExact OneOwner OwnedSandboxRuns
  CloseLeavesNothing
PROPERTIES CloseReturns
CHECK_DEADLOCK FALSE
