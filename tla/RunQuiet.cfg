CONSTANTS
  Agents = {a1, a2}
  Run = Run
  Api = Api
  MaxInFlight = 2
  MaxCancels = 1
  Faults = FALSE
SPECIFICATION FairSpec
INVARIANT CompletedRunHasSettledAgents
PROPERTIES EverythingCloses RunEventuallyTerminal
CHECK_DEADLOCK FALSE
