SPECIFICATION FairSpec
CONSTANTS
  N = 2
  MaxInFlight = 2
  Gated = TRUE
  Cancellable = TRUE
  Fatal <- CancelledOnly
  Budget = 2
  MaxCharges = 1
  MaxCancels = 1
  Faults = TRUE
INVARIANTS EvalSetTypeOK CompletedSetIsWhole SettledSetHasNoSession
PROPERTIES SetMovesAlongTable SetWorkflowCloses
CHECK_DEADLOCK FALSE
