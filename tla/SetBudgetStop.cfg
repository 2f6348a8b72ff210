SPECIFICATION Spec
CONSTANTS
  N = 2
  MaxInFlight = 2
  Gated = TRUE
  Cancellable = TRUE
  Fatal <- CancelledOnly
  Budget = 1
  MaxCharges = 1
  MaxCancels = 0
  Faults = FALSE
INVARIANTS BudgetStopKeepsResults
CHECK_DEADLOCK FALSE
