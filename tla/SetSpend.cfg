SPECIFICATION Spec
CONSTANTS
  N = 2
  MaxInFlight = 2
  Gated = TRUE
  Cancellable = TRUE
  Fatal <- CancelledOnly
  Budget = 3
  MaxCharges = 1
  MaxCancels = 0
  Faults = FALSE
PROPERTIES SpendNeverDecreases
CHECK_DEADLOCK FALSE
