\* The eval set: a gate, a CancelFunc for every child, cancelled children are errors.
SPECIFICATION FairFanoutSpec
CONSTANTS
  N = 5
  MaxInFlight = 3
  Gated = TRUE
  Cancellable = TRUE
  Fatal <- CancelledOnly
INVARIANTS
  FanoutTypeOK
  NoneLost
  SuccessMeansAll
  WorkConserving
  StopReachesPending
PROPERTIES
  ImplementsLaunching
  FanoutReturns
CHECK_DEADLOCK FALSE
