CONSTANTS
  Agents = {a1, a2}
  Run = Run
  Api = Api
  MaxInFlight = 1
  MaxCancels = 1
  Faults = TRUE
SPECIFICATION Spec
SYMMETRY AgentSymmetry
INVARIANTS TypeOK ReapedRunNeverLaunches ScoredRunHasFinishedAgent
PROPERTIES ResultAgreesWithRun ImplementsLifecycle ImplementsLaunching
CHECK_DEADLOCK FALSE
