CONSTANTS
  Agents = {a1, a2}
  Run = Run
  Api = Api
  MaxInFlight = 1
  MaxCancels = 1
  Faults = FALSE
SPECIFICATION Spec
SYMMETRY AgentSymmetry
PROPERTIES NoLaunchAfterCancelled
CHECK_DEADLOCK FALSE
