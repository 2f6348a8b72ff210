CONSTANTS
  Agents = {a1, a2}
  Run = Run
  Api = Api
  MaxInFlight = 2
  MaxCancels = 1
  Faults = FALSE
SPECIFICATION Spec
SYMMETRY AgentSymmetry
INVARIANTS RestingRunIsTerminal
CHECK_DEADLOCK FALSE
