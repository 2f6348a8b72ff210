------------------------- MODULE MCRunOrchestration -------------------------
(* Model values are interchangeable: the agents are symmetric.             *)
EXTENDS RunOrchestration, TLC

AgentSymmetry == Permutations(Agents)
=============================================================================
