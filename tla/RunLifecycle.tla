---------------------------- MODULE RunLifecycle ----------------------------
(***************************************************************************)
(* What the rows of the tables runs and run_agents promise to a reader of  *)
(* the database, whoever writes them: the API, the workflows, the reaper,  *)
(* or an activity whose caller has given up on it.                         *)
(*                                                                         *)
(*   - both columns move only along the tables of the domain package, so a *)
(*     run that is completed, failed or cancelled stays so;                *)
(*   - no agent leaves queued before its run has reached running or ended; *)
(*   - a run is scored only if some agent finished its lane;               *)
(*   - no agent is completed before its run has reached scoring or ended.  *)
(***************************************************************************)
EXTENDS StatusMachines

CONSTANT Agents

VARIABLES run, agent

lifecycleVars == <<run, agent>>

Started == run \notin {"draft", "queued", "provisioning"}
Scored == Started /\ run # "running"

LifecycleInit ==
  /\ run = "queued"
  /\ agent = [a \in Agents |-> "queued"]

MoveRun(to) ==
  /\ RunCanTransition(run, to)
  /\ to = "scoring" => \E a \in Agents : agent[a] = "evaluating"
  /\ run' = to
  /\ UNCHANGED agent

MoveAgent(a, to) ==
  /\ RunAgentCanTransition(agent[a], to)
  /\ Started
  /\ to = "completed" => Scored
  /\ agent' = [agent EXCEPT ![a] = to]
  /\ UNCHANGED run

LifecycleNext ==
  \/ \E to \in RunStatuses : MoveRun(to)
  \/ \E a \in Agents, to \in RunAgentStatuses : MoveAgent(a, to)

LifecycleSpec == LifecycleInit /\ [][LifecycleNext]_lifecycleVars
=============================================================================
