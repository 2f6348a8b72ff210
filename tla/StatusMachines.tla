--------------------------- MODULE StatusMachines ---------------------------
(***************************************************************************)
(* The status tables of the domain package: the life of a run, of a run    *)
(* agent and of an evaluation set.  A map from a status to its successors  *)
(* becomes the set of its edges.                                           *)
(***************************************************************************)

RunStatuses ==
  {"draft", "queued", "provisioning", "running", "scoring",
   "completed", "failed", "cancelled"}

RunAgentStatuses ==
  {"queued", "ready", "executing", "evaluating", "completed", "failed"}

\* runTransitions
RunEdges ==
  {<<"draft", "queued">>,
   <<"queued", "provisioning">>, <<"queued", "failed">>, <<"queued", "cancelled">>,
   <<"provisioning", "running">>, <<"provisioning", "failed">>,
   <<"provisioning", "cancelled">>,
   <<"running", "scoring">>, <<"running", "failed">>, <<"running", "cancelled">>,
   <<"scoring", "completed">>, <<"scoring", "failed">>, <<"scoring", "cancelled">>}

\* runAgentTransitions: an agent has no status of its own for cancellation.
RunAgentEdges ==
  {<<"queued", "ready">>, <<"queued", "failed">>,
   <<"ready", "executing">>, <<"ready", "failed">>,
   <<"executing", "evaluating">>, <<"executing", "failed">>,
   <<"evaluating", "completed">>, <<"evaluating", "failed">>}

\* CanTransitionTo of RunStatus and of RunAgentStatus.
RunCanTransition(from, to) == <<from, to>> \in RunEdges
RunAgentCanTransition(from, to) == <<from, to>> \in RunAgentEdges

\* The statuses without successors.
RunTerminal == {"completed", "failed", "cancelled"}
RunAgentTerminal == {"completed", "failed"}

EvalSetStatuses ==
  {"queued", "expanding", "running", "aggregating",
   "completed", "failed", "cancelled", "budget_exceeded"}

\* evalSetTransitions
EvalSetEdges ==
  {<<"queued", "expanding">>, <<"queued", "failed">>, <<"queued", "cancelled">>,
   <<"expanding", "running">>, <<"expanding", "failed">>, <<"expanding", "cancelled">>,
   <<"running", "aggregating">>, <<"running", "failed">>, <<"running", "cancelled">>,
   <<"running", "budget_exceeded">>,
   <<"aggregating", "completed">>, <<"aggregating", "failed">>,
   <<"aggregating", "cancelled">>, <<"aggregating", "budget_exceeded">>}

EvalSetCanTransition(from, to) == <<from, to>> \in EvalSetEdges

\* IsEvalSetTerminal
EvalSetTerminal == {"completed", "failed", "cancelled", "budget_exceeded"}
=============================================================================
