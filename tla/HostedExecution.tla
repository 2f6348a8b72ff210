--------------------------- MODULE HostedExecution ---------------------------
(***************************************************************************)
(* What the record of an agent that runs at a customer's deployment        *)
(* promises, whoever writes it: the activity that dispatches the run, the  *)
(* callbacks of the deployment, or the activity of the deadline.           *)
(*                                                                         *)
(*   - it ends at most once, and its outcome is then final;                *)
(*   - it belongs to one remote run, from the first one that answers or    *)
(*     calls back, and takes evidence of no other;                         *)
(*   - evidence is only added, never two bodies under one event ID, and    *)
(*     none is taken after the end;                                        *)
(*   - it completes only on the evidence of a completion.                  *)
(***************************************************************************)
CONSTANTS Agents, Events, NoExt

VARIABLES outcome, identity, evidence

executionVars == <<outcome, identity, evidence>>

ExecutionInit ==
  /\ outcome = [a \in Agents |-> "open"]
  /\ identity = [a \in Agents |-> NoExt]
  /\ evidence = [a \in Agents |-> {}]

\* The deployment accepts the run and names it.
Name(a, x) ==
  /\ identity[a] = NoExt
  /\ identity' = [identity EXCEPT ![a] = x]
  /\ UNCHANGED <<outcome, evidence>>

\* The deployment reports on the run, and may end it.
Report(a, e) ==
  /\ outcome[a] = "open"
  /\ identity[a] \in {NoExt, e.ext}
  /\ \A f \in evidence[a] : f.id # e.id \/ f = e
  /\ identity' = [identity EXCEPT ![a] = e.ext]
  /\ evidence' = [evidence EXCEPT ![a] = @ \union {e}]
  /\ outcome' = [outcome EXCEPT ![a] =
                   IF e.kind \in {"completed", "failed"} THEN e.kind ELSE @]

\* The deployment refuses a run of which nobody has heard anything yet.
Refuse(a) ==
  /\ outcome[a] = "open" /\ evidence[a] = {}
  /\ outcome' = [outcome EXCEPT ![a] = "failed"]
  /\ UNCHANGED <<identity, evidence>>

ExecutionNext ==
  \E a \in Agents :
    \/ \E e \in Events : Name(a, e.ext) \/ Report(a, e)
    \/ Refuse(a)

ExecutionSpec == ExecutionInit /\ [][ExecutionNext]_executionVars
=============================================================================
