-------------------------- MODULE RunOrchestration --------------------------
(***************************************************************************)
(* One evaluation run, from the row the API inserts to a terminal status:  *)
(*                                                                         *)
(*   - the request that created the run, which starts RunWorkflow and then *)
(*     records its Temporal IDs (starter);                                 *)
(*   - RunWorkflow (pc, launched, settled, errored, toComplete, result);   *)
(*   - one RunAgentWorkflow child per agent (lane, laneResult);            *)
(*   - the cancel endpoint (canceller);                                    *)
(*   - the orphan reaper (Reap).                                           *)
(*                                                                         *)
(* They meet in the rows of runs and run_agents (run, agent, ids) and in   *)
(* Temporal's cancel requests.  A status write is a transaction that reads *)
(* the row and then updates it only if the status is still the one it      *)
(* read; txn holds the one each process waits for.  The activity that runs *)
(* the transaction has five seconds and one attempt.  A workflow that gets *)
(* a timeout or a cancellation stops waiting, but the transaction may      *)
(* still be running and commit later: it moves to late.                    *)
(***************************************************************************)
EXTENDS StatusMachines, Naturals, FiniteSets

CONSTANTS
  Agents,       \* the run agents of the run
  Run, Api,     \* names of the run workflow and of the cancel endpoint
  MaxInFlight,  \* cap of the fan-out (MaxConcurrentRunAgents)
  MaxCancels,   \* bound: how many times the user asks to cancel
  Faults        \* whether activities and calls may fail or time out

ASSUME OrchestrationAssumption ==
  /\ Agents # {} /\ IsFiniteSet(Agents)
  /\ Run \notin Agents /\ Api \notin Agents /\ Run # Api
  /\ MaxInFlight \in Nat \ {0}
  /\ MaxCancels \in Nat
  /\ Faults \in BOOLEAN

Procs == Agents \union {Run, Api}

VARIABLES
  run,              \* runs.status
  agent,            \* run_agents.status
  ids,              \* the Temporal IDs of the run are persisted
  reaped,           \* history: the reaper failed the run
  starter,          \* progress of the create request
  canceller,        \* progress of the cancel request
  sawIds,           \* the cancel request saw persisted IDs
  cancels,          \* cancel requests so far
  cancelRequested,  \* workflows that Temporal was asked to cancel
  txn,              \* status transaction each process waits for
  late,             \* transactions nobody waits for any more
  pc, result,       \* RunWorkflow: next activity, outcome
  launched, settled, errored, toComplete,
  lane, laneResult  \* RunAgentWorkflow of each agent

rows      == <<run, agent, ids>>
requests  == <<starter, canceller, sawIds, cancels>>
parent    == <<pc, result, launched, settled, errored, toComplete>>
lanes     == <<lane, laneResult>>
vars      == <<rows, reaped, requests, cancelRequested, txn, late, parent, lanes>>

-----------------------------------------------------------------------------
(* Status transactions: TransitionRunStatus and TransitionRunAgentStatus.  *)

Unread == "unread"
NoTxn  == [row |-> Api, to |-> "none", saw |-> "none"]

RunTxns   == [row : {Run}, to : RunStatuses, saw : RunStatuses \union {Unread}]
AgentTxns == [row : Agents, to : RunAgentStatuses,
              saw : RunAgentStatuses \union {Unread}]
Txns == RunTxns \union AgentTxns

Begin(row, to) == [row |-> row, to |-> to, saw |-> Unread]

Status(row) == IF row = Run THEN run ELSE agent[row]

Allowed(t) == IF t.row = Run THEN RunCanTransition(run, t.to)
                             ELSE RunAgentCanTransition(agent[t.row], t.to)

\* ErrInvalidTransition when the row is read, ErrTransitionConflict when the
\* guarded UPDATE finds another status.
Rejected(t) == IF t.saw = Unread THEN ~Allowed(t) ELSE Status(t.row) # t.saw

\* Variant: UPDATE runs ... WHERE id = @id, without the guard on the status.
CommitsUnguarded(t) == t.saw # Unread

Commits(t) == t.saw # Unread /\ Status(t.row) = t.saw

SetStatus(t) ==
  IF t.row = Run
    THEN run' = t.to /\ UNCHANGED agent
    ELSE agent' = [agent EXCEPT ![t.row] = t.to] /\ UNCHANGED run

ReadRow(p) ==
  /\ txn[p] # NoTxn /\ txn[p].saw = Unread /\ Allowed(txn[p])
  /\ txn' = [txn EXCEPT ![p].saw = Status(txn[p].row)]
  /\ UNCHANGED <<rows, reaped, requests, cancelRequested, late, parent, lanes>>

\* Variant: a caller that waits for no transaction abandons one all the same.
AbandonAlways(p) == late' = late \union {txn[p]}

\* The caller has timed out or was cancelled: the transaction runs on alone.
Abandon(p) == late' = IF txn[p] = NoTxn THEN late ELSE late \union {txn[p]}

LateRead(t) ==
  /\ t.saw = Unread /\ Allowed(t)
  /\ late' = (late \ {t}) \union {[t EXCEPT !.saw = Status(t.row)]}
  /\ UNCHANGED <<rows, reaped, requests, cancelRequested, txn, parent, lanes>>

LateCommit(t) ==
  /\ Commits(t)
  /\ SetStatus(t)
  /\ late' = late \ {t}
  /\ UNCHANGED <<ids, reaped, requests, cancelRequested, txn, parent, lanes>>

\* It is rejected, or its worker dies and the database rolls it back.
LateEnd(t) ==
  /\ late' = late \ {t}
  /\ UNCHANGED <<rows, reaped, requests, cancelRequested, txn, parent, lanes>>
-----------------------------------------------------------------------------
(* The create request: StartRunWorkflow, after the rows were committed.    *)

WorkflowOpen == pc \notin {"none", "closed"}

Enter(label) ==
  /\ pc' = label
  /\ txn' = [txn EXCEPT ![Run] =
               IF label \in RunStatuses THEN Begin(Run, label) ELSE NoTxn]

StartWorkflow ==
  /\ starter = "start"
  /\ starter' = "record"
  /\ Enter("load")
  /\ UNCHANGED <<rows, reaped, canceller, sawIds, cancels, cancelRequested, late,
                 result, launched, settled, errored, toComplete, lanes>>

\* The call to Temporal or to the database fails, or the API stops: the queued
\* row stays behind for the reaper.
StartFails ==
  /\ starter \in {"start", "record"}
  /\ starter' = "done"
  /\ UNCHANGED <<rows, reaped, canceller, sawIds, cancels, cancelRequested, txn,
                 late, parent, lanes>>

\* SetRunTemporalIDs: the first write wins, and only before a terminal status.
AttachApplies == ~ids /\ run \notin RunTerminal

RecordIDs ==
  /\ starter = "record"
  /\ starter' = "done"
  /\ ids' = (ids \/ AttachApplies)
  /\ UNCHANGED <<run, agent, reaped, canceller, sawIds, cancels, cancelRequested,
                 txn, late, parent, lanes>>

(* ReapOrphanedRuns: one transaction under FOR UPDATE. *)
\* Variant: running rows without persisted IDs, and rows with them, are reaped.
ReapableAnyActive == run \in {"queued", "provisioning", "running"}

\* Variant: the test of the Temporal IDs is inverted.
ReapableInverted == run \in {"queued", "provisioning"} /\ ids

Reapable == run \in {"queued", "provisioning"} /\ ~ids

Reap ==
  /\ Reapable
  /\ run' = "failed"
  /\ reaped' = TRUE
  /\ UNCHANGED <<agent, ids, requests, cancelRequested, txn, late, parent, lanes>>
-----------------------------------------------------------------------------
(* The cancel endpoint: RunReadManager.CancelRun.                          *)

CancelRead ==
  /\ canceller = "idle" /\ cancels < MaxCancels
  /\ RunCanTransition(run, "cancelled")
  /\ canceller' = "request"
  /\ sawIds' = ids
  /\ cancels' = cancels + 1
  /\ UNCHANGED <<rows, reaped, starter, cancelRequested, txn, late, parent, lanes>>

CancelWrite(asked) ==
  /\ canceller' = "write"
  /\ sawIds' = FALSE
  /\ txn' = [txn EXCEPT ![Api] = Begin(Run, "cancelled")]
  /\ cancelRequested' = IF asked THEN cancelRequested \union {Run}
                                 ELSE cancelRequested

CancelWorkflow ==
  /\ canceller = "request" /\ WorkflowOpen
  /\ CancelWrite(TRUE)
  /\ UNCHANGED <<rows, reaped, starter, cancels, late, parent, lanes>>

\* NotFound: before the start, or after the workflow has closed.  Without
\* persisted IDs the row is cancelled all the same, with them it is an error.
CancelNotFound ==
  /\ canceller = "request" /\ ~WorkflowOpen
  /\ IF RunCanTransition(run, "cancelled") /\ ~sawIds
       THEN CancelWrite(FALSE)
       ELSE canceller' = "idle" /\ sawIds' = FALSE /\ UNCHANGED <<txn, cancelRequested>>
  /\ UNCHANGED <<rows, reaped, starter, cancels, late, parent, lanes>>

CancelEnd ==
  /\ canceller' = "idle"
  /\ sawIds' = FALSE
  /\ txn' = [txn EXCEPT ![Api] = NoTxn]
  /\ UNCHANGED <<ids, reaped, starter, cancels, cancelRequested, parent, lanes>>

CancelCommits ==
  /\ canceller = "write" /\ Commits(txn[Api])
  /\ SetStatus(txn[Api])
  /\ CancelEnd
  /\ UNCHANGED late

CancelRejected ==
  /\ canceller = "write" /\ Rejected(txn[Api])
  /\ CancelEnd
  /\ UNCHANGED <<run, agent, late>>

\* The call to Temporal or the database fails, or the API stops.
CancelFails ==
  /\ Faults /\ canceller \in {"request", "write"}
  /\ CancelEnd
  /\ Abandon(Api)
  /\ UNCHANGED <<run, agent>>
-----------------------------------------------------------------------------
(* RunWorkflow.  An activity result reaches the workflow only if no cancel *)
(* was recorded before it.                                                 *)

At(label) == pc = label /\ Run \notin cancelRequested

Close(r) ==
  /\ pc' = "closed"
  /\ result' = r
  /\ txn' = [txn EXCEPT ![Run] = NoTxn]

fanout == <<launched, settled, errored, toComplete>>

LoadRun ==
  /\ At("load")
  /\ IF run = "queued" THEN Enter("attach") /\ UNCHANGED result
                       ELSE Close("error")
  /\ UNCHANGED <<rows, reaped, requests, cancelRequested, late, fanout, lanes>>

AttachRunTemporalIDs ==
  /\ At("attach")
  /\ IF ids \/ AttachApplies
       THEN ids' = TRUE /\ Enter("provisioning") /\ UNCHANGED result
       ELSE UNCHANGED ids /\ Close("error")
  /\ UNCHANGED <<run, agent, reaped, requests, cancelRequested, late, fanout, lanes>>

\* A status write of the main line commits and the workflow moves on.
Advance(from, to) ==
  /\ At(from) /\ Commits(txn[Run])
  /\ SetStatus(txn[Run])
  /\ Enter(to)
  /\ UNCHANGED <<ids, reaped, requests, cancelRequested, late, result>>

Provision == Advance("provisioning", "running") /\ UNCHANGED <<fanout, lanes>>

Launch(S) ==
  /\ launched' = launched \union S
  /\ lane' = [a \in Agents |-> IF a \in S THEN "load" ELSE lane[a]]

Min2(x, y) == IF x <= y THEN x ELSE y

\* Variant: one child more than the cap allows is launched at once.
LaunchFirstOneTooMany ==
  /\ Advance("running", "fanout")
  /\ \E S \in SUBSET Agents :
       /\ Cardinality(S) = Min2(MaxInFlight + 1, Cardinality(Agents))
       /\ Launch(S)
  /\ UNCHANGED <<settled, errored, toComplete, laneResult>>

LaunchFirst ==
  /\ Advance("running", "fanout")
  /\ \E S \in SUBSET Agents :
       /\ Cardinality(S) = Min2(MaxInFlight, Cardinality(Agents))
       /\ Launch(S)
  /\ UNCHANGED <<settled, errored, toComplete, laneResult>>

\* Variant: the errors of the children are not counted.
SettleChildIgnoringErrors(a) ==
  /\ At("fanout")
  /\ a \in launched \ settled /\ lane[a] = "closed"
  /\ settled' = settled \union {a}
  /\ IF launched # Agents
       THEN /\ \E b \in Agents \ launched : Launch({b})
            /\ UNCHANGED <<pc, txn>>
       ELSE /\ UNCHANGED <<launched, lane>>
            /\ IF settled' # Agents THEN UNCHANGED <<pc, txn>> ELSE Enter("scoring")
  /\ UNCHANGED <<rows, reaped, requests, cancelRequested, late, result, errored,
                 toComplete, laneResult>>

\* launchBounded: each completion makes room for one more child; when all have
\* settled the run is scored unless every child returned an error.
SettleChild(a) ==
  /\ At("fanout")
  /\ a \in launched \ settled /\ lane[a] = "closed"
  /\ settled' = settled \union {a}
  /\ errored' = IF laneResult[a] = "ok" THEN errored ELSE errored \union {a}
  /\ IF launched # Agents
       THEN /\ \E b \in Agents \ launched : Launch({b})
            /\ UNCHANGED <<pc, txn>>
       ELSE /\ UNCHANGED <<launched, lane>>
            /\ IF settled' # Agents THEN UNCHANGED <<pc, txn>>
               ELSE Enter(IF errored' = Agents THEN "failed" ELSE "scoring")
  /\ UNCHANGED <<rows, reaped, requests, cancelRequested, late, result, toComplete,
                 laneResult>>

BeginScoring == Advance("scoring", "score") /\ UNCHANGED <<fanout, lanes>>

\* ListRunAgents and the ScoreRunAgent activities, whose errors are recorded
\* and never fail the run.
EnterComplete(S) ==
  /\ toComplete' = S
  /\ IF S = {}
       THEN Enter("scorecard")
       ELSE \E a \in S : /\ pc' = "complete"
                         /\ txn' = [txn EXCEPT ![Run] = Begin(a, "completed")]

ScoreRunAgents ==
  /\ At("score")
  /\ LET evaluating == {a \in Agents : agent[a] = "evaluating"}
     IN IF evaluating = {} THEN Enter("completed") /\ UNCHANGED toComplete
                           ELSE EnterComplete(evaluating)
  /\ UNCHANGED <<rows, reaped, requests, cancelRequested, late, result, launched,
                 settled, errored, lanes>>

\* Variant: the loop over the scored agents ends after the first one.
CompleteAgentOnce ==
  /\ At("complete") /\ Commits(txn[Run])
  /\ SetStatus(txn[Run])
  /\ EnterComplete({})
  /\ UNCHANGED <<ids, reaped, requests, cancelRequested, late, result, launched,
                 settled, errored, lanes>>

CompleteAgent ==
  /\ At("complete") /\ Commits(txn[Run])
  /\ SetStatus(txn[Run])
  /\ EnterComplete(toComplete \ {txn[Run].row})
  /\ UNCHANGED <<ids, reaped, requests, cancelRequested, late, result, launched,
                 settled, errored, lanes>>

\* A failed completion of an agent is only logged.
CompleteAgentFails ==
  /\ At("complete")
  /\ \/ Rejected(txn[Run]) /\ UNCHANGED late
     \/ Faults /\ Abandon(Run)
  /\ EnterComplete(toComplete \ {txn[Run].row})
  /\ UNCHANGED <<rows, reaped, requests, cancelRequested, result, launched, settled,
                 errored, lanes>>

BuildRunScorecard ==
  /\ At("scorecard")
  /\ Enter("completed")
  /\ UNCHANGED <<rows, reaped, requests, cancelRequested, late, result, fanout, lanes>>

CompleteRun ==
  /\ At("completed") /\ Commits(txn[Run])
  /\ SetStatus(txn[Run])
  /\ Close("ok")
  /\ UNCHANGED <<ids, reaped, requests, cancelRequested, late, fanout, lanes>>

MainLine == {"provisioning", "running", "scoring", "completed"}

\* shouldSkipRunFailureTransition: somebody else moved the run.
StepRejected ==
  /\ \E label \in MainLine : At(label)
  /\ Rejected(txn[Run])
  /\ Close("error")
  /\ UNCHANGED <<rows, reaped, requests, cancelRequested, late, fanout, lanes>>

\* Any other activity error: the run is marked failed.
StepFails ==
  /\ Faults /\ \E label \in MainLine \union {"load", "attach", "score", "scorecard"} :
                 At(label)
  /\ Abandon(Run)
  /\ Enter("failed")
  /\ UNCHANGED <<rows, reaped, requests, cancelRequested, result, fanout, lanes>>

\* markRunFailed runs in the workflow's own context.
MarkRunFailed ==
  /\ At("failed") /\ Commits(txn[Run])
  /\ SetStatus(txn[Run])
  /\ Close("error")
  /\ UNCHANGED <<ids, reaped, requests, cancelRequested, late, fanout, lanes>>

\* A cancel request ends the wait with a CanceledError.  It is wrapped in the
\* error of the workflow, which therefore closes as cancelled.
MarkRunFailedFails ==
  /\ pc = "failed"
  /\ \/ Run \notin cancelRequested /\ Rejected(txn[Run]) /\ UNCHANGED late /\ Close("error")
     \/ Faults /\ Abandon(Run) /\ Close("error")
     \/ Run \in cancelRequested /\ Abandon(Run) /\ Close("cancelled")
  /\ UNCHANGED <<rows, reaped, requests, cancelRequested, fanout, lanes>>

\* Variant: the wait for the children does not notice the cancellation.
CancelUnlessWaiting ==
  /\ Run \in cancelRequested
  /\ pc \notin {"none", "fanout", "failed", "cancelled", "reload", "closed"}
  /\ Abandon(Run)
  /\ Enter("cancelled")
  /\ UNCHANGED <<rows, reaped, requests, cancelRequested, result, fanout, lanes>>

\* The cancel request reaches the workflow: pending activities and children are
\* cancelled with it, and the run is marked in a disconnected context.
Cancel ==
  /\ Run \in cancelRequested
  /\ pc \notin {"none", "failed", "cancelled", "reload", "closed"}
  /\ Abandon(Run)
  /\ Enter("cancelled")
  /\ cancelRequested' = cancelRequested \union {a \in launched : lane[a] # "closed"}
  /\ UNCHANGED <<rows, reaped, requests, result, fanout, lanes>>

MarkRunCancelled ==
  /\ pc = "cancelled" /\ Commits(txn[Run])
  /\ SetStatus(txn[Run])
  /\ Close("cancelled")
  /\ UNCHANGED <<ids, reaped, requests, cancelRequested, late, fanout, lanes>>

MarkRunCancelledRejected ==
  /\ pc = "cancelled" /\ Rejected(txn[Run])
  /\ Enter("reload")
  /\ UNCHANGED <<rows, reaped, requests, cancelRequested, late, result, fanout, lanes>>

\* Variant: the latest row is not looked at.
ReloadRunBlindly ==
  /\ pc = "reload"
  /\ Close("cancelled")
  /\ UNCHANGED <<rows, reaped, requests, cancelRequested, late, fanout, lanes>>

\* The latest row decides: only a run that can no longer be cancelled counts as
\* cancelled already.
ReloadRun ==
  /\ pc = "reload"
  /\ Close(IF RunCanTransition(run, "cancelled") THEN "error" ELSE "cancelled")
  /\ UNCHANGED <<rows, reaped, requests, cancelRequested, late, fanout, lanes>>

MarkRunCancelledFails ==
  /\ Faults /\ pc \in {"cancelled", "reload"}
  /\ Abandon(Run)
  /\ Close("error")
  /\ UNCHANGED <<rows, reaped, requests, cancelRequested, fanout, lanes>>
-----------------------------------------------------------------------------
(* RunAgentWorkflow of agent a, in any of its execution modes.             *)

LaneAt(a, label) == lane[a] = label /\ a \notin cancelRequested

LaneEnter(a, label) ==
  /\ lane' = [lane EXCEPT ![a] = label]
  /\ txn' = [txn EXCEPT ![a] =
               IF label \in RunAgentStatuses THEN Begin(a, label) ELSE NoTxn]
  /\ UNCHANGED laneResult

LaneClose(a, r) ==
  /\ lane' = [lane EXCEPT ![a] = "closed"]
  /\ laneResult' = [laneResult EXCEPT ![a] = r]
  /\ txn' = [txn EXCEPT ![a] = NoTxn]

LoadRunAgent(a) ==
  /\ LaneAt(a, "load")
  /\ IF agent[a] = "queued" THEN LaneEnter(a, "ready") ELSE LaneClose(a, "error")
  /\ UNCHANGED <<rows, reaped, requests, cancelRequested, late, parent>>

\* ErrFrozenExecutionContext is skipped: the agent is not marked failed.
FrozenContext(a) ==
  /\ Faults /\ LaneAt(a, "load")
  /\ LaneClose(a, "error")
  /\ UNCHANGED <<rows, reaped, requests, cancelRequested, late, parent>>

LaneAdvance(a, from, to) ==
  /\ LaneAt(a, from) /\ Commits(txn[a])
  /\ SetStatus(txn[a])
  /\ LaneEnter(a, to)
  /\ UNCHANGED <<ids, reaped, requests, cancelRequested, late, parent>>

Prepare(a) == LaneAdvance(a, "ready", "executing")
Execute(a) == LaneAdvance(a, "executing", "work")

\* The execution activity of the lane: the agent succeeds or fails.
Work(a) ==
  /\ LaneAt(a, "work")
  /\ \E to \in {"evaluating", "failed"} : LaneEnter(a, to)
  /\ UNCHANGED <<rows, reaped, requests, cancelRequested, late, parent>>

FinishLane(a) ==
  /\ LaneAt(a, "evaluating") /\ Commits(txn[a])
  /\ SetStatus(txn[a])
  /\ LaneClose(a, "ok")
  /\ UNCHANGED <<ids, reaped, requests, cancelRequested, late, parent>>

LaneFails(a) ==
  /\ Faults /\ \E label \in {"load", "ready", "executing", "evaluating"} : LaneAt(a, label)
  /\ Abandon(a)
  /\ LaneEnter(a, "failed")
  /\ UNCHANGED <<rows, reaped, requests, cancelRequested, parent>>

MarkRunAgentFailed(a) ==
  /\ LaneAt(a, "failed") /\ Commits(txn[a])
  /\ SetStatus(txn[a])
  /\ LaneClose(a, "error")
  /\ UNCHANGED <<ids, reaped, requests, cancelRequested, late, parent>>

\* Invalid transitions and conflicts end the lane without another write.
LaneRejected(a) ==
  /\ \E label \in RunAgentStatuses : LaneAt(a, label)
  /\ Rejected(txn[a])
  /\ LaneClose(a, "error")
  /\ UNCHANGED <<rows, reaped, requests, cancelRequested, late, parent>>

MarkRunAgentFailedFails(a) ==
  /\ Faults /\ LaneAt(a, "failed")
  /\ Abandon(a)
  /\ LaneClose(a, "error")
  /\ UNCHANGED <<rows, reaped, requests, cancelRequested, parent>>

\* A cancelled lane writes no status; cancelled while it marks the agent failed it
\* wraps the CanceledError and closes as cancelled, too.
LaneCancelled(a) ==
  /\ a \in cancelRequested /\ lane[a] \notin {"idle", "closed"}
  /\ Abandon(a)
  /\ LaneClose(a, "cancelled")
  /\ UNCHANGED <<rows, reaped, requests, cancelRequested, parent>>
-----------------------------------------------------------------------------
Init ==
  /\ run = "queued"
  /\ agent = [a \in Agents |-> "queued"]
  /\ ids = FALSE /\ reaped = FALSE
  /\ starter = "start"
  /\ canceller = "idle" /\ sawIds = FALSE /\ cancels = 0
  /\ cancelRequested = {}
  /\ txn = [p \in Procs |-> NoTxn]
  /\ late = {}
  /\ pc = "none" /\ result = "none"
  /\ launched = {} /\ settled = {} /\ errored = {} /\ toComplete = {}
  /\ lane = [a \in Agents |-> "idle"]
  /\ laneResult = [a \in Agents |-> "none"]

Database == \E t \in late : LateRead(t) \/ LateCommit(t) \/ LateEnd(t)

StarterStep == StartWorkflow \/ StartFails \/ RecordIDs

CancelStep ==
  \/ CancelWorkflow \/ CancelNotFound \/ CancelCommits \/ CancelRejected \/ CancelFails

RunStep ==
  \/ LoadRun \/ AttachRunTemporalIDs \/ Provision \/ LaunchFirst
  \/ \E a \in Agents : SettleChild(a)
  \/ BeginScoring \/ ScoreRunAgents \/ CompleteAgent \/ CompleteAgentFails
  \/ BuildRunScorecard \/ CompleteRun \/ StepRejected \/ StepFails
  \/ MarkRunFailed \/ MarkRunFailedFails
  \/ Cancel \/ MarkRunCancelled \/ MarkRunCancelledRejected \/ ReloadRun
  \/ MarkRunCancelledFails

LaneStep(a) ==
  \/ LoadRunAgent(a) \/ FrozenContext(a) \/ Prepare(a) \/ Execute(a) \/ Work(a)
  \/ FinishLane(a) \/ LaneFails(a) \/ MarkRunAgentFailed(a) \/ LaneRejected(a)
  \/ MarkRunAgentFailedFails(a) \/ LaneCancelled(a)

Next ==
  \/ Database \/ StarterStep \/ Reap \/ CancelRead \/ CancelStep \/ RunStep
  \/ \E p \in Procs : ReadRow(p)
  \/ \E a \in Agents : LaneStep(a)

Spec == Init /\ [][Next]_vars

\* Workers keep polling and the API finishes the requests it has begun; nobody
\* has to ask for a cancellation, and nothing has to fail or to commit late.
Fairness ==
  /\ WF_vars(StarterStep) /\ WF_vars(CancelStep) /\ WF_vars(RunStep) /\ WF_vars(Reap)
  /\ \A p \in Procs : WF_vars(ReadRow(p))
  /\ \A a \in Agents : WF_vars(LaneStep(a))

FairSpec == Spec /\ Fairness

-----------------------------------------------------------------------------
(* Properties.                                                             *)

\* What RunWorkflow and a lane can be waiting for; a status stands for its write.
Steps == {"none", "load", "attach", "provisioning", "running", "fanout", "scoring",
          "score", "complete", "scorecard", "completed", "failed", "cancelled",
          "reload", "closed"}
LaneSteps == {"idle", "load", "ready", "executing", "work", "evaluating", "failed",
              "closed"}

\* Every variable has its type; in particular a pending transaction is about
\* its own row: the run for RunWorkflow's main line and for the cancel
\* endpoint, the agent for its lane (RunWorkflow also completes agents).
TypeOK ==
  /\ run \in RunStatuses
  /\ agent \in [Agents -> RunAgentStatuses]
  /\ ids \in BOOLEAN /\ reaped \in BOOLEAN /\ sawIds \in BOOLEAN
  /\ starter \in {"start", "record", "done"}
  /\ canceller \in {"idle", "request", "write"}
  /\ cancels \in 0..MaxCancels
  /\ cancelRequested \subseteq Agents \union {Run}
  /\ txn \in [Procs -> Txns \union {NoTxn}]
  /\ late \subseteq Txns
  /\ pc \in Steps
  /\ result \in {"none", "ok", "error", "cancelled"}
  /\ errored \subseteq settled /\ settled \subseteq launched /\ launched \subseteq Agents
  /\ toComplete \subseteq Agents
  /\ lane \in [Agents -> LaneSteps]
  /\ laneResult \in [Agents -> {"none", "ok", "error", "cancelled"}]

\* Whatever commits, in whatever order and however late, the rows only ever do
\* what RunLifecycle promises: this is what the read, the table check and the
\* guarded UPDATE of TransitionRunStatus are for.
Lifecycle == INSTANCE RunLifecycle
ImplementsLifecycle == Lifecycle!LifecycleSpec

\* The outcome that RunWorkflow reports to its caller (the API, or the session
\* workflow that launched it) is true of the row: it says completed only of a
\* completed run, and cancelled only of a run that can no longer be cancelled.  The
\* one exception is a cancel request that meets a workflow which is marking its
\* run failed: it closes as cancelled, whatever the row says.
ResultAgreesWithRun ==
  [][pc' = "closed" /\ pc # "closed" =>
       /\ result' = "ok" => run' = "completed"
       /\ result' = "cancelled" =>
            run' \in RunTerminal \/ (pc = "failed" /\ Run \in cancelRequested)]_vars

\* The reaper races the start of the workflow, the recording of its IDs and
\* its first status writes, and still never fails a run whose agents are
\* launched, now or later.
ReapedRunNeverLaunches == reaped => launched = {}

\* A run is scored, and completed, only on the work of an agent whose lane
\* succeeded, and no abandoned write takes that agent back.
ScoredRunHasFinishedAgent ==
  run \in {"scoring", "completed"} =>
    \E a \in Agents : laneResult[a] = "ok" /\ agent[a] \in {"evaluating", "completed"}

\* Without failed or timed-out activities, a completed run has no agent left
\* behind in an active status.
CompletedRunHasSettledAgents ==
  run = "completed" => \A a \in Agents : agent[a] \in RunAgentTerminal

\* Once the user's cancel request has ended, the workflow has closed and no
\* abandoned write is left, the run is terminal: cancelling an active run, with
\* nothing failing, never leaves it active with nobody to move it on.
RestingRunIsTerminal ==
  canceller = "idle" /\ pc = "closed" /\ late = {} => run \in RunTerminal

\* The agents of a run are launched as launchBounded promises, although the run
\* may be cancelled, or its row be moved by others, at any time.
LaunchVerdict ==
  IF settled = Agents THEN "done"
  ELSE IF pc \in {"none", "load", "attach", "provisioning", "running", "fanout"} THEN "open"
  ELSE "stopped"

Launching == INSTANCE BoundedLaunching
  WITH Items <- Agents, Cap <- MaxInFlight, active <- launched \ settled,
       finished <- settled, verdict <- LaunchVerdict

ImplementsLaunching == Launching!LaunchingSpec

\* Every run that nobody asks to cancel reaches a terminal status: its workflow
\* takes it there, or the reaper does when the workflow never starts.
RunEventuallyTerminal == <>(run \in RunTerminal \/ cancels > 0)

\* A started run workflow closes and takes its children with it, whatever is
\* cancelled when.
EverythingCloses ==
  pc = "load" ~> pc = "closed" /\ \A a \in Agents : lane[a] \in {"idle", "closed"}

\* Cancelling the row of a run is safe whatever Temporal answered: no agent
\* starts to work for the run after that.
NoLaunchAfterCancelled == [][run = "cancelled" => launched' = launched]_vars
=============================================================================
