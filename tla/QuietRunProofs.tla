--------------------------- MODULE QuietRunProofs ---------------------------
(***************************************************************************)
(* What RunOrchestration promises when no activity and no call fails or    *)
(* times out, for every set of agents and every cap:                       *)
(*                                                                         *)
(*   - a completed run has settled all its agents, with any number of      *)
(*     cancel requests;                                                    *)
(*   - a run whose workflow has closed is terminal, without a cancel       *)
(*     request.                                                            *)
(*                                                                         *)
(* On top of OrchestrationInv this takes what the writes of a quiet system *)
(* can rely on: until the workflow is cancelled or closes, nothing is      *)
(* abandoned, every lane is the only writer of its agent, and so the       *)
(* status of an agent is the one its lane has brought it to (LaneRow).     *)
(* QuietInv carries the first theorem, and RestInv the second.             *)
(***************************************************************************)
EXTENDS RunOrchestrationProofs

USE OrchestrationAssumption DEF OrchestrationAssumption

\* The workflow of the run has neither noticed a cancellation nor closed.
Calm == pc \notin {"cancelled", "reload", "closed"}

\* Until then nothing is abandoned, and no lane is cancelled.
Alone == Calm => late = {} /\ cancelRequested \subseteq {Run}

\* The step of a lane tells the status of its agent, also as the pending write
\* has read it.
LaneRow(a) ==
  /\ lane[a] \in {"idle", "load", "ready"} => agent[a] = "queued"
  /\ lane[a] = "executing" => agent[a] = "ready"
  /\ lane[a] \in {"work", "evaluating", "failed"} => agent[a] = "executing"
  /\ lane[a] = "closed" => agent[a] \in {"evaluating", "completed", "failed"}
  /\ lane[a] \in RunAgentStatuses => txn[a].saw \in {Unread, agent[a]}

LaneRows == Calm => \A a \in Agents : LaneRow(a)

\* The steps after the fan-out come when all lanes have closed.
Settling ==
  /\ \A a \in settled : lane[a] = "closed"
  /\ pc \in {"scoring", "score", "complete", "scorecard", "completed"} => settled = Agents

\* What remains to be done for the agents while they are completed.
Completing ==
  pc = "complete" =>
    /\ txn[Run].row \in toComplete /\ txn[Run].saw \in {Unread, "evaluating"}
    /\ \A a \in Agents : IF a \in toComplete THEN agent[a] = "evaluating"
                                             ELSE agent[a] \in RunAgentTerminal

AllSettled == \A a \in Agents : agent[a] \in RunAgentTerminal

\* Whoever may complete the run does so after its agents.
SettledFirst ==
  \/ pc \in {"scorecard", "completed"} \/ run = "completed"
  \/ \E t \in late : t.row = Run /\ t.to = "completed"
  => AllSettled

QuietInv == Alone /\ LaneRows /\ Settling /\ Completing /\ SettledFirst

\* Without a cancel request, the step of the workflow tells the status of the
\* run as well, unless the run is terminal already.
RunRow ==
  \/ run \in RunTerminal
  \/ pc \in {"none", "load", "attach", "provisioning"} /\ run = "queued"
  \/ pc = "running" /\ run = "provisioning"
  \/ pc \in {"fanout", "scoring", "failed"} /\ run = "running"
  \/ pc \in {"score", "complete", "scorecard", "completed"} /\ run = "scoring"

RestInv ==
  /\ canceller = "idle" /\ cancelRequested = {}
  /\ RunRow
  /\ pc \in RunStatuses => txn[Run].saw \in {Unread, run} \/ run \in RunTerminal

-----------------------------------------------------------------------------
(* What steps leave alone *)

\* A workflow that was cancelled or has closed does not come back.
LEMMA CalmBefore == ASSUME OrchestrationInv, [Next]_vars, Calm' PROVE Calm
<1>. SUFFICES ASSUME ~Calm PROVE FALSE
  OBVIOUS
<1>1. ~StarterStep \/ UNCHANGED pc
  BY DEF OrchestrationInv, Lanes, Calm, StarterStep, StartWorkflow, StartFails, RecordIDs, parent
<1>2. ~RunStep
  <2>1. ~LaunchFirst /\ ~Provision /\ ~BeginScoring
    BY DEF Calm, LaunchFirst, Provision, BeginScoring, Advance, At
  <2>2. \A a \in Agents : ~SettleChild(a)
    BY DEF Calm, SettleChild, At
  <2>3. ~LoadRun /\ ~AttachRunTemporalIDs /\ ~ScoreRunAgents /\ ~CompleteAgent /\ ~CompleteAgentFails
        /\ ~BuildRunScorecard /\ ~CompleteRun /\ ~StepRejected /\ ~StepFails
    BY DEF Calm, LoadRun, AttachRunTemporalIDs, ScoreRunAgents, CompleteAgent, CompleteAgentFails,
           BuildRunScorecard, CompleteRun, StepRejected, StepFails, At, MainLine
  <2>4. ~MarkRunFailed /\ ~MarkRunFailedFails /\ ~Cancel /\ ~MarkRunCancelled
        /\ ~MarkRunCancelledRejected /\ ~ReloadRun /\ ~MarkRunCancelledFails
    BY DEF Calm, MarkRunFailed, MarkRunFailedFails, Cancel, MarkRunCancelled,
           MarkRunCancelledRejected, ReloadRun, MarkRunCancelledFails, At, Enter, Close
  <2>. QED  BY <2>1, <2>2, <2>3, <2>4 DEF RunStep
<1>3. UNCHANGED pc
  BY <1>1, <1>2
     DEF Next, vars, Database, LateRead, LateCommit, LateEnd, CancelRead, CancelStep,
         CancelWorkflow, CancelNotFound, CancelCommits, CancelRejected, CancelFails, CancelEnd,
         Reap, ReadRow, LaneStep, LoadRunAgent, FrozenContext, Prepare, Execute, LaneAdvance, Work,
         FinishLane, LaneFails, MarkRunAgentFailed, LaneRejected, MarkRunAgentFailedFails,
         LaneCancelled, parent
<1>. QED  BY <1>3 DEF Calm

\* RunWorkflow writes the status of an agent only to complete it, and never
\* touches the transaction of a lane.
LEMMA RunStepRows ==
  ASSUME TypeOK, Shape, RunStep
  PROVE  /\ ~CompleteAgent => UNCHANGED agent
         /\ \A p \in Procs \ {Run} : txn'[p] = txn[p]
<1>1. ASSUME ~CompleteAgent PROVE UNCHANGED agent
  BY <1>1, ProcsDistinct
     DEF RunStep, LoadRun, AttachRunTemporalIDs, Provision, LaunchFirst, Advance, SettleChild,
         BeginScoring, ScoreRunAgents, CompleteAgentFails, BuildRunScorecard, CompleteRun,
         StepRejected, StepFails, MarkRunFailed, MarkRunFailedFails, Cancel, MarkRunCancelled,
         MarkRunCancelledRejected, ReloadRun, MarkRunCancelledFails, At, Shape, SetStatus,
         RunStatuses, rows
<1>2. \E x : txn' = [txn EXCEPT ![Run] = x]
  <2>1. UNCHANGED txn => txn' = [txn EXCEPT ![Run] = txn[Run]]
    BY ProcsDistinct DEF TypeOK
  <2>2. ASSUME ScoreRunAgents \/ CompleteAgent \/ CompleteAgentFails
        PROVE  \E x : txn' = [txn EXCEPT ![Run] = x]
    BY <2>2 DEF ScoreRunAgents, CompleteAgent, CompleteAgentFails, EnterComplete, Enter
  <2>3. ASSUME ~(ScoreRunAgents \/ CompleteAgent \/ CompleteAgentFails), ~UNCHANGED txn
        PROVE  \E x : txn' = [txn EXCEPT ![Run] = x]
    BY <2>3
       DEF RunStep, LoadRun, AttachRunTemporalIDs, Provision, LaunchFirst, Advance, SettleChild,
           BeginScoring, BuildRunScorecard, CompleteRun, StepRejected, StepFails, MarkRunFailed,
           MarkRunFailedFails, Cancel, MarkRunCancelled, MarkRunCancelledRejected, ReloadRun,
           MarkRunCancelledFails, Enter, Close
  <2>. QED  BY <2>1, <2>2, <2>3
<1>. QED  BY <1>1, <1>2 DEF TypeOK

\* Requests, the reaper and reads write no agent and move no lane.
LEMMA OthersKeepLanes ==
  ASSUME TypeOK, Shape,
         StarterStep \/ Reap \/ CancelRead \/ CancelStep \/ (\E p \in Procs : ReadRow(p))
  PROVE  UNCHANGED <<agent, lane>>
<1>1. CASE CancelCommits
  BY <1>1, ProcsDistinct DEF CancelCommits, CancelEnd, Shape, SetStatus, lanes
<1>. QED
  BY <1>1
     DEF StarterStep, StartWorkflow, StartFails, RecordIDs, CancelRead, CancelStep, CancelWorkflow,
         CancelNotFound, CancelRejected, CancelFails, CancelEnd, Reap, ReadRow, rows, lanes

\* Requests and the reaper leave the transactions of the lanes alone.
LEMMA OthersKeepTxns ==
  ASSUME TypeOK, StarterStep \/ Reap \/ CancelRead \/ CancelStep
  PROVE  \A a \in Agents : txn'[a] = txn[a]
BY ProcsDistinct
   DEF TypeOK, StarterStep, StartWorkflow, StartFails, RecordIDs, CancelRead, CancelStep, Enter,
       CancelWorkflow, CancelNotFound, CancelWrite, CancelCommits, CancelRejected, CancelFails,
       CancelEnd, Reap

\* A lane touches its own agent, step and transaction only.
LEMMA LaneStepsAlone ==
  ASSUME TypeOK, Shape, NEW b \in Agents, LaneStep(b)
  PROVE  /\ UNCHANGED <<run, pc, launched, settled, toComplete>>
         /\ lane[b] # "closed"
         /\ \A p \in Procs \ {b} : txn'[p] = txn[p]
         /\ \A a \in Agents \ {b} : lane'[a] = lane[a] /\ agent'[a] = agent[a]
<1>1. UNCHANGED <<pc, launched, settled, toComplete>> /\ lane[b] # "closed"
  BY DEF LaneStep, LoadRunAgent, FrozenContext, Prepare, Execute, LaneAdvance, Work, FinishLane,
         LaneFails, MarkRunAgentFailed, LaneRejected, MarkRunAgentFailedFails, LaneCancelled,
         LaneAt, parent, RunAgentStatuses
<1>2. \E l, x : lane' = [lane EXCEPT ![b] = l] /\ txn' = [txn EXCEPT ![b] = x]
  BY DEF LaneStep, LoadRunAgent, FrozenContext, Prepare, Execute, LaneAdvance, Work, FinishLane,
         LaneFails, MarkRunAgentFailed, LaneRejected, MarkRunAgentFailedFails, LaneCancelled,
         LaneEnter, LaneClose
<1>3. UNCHANGED <<run, agent>> \/ (lane[b] \in RunAgentStatuses /\ SetStatus(txn[b]))
  BY DEF LaneStep, LoadRunAgent, FrozenContext, Prepare, Execute, LaneAdvance, Work, FinishLane,
         LaneFails, MarkRunAgentFailed, LaneRejected, MarkRunAgentFailedFails, LaneCancelled,
         LaneAt, rows, RunAgentStatuses
<1>4. UNCHANGED run /\ \A a \in Agents \ {b} : agent'[a] = agent[a]
  BY <1>3, ProcsDistinct DEF Shape, SetStatus, TypeOK
<1>. QED  BY <1>1, <1>2, <1>4 DEF TypeOK

-----------------------------------------------------------------------------
(* The parts of QuietInv *)

\* Without faults only a cancellation abandons a transaction.
LEMMA StepAlone ==
  ASSUME ~Faults, OrchestrationInv, QuietInv, [Next]_vars, Calm'
  PROVE  Calm /\ late = {} /\ late' = {} /\ cancelRequested \subseteq {Run} /\ cancelRequested' \subseteq {Run}
<1>1. Calm /\ late = {} /\ cancelRequested \subseteq {Run}
  BY CalmBefore DEF QuietInv, Alone
<1>2. CASE UNCHANGED vars \/ StarterStep \/ Reap \/ CancelRead \/ CancelStep
           \/ \E p \in Procs : ReadRow(p)
  BY <1>1, <1>2
     DEF vars, StarterStep, StartWorkflow, StartFails, RecordIDs, CancelRead, CancelStep,
         CancelWorkflow, CancelNotFound, CancelWrite, CancelCommits, CancelRejected, CancelFails,
         CancelEnd, Reap, ReadRow
<1>3. ASSUME NEW a \in Agents, LaneStep(a) PROVE UNCHANGED <<late, cancelRequested>>
  BY <1>1, <1>3, ProcsDistinct
     DEF LaneStep, LoadRunAgent, FrozenContext, Prepare, Execute, LaneAdvance, Work, FinishLane,
         LaneFails, MarkRunAgentFailed, LaneRejected, MarkRunAgentFailedFails, LaneCancelled
<1>4. CASE RunStep
  BY <1>1, <1>4
     DEF Calm, RunStep, LoadRun, AttachRunTemporalIDs, Provision, LaunchFirst, Advance,
         SettleChild, BeginScoring, ScoreRunAgents, CompleteAgent, CompleteAgentFails,
         BuildRunScorecard, CompleteRun, StepRejected, StepFails, MarkRunFailed,
         MarkRunFailedFails, Cancel, MarkRunCancelled, MarkRunCancelledRejected, ReloadRun,
         MarkRunCancelledFails, Enter, Close
<1>. QED  BY <1>1, <1>2, <1>3, <1>4 DEF Next, Database

\* A lane that is not disturbed brings its agent to the status its step tells.
LEMMA LaneKeepsRow ==
  ASSUME ~Faults, OrchestrationInv, NEW b \in Agents, b \notin cancelRequested,
         LaneRow(b), LaneStep(b)
  PROVE  LaneRow(b)'
<1>. USE DEF LaneRow, LaneAt, RunAgentStatuses
<1>1. TypeOK /\ b \in Procs /\ b # Run
  BY ProcsDistinct DEF OrchestrationInv
<1>2. lane[b] \in RunAgentStatuses => txn[b].row = b /\ txn[b].to = lane[b]
  BY DEF OrchestrationInv, Shape
<1>3. \A l \in LaneSteps :
        LaneEnter(b, l) => lane'[b] = l /\ (l \in RunAgentStatuses => txn'[b].saw = Unread)
  BY <1>1 DEF LaneEnter, Begin, TypeOK
<1>4. \A r : LaneClose(b, r) => lane'[b] = "closed"
  BY <1>1 DEF LaneClose, TypeOK
<1>5. ASSUME lane[b] \in RunAgentStatuses, SetStatus(txn[b]) PROVE agent'[b] = lane[b]
  BY <1>1, <1>2, <1>5 DEF SetStatus, TypeOK
<1>6. CASE LoadRunAgent(b)
  BY <1>3, <1>4, <1>6 DEF LoadRunAgent, rows, LaneSteps
<1>7. CASE Prepare(b) \/ Execute(b)
  BY <1>3, <1>5, <1>7 DEF Prepare, Execute, LaneAdvance, LaneSteps
<1>8. CASE Work(b)
  BY <1>3, <1>8 DEF Work, rows, LaneSteps
<1>9. CASE FinishLane(b) \/ MarkRunAgentFailed(b)
  BY <1>4, <1>5, <1>9 DEF FinishLane, MarkRunAgentFailed
<1>10. ~LaneRejected(b)
  <2>1. ASSUME lane[b] \in RunAgentStatuses PROVE ~Rejected(txn[b])
    BY <1>1, <1>2, <2>1
       DEF Rejected, Allowed, Status, RunAgentCanTransition, RunAgentEdges, TypeOK, LaneSteps
  <2>. QED  BY <2>1 DEF LaneRejected
<1>. QED
  BY <1>6, <1>7, <1>8, <1>9, <1>10
     DEF LaneStep, FrozenContext, LaneFails, MarkRunAgentFailedFails, LaneCancelled

\* Until the workflow is cancelled or closes, LaneRow holds of every agent.
LEMMA StepLaneRows == ASSUME ~Faults, OrchestrationInv, QuietInv, [Next]_vars PROVE LaneRows'
<1>. SUFFICES ASSUME Calm' PROVE \A a \in Agents : LaneRow(a)'
  BY DEF LaneRows
<1>1. /\ TypeOK /\ Shape /\ Lanes /\ Calm /\ late = {} /\ cancelRequested \subseteq {Run}
      /\ \A a \in Agents : LaneRow(a) /\ a \in Procs \ {Run}
  BY StepAlone, ProcsDistinct DEF OrchestrationInv, QuietInv, LaneRows
<1>2. ASSUME NEW a \in Agents, agent'[a] = agent[a], txn'[a] = txn[a],
             lane'[a] = lane[a] \/ (lane[a] = "idle" /\ lane'[a] = "load")
      PROVE  LaneRow(a)'
  BY <1>1, <1>2 DEF LaneRow, RunAgentStatuses
<1>3. ASSUME NEW b \in Agents, LaneStep(b) PROVE \A a \in Agents : LaneRow(a)'
  <2>1. LaneRow(b)'
    BY <1>1, <1>3, LaneKeepsRow
  <2>. QED  BY <1>1, <1>2, <1>3, <2>1, LaneStepsAlone
<1>4. CASE RunStep
  <2>1. CASE CompleteAgent
    <3>1. /\ txn[Run].row \in Agents /\ settled = Agents
          /\ agent' = [agent EXCEPT ![txn[Run].row] = "completed"] /\ UNCHANGED lane
      BY <1>1, <2>1, ProcsDistinct
         DEF CompleteAgent, At, Shape, SetStatus, QuietInv, Settling, lanes
    <3>2. ASSUME NEW a \in Agents PROVE LaneRow(a)'
      <4>1. lane[a] = "closed" /\ agent'[a] \in {agent[a], "completed"}
        BY <1>1, <3>1 DEF QuietInv, Settling, TypeOK
      <4>. QED  BY <1>1, <3>1, <4>1 DEF LaneRow, RunAgentStatuses
    <3>. QED  BY <3>2
  <2>2. CASE LaunchFirst \/ \E c \in Agents : SettleChild(c)
    <3>1. UNCHANGED lane \/ \E S \in SUBSET (Agents \ launched) : Launch(S)
      BY <1>1, <2>2 DEF LaunchFirst, Advance, SettleChild, At, Lanes, Early
    <3>2. ~CompleteAgent
      BY <2>2 DEF LaunchFirst, Advance, SettleChild, CompleteAgent, At
    <3>. QED  BY <1>1, <1>2, <1>4, <3>1, <3>2, RunStepRows, LaunchLanes
  <2>3. CASE ~(CompleteAgent \/ LaunchFirst \/ \E c \in Agents : SettleChild(c))
    <3>1. UNCHANGED lane
      BY <1>4, <2>3
         DEF RunStep, LoadRun, AttachRunTemporalIDs, Provision, BeginScoring, ScoreRunAgents,
             CompleteAgentFails, BuildRunScorecard, CompleteRun, StepRejected, StepFails,
             MarkRunFailed, MarkRunFailedFails, Cancel, MarkRunCancelled, MarkRunCancelledRejected,
             ReloadRun, MarkRunCancelledFails, lanes
    <3>. QED  BY <1>1, <1>2, <1>4, <2>3, <3>1, RunStepRows
  <2>. QED  BY <2>1, <2>2, <2>3
<1>5. ASSUME NEW p \in Procs, ReadRow(p), NEW a \in Agents PROVE LaneRow(a)'
  <2>1. UNCHANGED <<agent, lane>>
    BY <1>1, <1>5, OthersKeepLanes
  <2>2. CASE p # a
    <3>1. txn'[a] = txn[a]
      BY <1>1, <1>5, <2>2 DEF ReadRow, TypeOK
    <3>. QED  BY <1>2, <2>1, <3>1
  <2>3. CASE p = a
    <3>1. lane[a] \in RunAgentStatuses => txn'[a].saw = agent[a]
      <4>1. lane[a] \in RunAgentStatuses => txn[a] \in Txns /\ txn[a].row = a
        BY <1>1, WaitedForType DEF Shape
      <4>2. txn'[a] = [txn[a] EXCEPT !.saw = Status(txn[a].row)]
        BY <1>1, <1>5, <2>3 DEF ReadRow, TypeOK
      <4>3. txn[a] \in Txns => txn'[a].saw = Status(txn[a].row)
        BY <4>2 DEF Txns, RunTxns, AgentTxns
      <4>. QED  BY <4>1, <4>3, ProcsDistinct DEF Status
    <3>. QED  BY <1>1, <2>1, <3>1 DEF LaneRow
  <2>. QED  BY <2>2, <2>3
<1>6. CASE StarterStep \/ Reap \/ CancelRead \/ CancelStep
  BY <1>1, <1>2, <1>6, OthersKeepLanes, OthersKeepTxns
<1>7. CASE UNCHANGED vars
  BY <1>2, <1>7 DEF vars, rows, lanes
<1>. QED  BY <1>1, <1>3, <1>4, <1>5, <1>6, <1>7 DEF Next, Database

\* No step takes a settled child back, and the fan-out ends when all have settled.
LEMMA StepSettling == ASSUME OrchestrationInv, QuietInv, [Next]_vars PROVE Settling'
<1>. DEFINE After == {"scoring", "score", "complete", "scorecard", "completed"}
<1>1. TypeOK /\ Shape /\ Lanes /\ Settling /\ settled \subseteq launched
  BY DEF OrchestrationInv, QuietInv, TypeOK
<1>2. CASE UNCHANGED <<lane, settled>> /\ (pc' \in After => pc \in After)
  BY <1>1, <1>2 DEF Settling
<1>3. ASSUME NEW b \in Agents, LaneStep(b) PROVE Settling'
  BY <1>1, <1>3, LaneStepsAlone DEF Settling, TypeOK
<1>4. ASSUME NEW a \in Agents, SettleChild(a) PROVE Settling'
  <2>1. settled' = settled \union {a} /\ lane[a] = "closed" /\ a \in launched
    BY <1>4 DEF SettleChild
  <2>2. UNCHANGED lane \/ \E S \in SUBSET (Agents \ launched) : Launch(S)
    BY <1>4 DEF SettleChild
  <2>3. \A c \in Agents : lane[c] = "closed" => lane'[c] = "closed"
    BY <1>1, <2>2, LaunchLanes
  <2>4. pc' \in After => settled' = Agents
    BY <1>4 DEF SettleChild, At, Enter
  <2>. QED  BY <1>1, <2>1, <2>3, <2>4 DEF Settling, TypeOK
<1>5. CASE LaunchFirst
  <2>1. launched = {} /\ settled = {} /\ UNCHANGED settled /\ pc' = "fanout"
    BY <1>1, <1>5 DEF LaunchFirst, Advance, At, Enter, Lanes, Early
  <2>. QED  BY <2>1 DEF Settling
<1>6. CASE RunStep /\ ~LaunchFirst /\ \A a \in Agents : ~SettleChild(a)
  <2>1. UNCHANGED <<lane, settled>>
    BY <1>6
       DEF RunStep, LoadRun, AttachRunTemporalIDs, Provision, BeginScoring, ScoreRunAgents,
           CompleteAgent, CompleteAgentFails, BuildRunScorecard, CompleteRun, StepRejected,
           StepFails, MarkRunFailed, MarkRunFailedFails, Cancel, MarkRunCancelled,
           MarkRunCancelledRejected, ReloadRun, MarkRunCancelledFails, lanes, fanout
  <2>2. pc' \in After => pc \in After
    BY <1>6
       DEF RunStep, LoadRun, AttachRunTemporalIDs, Provision, BeginScoring, Advance, ScoreRunAgents,
           CompleteAgent, CompleteAgentFails, BuildRunScorecard, CompleteRun, StepRejected,
           StepFails, MarkRunFailed, MarkRunFailedFails, Cancel, MarkRunCancelled,
           MarkRunCancelledRejected, ReloadRun, MarkRunCancelledFails, At, Enter, Close
  <2>. QED  BY <1>2, <2>1, <2>2
<1>7. CASE UNCHANGED vars \/ Database \/ StarterStep \/ Reap \/ CancelRead \/ CancelStep
           \/ \E p \in Procs : ReadRow(p)
  <2>1. UNCHANGED <<lane, settled>> /\ (pc' \in After => pc \in After)
    BY <1>7
       DEF vars, Database, LateRead, LateCommit, LateEnd, StarterStep, StartWorkflow, StartFails,
           RecordIDs, CancelRead, CancelStep, CancelWorkflow, CancelNotFound, CancelCommits,
           CancelRejected, CancelFails, CancelEnd, Reap, ReadRow, Enter, parent, lanes
  <2>. QED  BY <1>2, <2>1
<1>. QED  BY <1>3, <1>4, <1>5, <1>6, <1>7 DEF Next

\* While the agents are completed nobody else writes them, so each completion
\* commits, and the list of those still to be completed is exact.
LEMMA StepCompleting ==
  ASSUME ~Faults, OrchestrationInv, QuietInv, [Next]_vars
  PROVE  Completing'
<1>. SUFFICES ASSUME pc' = "complete" PROVE Completing'
  BY DEF Completing
<1>. DEFINE Evaluating == {a \in Agents : agent[a] = "evaluating"}
<1>1. /\ TypeOK /\ Shape /\ Lanes /\ Calm /\ late = {} /\ Settling /\ Completing
      /\ \A a \in Agents : LaneRow(a) /\ a # Run
  BY StepAlone, ProcsDistinct DEF OrchestrationInv, QuietInv, LaneRows, Calm
<1>2. CASE ScoreRunAgents
  <2>1. UNCHANGED agent /\ pc = "score" /\ Evaluating # {} /\ EnterComplete(Evaluating)
    BY <1>2 DEF ScoreRunAgents, At, Enter, rows
  <2>2. PICK a \in Evaluating : txn' = [txn EXCEPT ![Run] = Begin(a, "completed")]
    BY <2>1 DEF EnterComplete
  <2>3. txn'[Run].row = a /\ txn'[Run].saw = Unread /\ toComplete' = Evaluating
    BY <1>1, <2>1, <2>2, ProcsDistinct DEF EnterComplete, Begin, TypeOK
  <2>4. \A b \in Agents : agent[b] \in {"evaluating", "completed", "failed"}
    BY <1>1, <2>1 DEF Settling, LaneRow
  <2>. QED  BY <2>1, <2>3, <2>4 DEF Completing, RunAgentTerminal
<1>3. CASE CompleteAgent
  <2>. DEFINE r == txn[Run].row
              Rest == toComplete \ {r}
  <2>1. pc = "complete" /\ r \in Agents /\ r # Run /\ txn[Run].to = "completed"
    BY <1>1, <1>3 DEF CompleteAgent, At, Shape
  <2>2. agent' = [agent EXCEPT ![r] = "completed"]
    BY <1>3, <2>1 DEF CompleteAgent, SetStatus
  <2>3. toComplete' = Rest /\ Rest # {}
    BY <1>3 DEF CompleteAgent, EnterComplete, Enter
  <2>4. PICK a \in Rest : txn' = [txn EXCEPT ![Run] = Begin(a, "completed")]
    BY <1>3, <2>3 DEF CompleteAgent, EnterComplete
  <2>5. txn'[Run].row = a /\ txn'[Run].saw = Unread
    BY <1>1, <2>4, ProcsDistinct DEF Begin, TypeOK
  <2>. QED  BY <1>1, <2>1, <2>2, <2>3, <2>5 DEF Completing, TypeOK, RunAgentTerminal
<1>4. ~CompleteAgentFails
  <2>1. SUFFICES ASSUME pc = "complete" PROVE ~Rejected(txn[Run])
    BY DEF CompleteAgentFails, At
  <2>2. /\ txn[Run].row \in Agents /\ txn[Run].row # Run /\ txn[Run].to = "completed"
        /\ agent[txn[Run].row] = "evaluating" /\ txn[Run].saw \in {Unread, "evaluating"}
    BY <1>1, <2>1 DEF Shape, Completing
  <2>. QED  BY <2>2 DEF Rejected, Allowed, Status, RunAgentCanTransition, RunAgentEdges
<1>5. CASE RunStep /\ ~ScoreRunAgents /\ ~CompleteAgent
  BY <1>4, <1>5
     DEF RunStep, LoadRun, AttachRunTemporalIDs, Provision, LaunchFirst, Advance, SettleChild,
         BeginScoring, BuildRunScorecard, CompleteRun, StepRejected, StepFails, MarkRunFailed,
         MarkRunFailedFails, Cancel, MarkRunCancelled, MarkRunCancelledRejected, ReloadRun,
         MarkRunCancelledFails, At, Enter, Close
<1>6. ASSUME UNCHANGED <<pc, toComplete, agent>>, txn'[Run] = txn[Run] PROVE Completing'
  BY <1>1, <1>6 DEF Completing
<1>7. CASE UNCHANGED vars \/ StarterStep \/ Reap \/ CancelRead \/ CancelStep
  <2>1. ~StartWorkflow
    BY DEF StartWorkflow, Enter
  <2>2. UNCHANGED <<pc, toComplete>> /\ txn'[Run] = txn[Run]
    BY <1>1, <1>7, <2>1, ProcsDistinct
       DEF vars, StarterStep, StartFails, RecordIDs, CancelRead, CancelStep, CancelWorkflow,
           CancelNotFound, CancelWrite, CancelCommits, CancelRejected, CancelFails, CancelEnd,
           Reap, parent, TypeOK
  <2>3. UNCHANGED agent
    BY <1>1, <1>7, OthersKeepLanes DEF vars, rows
  <2>. QED  BY <1>6, <2>2, <2>3
<1>8. ASSUME NEW p \in Procs, ReadRow(p) PROVE Completing'
  <2>1. UNCHANGED <<pc, toComplete, agent>>
    BY <1>8 DEF ReadRow, parent, rows
  <2>2. CASE p # Run
    BY <1>1, <1>6, <1>8, <2>1, <2>2, ProcsDistinct DEF ReadRow, TypeOK
  <2>3. CASE p = Run
    <3>1. txn[Run] \in Txns /\ txn[Run].row \in Agents
      BY <1>1, <2>1, WaitedForType DEF Shape
    <3>2. txn' = [txn EXCEPT ![Run].saw = Status(txn[Run].row)]
      BY <1>8, <2>3 DEF ReadRow
    <3>3. txn'[Run].row = txn[Run].row /\ txn'[Run].saw = Status(txn[Run].row)
      BY <1>1, <3>1, <3>2, ProcsDistinct DEF TypeOK, Txns, RunTxns, AgentTxns
    <3>. QED  BY <1>1, <2>1, <3>1, <3>3 DEF Completing, Status
  <2>. QED  BY <2>2, <2>3
<1>9. ASSUME NEW b \in Agents, LaneStep(b) PROVE FALSE
  BY <1>1, <1>9, LaneStepsAlone DEF Settling
<1>. QED  BY <1>1, <1>2, <1>3, <1>5, <1>7, <1>8, <1>9 DEF Next, Database

\* Whoever is about to complete the run does so after its agents.
LEMMA CompletionIsLast ==
  ASSUME OrchestrationInv, QuietInv, NEW t, Pending(t), t # NoTxn,
         t.row = Run, t.to = "completed"
  PROVE  AllSettled
<1>1. CASE t \in late
  BY <1>1 DEF QuietInv, SettledFirst
<1>2. CASE t = txn[Run]
  BY <1>2, ProcsDistinct DEF OrchestrationInv, Shape, QuietInv, SettledFirst
<1>3. t # txn[Api] /\ \A a \in Agents : t # txn[a]
  BY ProcsDistinct DEF OrchestrationInv, Shape
<1>. QED  BY <1>1, <1>2, <1>3 DEF Pending, Procs

\* An agent that is terminal stays so, and the run is completed after all are.
LEMMA StepSettledFirst ==
  ASSUME ~Faults, OrchestrationInv, QuietInv, [Next]_vars
  PROVE  SettledFirst'
<1>. DEFINE Last == {"scorecard", "completed"}
<1>0. TypeOK /\ Shape /\ Lanes
  BY DEF OrchestrationInv
<1>1. AllSettled => AllSettled'
  BY <1>0, StepLifecycle, SameTables
     DEF Lifecycle!LifecycleNext, Lifecycle!lifecycleVars, Lifecycle!MoveRun, Lifecycle!MoveAgent,
         AllSettled, RunAgentTerminal, RunAgentCanTransition, RunAgentEdges, TypeOK
<1>2. ASSUME pc' \in Last PROVE AllSettled'
  <2>1. CASE pc \in Last
    BY <1>1, <2>1 DEF QuietInv, SettledFirst
  <2>2. CASE ScoreRunAgents
    <3>1. pc = "score" /\ UNCHANGED agent /\ \A a \in Agents : agent[a] # "evaluating"
      <4>. DEFINE Evaluating == {a \in Agents : agent[a] = "evaluating"}
      <4>1. Evaluating # {} => pc' = "complete"
        BY <2>2 DEF ScoreRunAgents, EnterComplete
      <4>. QED  BY <1>2, <2>2, <4>1 DEF ScoreRunAgents, At, rows
    <3>. QED  BY <3>1 DEF QuietInv, Settling, LaneRows, LaneRow, Calm, AllSettled, RunAgentTerminal
  <2>3. CASE CompleteAgent
    <3>. DEFINE r == txn[Run].row
    <3>1. pc = "complete" /\ r \in Agents /\ r # Run /\ txn[Run].to = "completed"
      BY <1>0, <2>3 DEF CompleteAgent, At, Shape
    <3>2. agent' = [agent EXCEPT ![r] = "completed"]
      BY <2>3, <3>1 DEF CompleteAgent, SetStatus
    <3>3. toComplete \ {r} = {}
      BY <1>2, <2>3 DEF CompleteAgent, EnterComplete
    <3>. QED
      BY <1>0, <3>1, <3>2, <3>3 DEF QuietInv, Completing, AllSettled, RunAgentTerminal, TypeOK
  <2>4. CASE CompleteAgentFails
    <3>1. pc = "complete" /\ Rejected(txn[Run])
      BY <2>4 DEF CompleteAgentFails, At
    <3>2. /\ txn[Run].row \in Agents /\ txn[Run].row # Run /\ txn[Run].to = "completed"
          /\ agent[txn[Run].row] = "evaluating" /\ txn[Run].saw \in {Unread, "evaluating"}
      BY <1>0, <3>1, ProcsDistinct DEF Shape, QuietInv, Completing
    <3>. QED
      BY <3>1, <3>2 DEF Rejected, Allowed, Status, RunAgentCanTransition, RunAgentEdges
  <2>5. CASE RunStep /\ ~ScoreRunAgents /\ ~CompleteAgent /\ ~CompleteAgentFails
    <3>1. pc \in Last
      BY <1>2, <2>5
         DEF RunStep, LoadRun, AttachRunTemporalIDs, Provision, LaunchFirst, Advance, SettleChild,
             BeginScoring, BuildRunScorecard, CompleteRun, StepRejected, StepFails, MarkRunFailed,
             MarkRunFailedFails, Cancel, MarkRunCancelled, MarkRunCancelledRejected, ReloadRun,
             MarkRunCancelledFails, At, Enter, Close
    <3>. QED  BY <2>1, <3>1
  <2>6. UNCHANGED pc \/ StartWorkflow \/ RunStep
    BY DEF Next, vars, Database, LateRead, LateCommit, LateEnd, StarterStep, StartFails, RecordIDs,
           CancelRead, CancelStep, CancelWorkflow, CancelNotFound, CancelCommits, CancelRejected,
           CancelFails, CancelEnd, Reap, ReadRow, LaneStep, LoadRunAgent, FrozenContext, Prepare,
           Execute, LaneAdvance, Work, FinishLane, LaneFails, MarkRunAgentFailed, LaneRejected,
           MarkRunAgentFailedFails, LaneCancelled, parent
  <2>. QED  BY <1>2, <2>1, <2>2, <2>3, <2>4, <2>5, <2>6 DEF StartWorkflow, Enter
<1>3. ASSUME run' = "completed" PROVE AllSettled
  <2>1. CASE run = "completed"
    BY <2>1 DEF QuietInv, SettledFirst
  <2>2. CASE run # "completed"
    <3>1. PICK t \in Txns : Pending(t) /\ SetStatus(t)
      BY <1>0, <1>3, <2>2, StepRows DEF CommitStep, ReapStep
    <3>2. t.row = Run /\ t.to = "completed" /\ t # NoTxn
      BY <1>3, <2>2, <3>1, NoTxnIsNone DEF SetStatus
    <3>. QED  BY <3>1, <3>2, CompletionIsLast
  <2>. QED  BY <2>1, <2>2
<1>4. ASSUME NEW t \in late', t.row = Run, t.to = "completed" PROVE AllSettled
  <2>1. CASE t \in late
    BY <1>4, <2>1 DEF QuietInv, SettledFirst
  <2>2. ASSUME NEW u \in late, LateRead(u) PROVE t \in late \/ (u.row = Run /\ u.to = "completed")
    BY <1>0, <1>4, <2>2 DEF LateRead, TypeOK, Txns, RunTxns, AgentTxns
  <2>3. ASSUME NEW p \in Procs, AbandonStep(p) PROVE t \in late \/ (Pending(t) /\ t # NoTxn)
    BY <1>4, <2>3 DEF AbandonStep, Pending
  <2>. QED
    BY <1>0, <1>4, <2>1, <2>2, <2>3, StepLate, CompletionIsLast DEF QuietInv, SettledFirst
<1>. QED  BY <1>1, <1>2, <1>3, <1>4 DEF SettledFirst

\* A run that has just been inserted is quiet.
LEMMA QuietInit == Init => QuietInv
BY DEF Init, QuietInv, Alone, LaneRows, LaneRow, RunAgentStatuses, Settling, Completing, SettledFirst

\* Every step of a quiet system keeps QuietInv.
LEMMA StepQuiet ==
  ASSUME ~Faults, OrchestrationInv, QuietInv, [Next]_vars
  PROVE  QuietInv'
<1>1. Alone'
  BY StepAlone DEF Alone
<1>. QED
  BY <1>1, StepLaneRows, StepSettling, StepCompleting, StepSettledFirst DEF QuietInv

\* QuietInv holds throughout when nothing fails, with any number of cancel
\* requests.
LEMMA QuietInvariant == ~Faults => (Spec => [](OrchestrationInv /\ QuietInv))
<1>. SUFFICES ASSUME ~Faults PROVE Spec => [](OrchestrationInv /\ QuietInv)
  OBVIOUS
<1>1. Init => OrchestrationInv /\ QuietInv
  BY InitInv, QuietInit
<1>2. OrchestrationInv /\ QuietInv /\ [Next]_vars => (OrchestrationInv /\ QuietInv)'
  BY StepInv, StepQuiet
<1>. QED  BY <1>1, <1>2, PTL DEF Spec

\* When no activity fails, a completed run has no agent left behind in an
\* active status, whatever is cancelled when.
THEOREM SettledAgents == ~Faults => (Spec => []CompletedRunHasSettledAgents)
<1>. SUFFICES ASSUME ~Faults PROVE Spec => []CompletedRunHasSettledAgents
  OBVIOUS
<1>1. QuietInv => CompletedRunHasSettledAgents
  BY DEF QuietInv, SettledFirst, AllSettled, CompletedRunHasSettledAgents
<1>. QED  BY <1>1, QuietInvariant, PTL

-----------------------------------------------------------------------------
(* Without a cancel request *)

\* The main line of RunWorkflow is never rejected while the run is active.
LEMMA MainLineProceeds ==
  ASSUME OrchestrationInv, RestInv, run \notin RunTerminal, pc \in RunStatuses
  PROVE  ~Rejected(txn[Run])
<1>1. txn[Run].row = Run /\ txn[Run].to = pc /\ txn[Run].saw \in {Unread, run}
  BY DEF OrchestrationInv, Shape, RestInv
<1>2. RunCanTransition(run, pc)
  BY DEF RestInv, RunRow, RunStatuses, RunTerminal, RunCanTransition, RunEdges
<1>. QED  BY <1>1, <1>2 DEF Rejected, Allowed, Status

\* The steps of RunWorkflow keep RunRow in a system that is quiet.
LEMMA RunStepRest ==
  ASSUME ~Faults, OrchestrationInv, QuietInv, RestInv, run \notin RunTerminal, RunStep
  PROVE  RunRow' /\ (pc' \in RunStatuses => txn'[Run].saw = Unread \/ UNCHANGED <<run, pc, txn>>)
<1>. USE DEF OrchestrationInv
<1>1. Run \notin cancelRequested /\ pc \notin {"cancelled", "reload", "closed"} /\ RunRow
  BY DEF RestInv, RunRow
<1>2. ASSUME NEW label \in Steps, Enter(label)
      PROVE  pc' = label /\ (label \in RunStatuses => txn'[Run].saw = Unread)
  BY <1>2, ProcsDistinct DEF TypeOK, Enter, Begin
<1>3. CASE LoadRun
  BY <1>1, <1>2, <1>3 DEF LoadRun, At, RunRow, RunTerminal, rows, Steps
<1>4. CASE AttachRunTemporalIDs
  BY <1>1, <1>2, <1>4 DEF AttachRunTemporalIDs, AttachApplies, At, RunRow, RunTerminal, Steps
<1>5. CASE Provision \/ LaunchFirst \/ BeginScoring
  <2>1. run' = pc
    BY <1>5, MainLineCommit DEF Provision, LaunchFirst, BeginScoring, Advance, At, RunStatuses
  <2>. QED
    BY <1>1, <1>2, <1>5, <2>1
       DEF Provision, LaunchFirst, BeginScoring, Advance, At, RunRow, RunStatuses, Steps
<1>6. ASSUME NEW a \in Agents, SettleChild(a)
      PROVE  RunRow' /\ (pc' \in RunStatuses => txn'[Run].saw = Unread \/ UNCHANGED <<run, pc, txn>>)
  BY <1>1, <1>2, <1>6 DEF SettleChild, At, RunRow, RunTerminal, rows, Steps
<1>7. CASE ScoreRunAgents \/ BuildRunScorecard \/ CompleteAgent \/ CompleteAgentFails
  <2>1. UNCHANGED run
    BY <1>7, ProcsDistinct
       DEF ScoreRunAgents, BuildRunScorecard, CompleteAgent, CompleteAgentFails, At, rows, Shape,
           SetStatus
  <2>2. pc \in {"score", "complete", "scorecard"}
    BY <1>7 DEF ScoreRunAgents, BuildRunScorecard, CompleteAgent, CompleteAgentFails, At
  <2>3. pc' \in {"complete", "scorecard", "completed"}
        /\ (pc' = "completed" => txn'[Run].saw = Unread)
    <3>1. Enter("scorecard") \/ Enter("completed") \/ pc' = "complete"
      BY <1>7
         DEF ScoreRunAgents, BuildRunScorecard, CompleteAgent, CompleteAgentFails, EnterComplete
    <3>. QED  BY <1>2, <3>1 DEF Steps, RunStatuses
  <2>. QED  BY <1>1, <2>1, <2>2, <2>3 DEF RunRow, RunStatuses, RunTerminal
<1>8. CASE CompleteRun \/ MarkRunFailed
  <2>1. run' = pc /\ run' \in RunTerminal /\ pc' = "closed"
    BY <1>8, MainLineCommit DEF CompleteRun, MarkRunFailed, At, Close, RunStatuses, RunTerminal
  <2>. QED  BY <2>1 DEF RunRow, RunStatuses
<1>9. ~StepRejected /\ ~MarkRunFailedFails
  BY <1>1, MainLineProceeds DEF StepRejected, MarkRunFailedFails, At, MainLine, RunStatuses
<1>10. ~Cancel /\ ~MarkRunCancelled /\ ~MarkRunCancelledRejected /\ ~ReloadRun
       /\ ~MarkRunCancelledFails /\ ~StepFails
  BY <1>1
     DEF Cancel, MarkRunCancelled, MarkRunCancelledRejected, ReloadRun, MarkRunCancelledFails,
         StepFails
<1>. QED  BY <1>3, <1>4, <1>5, <1>6, <1>7, <1>8, <1>9, <1>10 DEF RunStep

\* Every step of a system without cancel requests keeps RestInv.
LEMMA StepRest ==
  ASSUME ~Faults, MaxCancels = 0, OrchestrationInv, QuietInv, RestInv, [Next]_vars
  PROVE  RestInv'
<1>0. TypeOK /\ Shape /\ Lanes
  BY DEF OrchestrationInv
<1>1. ~CancelRead /\ ~CancelStep /\ ~Cancel
  BY <1>0
     DEF RestInv, TypeOK, CancelRead, CancelStep, CancelWorkflow, CancelNotFound, CancelCommits,
         CancelRejected, CancelFails, Cancel
<1>2. canceller' = "idle" /\ cancelRequested' = {}
  <2>1. UNCHANGED <<canceller, cancelRequested>>
    BY <1>1
       DEF Next, vars, Database, LateRead, LateCommit, LateEnd, StarterStep, StartWorkflow,
           StartFails, RecordIDs, Reap, ReadRow, LaneStep, LoadRunAgent, FrozenContext, Prepare,
           Execute, LaneAdvance, Work, FinishLane, LaneFails, MarkRunAgentFailed, LaneRejected,
           MarkRunAgentFailedFails, LaneCancelled, RunStep, LoadRun, AttachRunTemporalIDs,
           Provision, LaunchFirst, Advance, SettleChild, BeginScoring, ScoreRunAgents,
           CompleteAgent, CompleteAgentFails, BuildRunScorecard, CompleteRun, StepRejected,
           StepFails, MarkRunFailed, MarkRunFailedFails, MarkRunCancelled,
           MarkRunCancelledRejected, ReloadRun, MarkRunCancelledFails, requests
  <2>. QED  BY <2>1 DEF RestInv
<1>3. CASE run \in RunTerminal
  BY <1>2, <1>3, StepStable DEF RestInv, RunRow
<1>4. CASE run \notin RunTerminal
  <2>1. Calm /\ late = {} /\ RunRow
    BY <1>4 DEF RestInv, RunRow, Calm, QuietInv, Alone
  <2>2. ASSUME UNCHANGED <<run, pc>>, txn'[Run] = txn[Run] PROVE RestInv'
    BY <1>2, <2>2 DEF RestInv, RunRow
  <2>3. CASE RunStep
    BY <1>2, <1>4, <2>3, RunStepRest DEF RestInv
  <2>4. ASSUME NEW a \in Agents, LaneStep(a) PROVE RestInv'
    BY <1>0, <2>2, <2>4, LaneStepsAlone, ProcsDistinct
  <2>5. CASE StartWorkflow
    <3>1. pc = "none" /\ pc' = "load" /\ UNCHANGED run
      BY <1>0, <2>5 DEF Lanes, StartWorkflow, Enter, rows
    <3>. QED  BY <1>2, <2>1, <3>1 DEF RestInv, RunRow, RunStatuses
  <2>6. CASE Reap
    BY <1>2, <2>6 DEF Reap, RestInv, RunRow, RunTerminal
  <2>7. CASE StartFails \/ RecordIDs \/ UNCHANGED vars
    BY <2>2, <2>7 DEF StartFails, RecordIDs, vars, rows, parent
  <2>8. ASSUME NEW p \in Procs, ReadRow(p) PROVE RestInv'
    <3>1. UNCHANGED <<run, pc>>
      BY <2>8 DEF ReadRow, rows, parent
    <3>2. CASE p # Run
      BY <1>0, <2>2, <2>8, <3>1, <3>2, ProcsDistinct DEF ReadRow, TypeOK
    <3>3. CASE p = Run /\ pc \in RunStatuses
      <4>1. txn[Run] \in Txns /\ txn[Run].row = Run
        BY <1>0, <3>3, WaitedForType DEF Shape
      <4>2. txn' = [txn EXCEPT ![Run].saw = Status(txn[Run].row)]
        BY <2>8, <3>3 DEF ReadRow
      <4>3. txn'[Run].saw = Status(txn[Run].row)
        BY <1>0, <4>1, <4>2, ProcsDistinct DEF TypeOK, Txns, RunTxns, AgentTxns
      <4>. QED  BY <1>2, <2>1, <3>1, <4>1, <4>3 DEF RestInv, RunRow, Status
    <3>4. CASE pc \notin RunStatuses
      BY <1>2, <2>1, <3>1, <3>4 DEF RestInv, RunRow
    <3>. QED  BY <3>2, <3>3, <3>4
  <2>. QED
    BY <1>1, <2>1, <2>3, <2>4, <2>5, <2>6, <2>7, <2>8 DEF Next, Database, StarterStep
<1>. QED  BY <1>3, <1>4

\* When no activity fails and nobody cancels, a run whose workflow has closed is
\* terminal, whenever the reaper looked at it.
THEOREM RestingRunsAreTerminal ==
  ~Faults /\ MaxCancels = 0 => (Spec => []RestingRunIsTerminal)
<1>. SUFFICES ASSUME ~Faults, MaxCancels = 0 PROVE Spec => []RestingRunIsTerminal
  OBVIOUS
<1>. DEFINE Inv == OrchestrationInv /\ QuietInv /\ RestInv
<1>1. Init => Inv
  BY InitInv, QuietInit DEF Init, RestInv, RunRow, RunStatuses
<1>2. Inv /\ [Next]_vars => Inv'
  BY StepInv, StepQuiet, StepRest
<1>3. Inv => RestingRunIsTerminal
  BY DEF RestInv, RunRow, RestingRunIsTerminal
<1>. QED  BY <1>1, <1>2, <1>3, PTL DEF Spec
=============================================================================
