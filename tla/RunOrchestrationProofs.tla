----------------------- MODULE RunOrchestrationProofs -----------------------
(***************************************************************************)
(* The safety of RunOrchestration for every set of agents, every cap, any  *)
(* number of cancel requests, with and without faults.  One inductive      *)
(* invariant, OrchestrationInv, carries all theorems:                      *)
(*                                                                         *)
(*   - Shape ties each process to the transaction that its step names;     *)
(*   - Lanes and Progress say what the steps of RunWorkflow and of the     *)
(*     lanes imply about the rows;                                         *)
(*   - Reads says that a transaction that has read its row has checked the *)
(*     status table, so that the guarded UPDATE can only follow an edge;   *)
(*   - LateBacked says the same of the abandoned transactions: whatever    *)
(*     made their write legitimate when they began is still true;          *)
(*   - Reports is about the reaper and the outcome of the workflow.        *)
(*                                                                         *)
(* The argument goes through the rows: StepRows shows that every step of   *)
(* the system leaves them alone, is the reaper's, or commits a pending     *)
(* transaction; StepLifecycle, that each of these is a step of             *)
(* RunLifecycle; StepStable draws from that what no later step can undo.   *)
(* The other parts of the invariant then follow from StepStable and from   *)
(* what the actions do to the steps and the transactions.                  *)
(***************************************************************************)
EXTENDS RunOrchestration, FiniteSetTheorems, TLAPS

\* What the workflows return.
Results == {"none", "ok", "error", "cancelled"}

USE OrchestrationAssumption DEF OrchestrationAssumption

\* The workflow of a run, the cancel request and the agents are different
\* processes.
LEMMA ProcsDistinct ==
  /\ Run \in Procs /\ Api \in Procs /\ Agents \subseteq Procs
  /\ Run \notin Agents /\ Api \notin Agents /\ Run # Api
BY DEF Procs

\* A process waits for the transaction that its step names, and for none in the
\* other steps.
Shape ==
  /\ pc \in RunStatuses => txn[Run].row = Run /\ txn[Run].to = pc
  /\ pc = "complete" => txn[Run].row \in Agents /\ txn[Run].to = "completed"
  /\ pc \notin RunStatuses \union {"complete"} => txn[Run] = NoTxn
  /\ canceller = "write" => txn[Api].row = Run /\ txn[Api].to = "cancelled"
  /\ canceller # "write" => txn[Api] = NoTxn
  /\ \A a \in Agents :
       /\ lane[a] \in RunAgentStatuses => txn[a].row = a /\ txn[a].to = lane[a]
       /\ lane[a] \notin RunAgentStatuses => txn[a] = NoTxn

Started == Lifecycle!Started
Scored == Lifecycle!Scored
SomeLaneOk == \E a \in Agents : laneResult[a] = "ok"

\* Nothing was launched yet.
Early == {"none", "load", "attach", "provisioning", "running"}

\* Lanes run only after the run was started, and a lane that has succeeded
\* leaves its agent evaluated.
Lanes ==
  /\ starter = "start" => pc = "none"
  /\ \A a \in Agents : lane[a] # "idle" => a \in launched
  /\ pc \in Early => launched = {}
  /\ launched # {} => Started
  /\ \A a \in Agents :
       laneResult[a] = "ok" => lane[a] = "closed" /\ agent[a] \in {"evaluating", "completed"}
  /\ \A a \in settled \ errored : laneResult[a] = "ok"

\* What the steps and the rows say of the past.
Progress ==
  /\ run # "draft"
  /\ pc \in {"score", "complete", "scorecard", "completed"} => Scored
  /\ \A a \in Agents : agent[a] = "completed" => Scored
  /\ pc = "scoring" \/ run \in {"scoring", "completed"} => SomeLaneOk

\* A transaction that has read its row has checked the table.
Checked(t) ==
  t.saw # Unread => IF t.row = Run THEN RunCanTransition(t.saw, t.to)
                                   ELSE RunAgentCanTransition(t.saw, t.to)

Reads ==
  /\ \A p \in Procs : txn[p] # NoTxn => Checked(txn[p])
  /\ \A t \in late : Checked(t)

\* An abandoned transaction can still do only what it was begun for, and not
\* undo a lane that has succeeded since.
Backed(t) ==
  /\ t.row \in Agents => Started
  /\ t.row \in Agents /\ t.to = "completed" => Scored
  /\ t.row = Run /\ t.to = "scoring" => SomeLaneOk
  /\ t.row \in Agents =>
       (lane[t.row] \notin {"failed", "closed"} \/ laneResult[t.row] = "ok"
          => t.to = "completed")

LateBacked == \A t \in late : Backed(t)

\* What is remembered of the reaper and of a success is true of the rows.
Reports ==
  /\ reaped => run = "failed" /\ launched = {}
  /\ result = "ok" => run = "completed"

OrchestrationInv ==
  TypeOK /\ Shape /\ Lanes /\ Progress /\ Reads /\ LateBacked /\ Reports

\* The types of the pieces that the actions are built from.

\* A transaction begins well typed.
LEMMA BeginType ==
  /\ \A to \in RunStatuses : Begin(Run, to) \in Txns
  /\ \A a \in Agents, to \in RunAgentStatuses : Begin(a, to) \in Txns
BY DEF Begin, Txns, RunTxns, AgentTxns

\* A transaction that reads its row reads a status of that row.
LEMMA StatusType ==
  ASSUME TypeOK, NEW t \in Txns
  PROVE  /\ Status(t.row) \in IF t.row = Run THEN RunStatuses ELSE RunAgentStatuses
         /\ [t EXCEPT !.saw = Status(t.row)] \in Txns
<1>1. CASE t \in RunTxns
  <2>1. t.row = Run /\ Status(t.row) \in RunStatuses
    BY <1>1 DEF TypeOK, Status, RunTxns
  <2>2. [t EXCEPT !.saw = Status(t.row)] \in RunTxns
    BY <1>1, <2>1 DEF RunTxns
  <2>. QED  BY <2>1, <2>2 DEF Txns
<1>2. CASE t \in AgentTxns
  <2>1. t.row \in Agents /\ t.row # Run /\ Status(t.row) \in RunAgentStatuses
    BY <1>2 DEF TypeOK, Status, AgentTxns
  <2>2. [t EXCEPT !.saw = Status(t.row)] \in AgentTxns
    BY <1>2, <2>1 DEF AgentTxns
  <2>. QED  BY <2>1, <2>2 DEF Txns
<1>. QED  BY <1>1, <1>2 DEF Txns

\* No transaction is the absence of one.
LEMMA NoTxnIsNone == NoTxn \notin Txns
BY DEF NoTxn, Txns, RunTxns, AgentTxns

\* A commit writes a status of the row it is for.
LEMMA SetStatusType ==
  ASSUME TypeOK, NEW t \in Txns, SetStatus(t)
  PROVE  run' \in RunStatuses /\ agent' \in [Agents -> RunAgentStatuses]
BY DEF TypeOK, SetStatus, Txns, RunTxns, AgentTxns

\* A process whose step is a status write waits for a transaction.
LEMMA WaitedForType ==
  ASSUME TypeOK, Shape
  PROVE  /\ pc \in RunStatuses \union {"complete"} => txn[Run] \in Txns
         /\ canceller = "write" => txn[Api] \in Txns
         /\ \A a \in Agents : lane[a] \in RunAgentStatuses => txn[a] \in Txns
<1>1. \A p \in Procs : txn[p] \in Txns \/ txn[p].row = Api
  BY DEF TypeOK, NoTxn
<1>. QED  BY <1>1, ProcsDistinct DEF Shape

\* What a process abandons is a transaction.
LEMMA AbandonType ==
  ASSUME TypeOK, NEW p \in Procs, Abandon(p)
  PROVE  late' \subseteq Txns
BY DEF TypeOK, Abandon

\* The next step of RunWorkflow, with the transaction it begins.
LEMMA EnterType ==
  ASSUME TypeOK, NEW label \in Steps, Enter(label)
  PROVE  pc' \in Steps /\ txn' \in [Procs -> Txns \union {NoTxn}]
BY BeginType, ProcsDistinct DEF TypeOK, Enter

\* A RunWorkflow that closes waits for nothing.
LEMMA CloseType ==
  ASSUME TypeOK, NEW r \in Results, Close(r)
  PROVE  pc' \in Steps /\ result' \in Results /\ txn' \in [Procs -> Txns \union {NoTxn}]
BY ProcsDistinct DEF TypeOK, Close, Steps, Results

\* The next step of a RunAgentWorkflow, with the transaction it begins.
LEMMA LaneEnterType ==
  ASSUME TypeOK, NEW a \in Agents, NEW label \in LaneSteps, LaneEnter(a, label)
  PROVE  /\ lane' \in [Agents -> LaneSteps] /\ laneResult' \in [Agents -> Results]
         /\ txn' \in [Procs -> Txns \union {NoTxn}]
BY BeginType, ProcsDistinct DEF TypeOK, LaneEnter, Results

\* A RunAgentWorkflow that closes waits for nothing.
LEMMA LaneCloseType ==
  ASSUME TypeOK, NEW a \in Agents, NEW r \in Results, LaneClose(a, r)
  PROVE  /\ lane' \in [Agents -> LaneSteps] /\ laneResult' \in [Agents -> Results]
         /\ txn' \in [Procs -> Txns \union {NoTxn}]
BY ProcsDistinct DEF TypeOK, LaneClose, LaneSteps, Results

\* Every action keeps the types.

\* Types: what abandoned transactions do.
LEMMA DatabaseType == TypeOK /\ Database => TypeOK'
<1>. SUFFICES ASSUME TypeOK, NEW t \in late, LateRead(t) \/ LateCommit(t) \/ LateEnd(t)
              PROVE  TypeOK'
  BY DEF Database
<1>1. t \in Txns
  BY DEF TypeOK
<1>2. CASE LateRead(t)
  BY <1>1, <1>2, StatusType DEF LateRead, TypeOK, rows, requests, parent, lanes
<1>3. CASE LateCommit(t)
  BY <1>1, <1>3, SetStatusType DEF LateCommit, TypeOK, requests, parent, lanes
<1>4. CASE LateEnd(t)
  BY <1>4 DEF LateEnd, TypeOK, rows, requests, parent, lanes
<1>. QED  BY <1>2, <1>3, <1>4

\* Types: a pending transaction reads its row.
LEMMA ReadRowType == ASSUME TypeOK, NEW p \in Procs, ReadRow(p) PROVE TypeOK'
<1>1. txn[p] \in Txns
  BY DEF ReadRow, TypeOK
<1>2. txn' = [txn EXCEPT ![p] = [txn[p] EXCEPT !.saw = Status(txn[p].row)]]
  BY DEF ReadRow
<1>3. txn' \in [Procs -> Txns \union {NoTxn}]
  BY <1>1, <1>2, StatusType DEF TypeOK
<1>. QED  BY <1>3 DEF ReadRow, TypeOK, rows, requests, parent, lanes

\* Types: the create request.
LEMMA StarterType == TypeOK /\ StarterStep => TypeOK'
<1>. SUFFICES ASSUME TypeOK, StarterStep PROVE TypeOK'
  OBVIOUS
<1>1. CASE StartWorkflow
  <2>1. pc' \in Steps /\ txn' \in [Procs -> Txns \union {NoTxn}]
    BY <1>1, EnterType DEF StartWorkflow, Steps
  <2>. QED  BY <1>1, <2>1 DEF StartWorkflow, TypeOK, rows, lanes
<1>2. CASE StartFails
  BY <1>2 DEF StartFails, TypeOK, rows, parent, lanes
<1>3. CASE RecordIDs
  BY <1>3 DEF RecordIDs, AttachApplies, TypeOK, parent, lanes
<1>. QED  BY <1>1, <1>2, <1>3 DEF StarterStep

\* Types: the reaper.
LEMMA ReapType == TypeOK /\ Reap => TypeOK'
BY DEF Reap, TypeOK, requests, parent, lanes, RunStatuses

\* Types: a cancel request begins.
LEMMA CancelReadType == TypeOK /\ CancelRead => TypeOK'
BY DEF CancelRead, TypeOK, rows, parent, lanes

\* Types: a cancel request goes on.
LEMMA CancelStepType == TypeOK /\ Shape /\ CancelStep => TypeOK'
<1>. SUFFICES ASSUME TypeOK, Shape, CancelStep PROVE TypeOK'
  OBVIOUS
<1>1. ASSUME NEW asked \in BOOLEAN, CancelWrite(asked)
      PROVE  /\ txn' \in [Procs -> Txns \union {NoTxn}] /\ canceller' = "write"
             /\ sawIds' = FALSE /\ cancelRequested' \subseteq Agents \union {Run}
  BY <1>1, BeginType, ProcsDistinct DEF CancelWrite, TypeOK, RunStatuses
<1>2. CASE CancelWorkflow
  BY <1>1, <1>2 DEF CancelWorkflow, TypeOK, rows, parent, lanes
<1>3. CASE CancelNotFound
  <2>1. CASE RunCanTransition(run, "cancelled") /\ ~sawIds
    BY <1>1, <1>3, <2>1 DEF CancelNotFound, TypeOK, rows, parent, lanes
  <2>2. CASE ~(RunCanTransition(run, "cancelled") /\ ~sawIds)
    BY <1>3, <2>2 DEF CancelNotFound, TypeOK, rows, parent, lanes
  <2>. QED  BY <2>1, <2>2
<1>4. ASSUME CancelEnd
      PROVE  /\ txn' \in [Procs -> Txns \union {NoTxn}] /\ canceller' = "idle"
             /\ sawIds' = FALSE
  BY <1>4, ProcsDistinct DEF CancelEnd, TypeOK
<1>5. CASE CancelCommits
  <2>1. run' \in RunStatuses /\ agent' \in [Agents -> RunAgentStatuses]
    BY <1>5, WaitedForType, SetStatusType DEF CancelCommits
  <2>. QED  BY <1>4, <1>5, <2>1 DEF CancelCommits, CancelEnd, TypeOK, parent, lanes
<1>6. CASE CancelRejected
  BY <1>4, <1>6 DEF CancelRejected, CancelEnd, TypeOK, parent, lanes
<1>7. CASE CancelFails
  BY <1>4, <1>7, AbandonType, ProcsDistinct
     DEF CancelFails, CancelEnd, TypeOK, parent, lanes
<1>. QED  BY <1>2, <1>3, <1>5, <1>6, <1>7 DEF CancelStep

\* Types: RunWorkflow commits a status and goes on.
LEMMA AdvanceType ==
  ASSUME TypeOK, Shape, NEW from \in RunStatuses, NEW to \in Steps, Advance(from, to)
  PROVE  /\ run' \in RunStatuses /\ agent' \in [Agents -> RunAgentStatuses]
         /\ pc' \in Steps /\ txn' \in [Procs -> Txns \union {NoTxn}]
         /\ UNCHANGED <<ids, reaped, requests, cancelRequested, late, result>>
<1>1. txn[Run] \in Txns
  BY WaitedForType DEF Advance, At
<1>. QED  BY <1>1, SetStatusType, EnterType DEF Advance

\* The writes of RunWorkflow after which it closes.
LEMMA CommitAndCloseType ==
  ASSUME TypeOK, Shape, NEW r \in Results, pc \in RunStatuses,
         SetStatus(txn[Run]), Close(r),
         UNCHANGED <<ids, reaped, requests, cancelRequested, late, fanout, lanes>>
  PROVE  TypeOK'
<1>1. run' \in RunStatuses /\ agent' \in [Agents -> RunAgentStatuses]
  BY WaitedForType, SetStatusType
<1>. QED  BY <1>1, CloseType DEF TypeOK, requests, fanout, lanes, Results

\* Types: RunWorkflow.
LEMMA RunStepType == TypeOK /\ Shape /\ RunStep => TypeOK'
<1>. SUFFICES ASSUME TypeOK, Shape, RunStep PROVE TypeOK'
  OBVIOUS
<1>. USE DEF rows, requests, lanes, fanout
<1>1. CASE LoadRun
  <2>1. CASE Enter("attach") /\ UNCHANGED result
    BY <1>1, <2>1, EnterType DEF LoadRun, TypeOK, Steps
  <2>2. CASE Close("error")
    BY <1>1, <2>2, CloseType DEF LoadRun, TypeOK, Results
  <2>. QED  BY <1>1, <2>1, <2>2 DEF LoadRun
<1>2. CASE AttachRunTemporalIDs
  <2>1. CASE ids' = TRUE /\ Enter("provisioning") /\ UNCHANGED result
    BY <1>2, <2>1, EnterType DEF AttachRunTemporalIDs, TypeOK, Steps
  <2>2. CASE UNCHANGED ids /\ Close("error")
    BY <1>2, <2>2, CloseType DEF AttachRunTemporalIDs, TypeOK, Results
  <2>. QED  BY <1>2, <2>1, <2>2 DEF AttachRunTemporalIDs
<1>3. CASE Provision
  BY <1>3, AdvanceType DEF Provision, TypeOK, Steps, RunStatuses
<1>4. CASE LaunchFirst
  <2>1. PICK S \in SUBSET Agents : Launch(S)
    BY <1>4 DEF LaunchFirst
  <2>2. launched' \subseteq Agents /\ launched \subseteq launched'
        /\ lane' \in [Agents -> LaneSteps]
    BY <2>1 DEF Launch, TypeOK, LaneSteps
  <2>3. Advance("running", "fanout") /\ UNCHANGED <<settled, errored, toComplete, laneResult>>
    BY <1>4 DEF LaunchFirst
  <2>. QED  BY <2>2, <2>3, AdvanceType DEF TypeOK, Steps, RunStatuses
<1>5. ASSUME NEW a \in Agents, SettleChild(a) PROVE TypeOK'
  <2>1. settled' \subseteq launched /\ errored' \subseteq settled'
    BY <1>5 DEF SettleChild, TypeOK
  <2>2. CASE launched # Agents
    <3>1. PICK b \in Agents \ launched : Launch({b})
      BY <1>5, <2>2 DEF SettleChild
    <3>2. launched' \subseteq Agents /\ launched \subseteq launched'
          /\ lane' \in [Agents -> LaneSteps]
      BY <3>1 DEF Launch, TypeOK, LaneSteps
    <3>. QED  BY <1>5, <2>1, <2>2, <3>2 DEF SettleChild, TypeOK
  <2>3. CASE launched = Agents
    <3>1. UNCHANGED <<pc, txn>> \/ \E label \in Steps : Enter(label)
      BY <1>5, <2>3 DEF SettleChild, Steps
    <3>2. pc' \in Steps /\ txn' \in [Procs -> Txns \union {NoTxn}]
      BY <3>1, EnterType DEF TypeOK
    <3>. QED  BY <1>5, <2>1, <2>3, <3>2 DEF SettleChild, TypeOK
  <2>. QED  BY <2>2, <2>3
<1>6. CASE BeginScoring
  BY <1>6, AdvanceType DEF BeginScoring, TypeOK, Steps, RunStatuses
<1>7. ASSUME NEW S \in SUBSET Agents, EnterComplete(S)
      PROVE  /\ toComplete' \subseteq Agents /\ pc' \in Steps
             /\ txn' \in [Procs -> Txns \union {NoTxn}]
  <2>1. CASE S = {}
    BY <1>7, <2>1, EnterType DEF EnterComplete, Steps
  <2>2. CASE S # {}
    BY <1>7, <2>2, BeginType, ProcsDistinct DEF EnterComplete, TypeOK, Steps, RunAgentStatuses
  <2>. QED  BY <2>1, <2>2
<1>8. CASE ScoreRunAgents
  <2>1. CASE Enter("completed") /\ UNCHANGED toComplete
    BY <1>8, <2>1, EnterType DEF ScoreRunAgents, TypeOK, Steps
  <2>2. CASE EnterComplete({a \in Agents : agent[a] = "evaluating"})
    BY <1>7, <1>8, <2>2 DEF ScoreRunAgents, TypeOK
  <2>. QED  BY <1>8, <2>1, <2>2 DEF ScoreRunAgents
<1>9. CASE CompleteAgent
  <2>1. txn[Run] \in Txns
    BY <1>9, WaitedForType DEF CompleteAgent, At
  <2>2. run' \in RunStatuses /\ agent' \in [Agents -> RunAgentStatuses]
    BY <1>9, <2>1, SetStatusType DEF CompleteAgent
  <2>3. toComplete \ {txn[Run].row} \in SUBSET Agents
    BY DEF TypeOK
  <2>. QED  BY <1>7, <1>9, <2>2, <2>3 DEF CompleteAgent, TypeOK
<1>10. CASE CompleteAgentFails
  <2>1. late' \subseteq Txns
    BY <1>10, AbandonType, ProcsDistinct DEF CompleteAgentFails, TypeOK
  <2>2. toComplete \ {txn[Run].row} \in SUBSET Agents
    BY DEF TypeOK
  <2>. QED  BY <1>7, <1>10, <2>1, <2>2 DEF CompleteAgentFails, TypeOK
<1>11. CASE BuildRunScorecard
  BY <1>11, EnterType DEF BuildRunScorecard, TypeOK, Steps
<1>12. CASE CompleteRun
  BY <1>12, CommitAndCloseType DEF CompleteRun, At, RunStatuses, Results
<1>13. CASE StepRejected
  BY <1>13, CloseType DEF StepRejected, TypeOK, Results
<1>14. CASE StepFails
  BY <1>14, EnterType, AbandonType, ProcsDistinct DEF StepFails, TypeOK, Steps
<1>15. CASE MarkRunFailed
  BY <1>15, CommitAndCloseType DEF MarkRunFailed, At, RunStatuses, Results
<1>16. CASE MarkRunFailedFails
  <2>1. late' \subseteq Txns
    BY <1>16, AbandonType, ProcsDistinct DEF MarkRunFailedFails, TypeOK
  <2>. QED  BY <1>16, <2>1, CloseType DEF MarkRunFailedFails, TypeOK, Results
<1>17. CASE Cancel
  BY <1>17, EnterType, AbandonType, ProcsDistinct DEF Cancel, TypeOK, Steps
<1>18. CASE MarkRunCancelled
  BY <1>18, CommitAndCloseType DEF MarkRunCancelled, RunStatuses, Results
<1>19. CASE MarkRunCancelledRejected
  BY <1>19, EnterType DEF MarkRunCancelledRejected, TypeOK, Steps
<1>20. CASE ReloadRun
  <2>1. PICK r \in {"error", "cancelled"} : Close(r)
    BY <1>20 DEF ReloadRun
  <2>. QED  BY <1>20, <2>1, CloseType DEF ReloadRun, TypeOK, Results
<1>21. CASE MarkRunCancelledFails
  BY <1>21, CloseType, AbandonType, ProcsDistinct DEF MarkRunCancelledFails, TypeOK, Results
<1>. QED
  BY <1>1, <1>2, <1>3, <1>4, <1>5, <1>6, <1>8, <1>9, <1>10, <1>11, <1>12, <1>13, <1>14,
     <1>15, <1>16, <1>17, <1>18, <1>19, <1>20, <1>21 DEF RunStep

\* The writes of a lane that has reached its step.
LEMMA LaneCommitType ==
  ASSUME TypeOK, Shape, NEW a \in Agents, lane[a] \in RunAgentStatuses, SetStatus(txn[a])
  PROVE  run' \in RunStatuses /\ agent' \in [Agents -> RunAgentStatuses]
BY WaitedForType, SetStatusType

\* Types: the RunAgentWorkflow of an agent.
LEMMA LaneStepType == ASSUME TypeOK, Shape, NEW a \in Agents, LaneStep(a) PROVE TypeOK'
<1>. USE ProcsDistinct DEF rows, requests, parent, TypeOK, Results
<1>1. CASE LoadRunAgent(a)
  <2>1. CASE LaneEnter(a, "ready")
    BY <1>1, <2>1, LaneEnterType DEF LoadRunAgent, LaneSteps
  <2>2. CASE LaneClose(a, "error")
    BY <1>1, <2>2, LaneCloseType DEF LoadRunAgent
  <2>. QED  BY <1>1, <2>1, <2>2 DEF LoadRunAgent
<1>2. CASE FrozenContext(a)
  BY <1>2, LaneCloseType DEF FrozenContext
<1>3. CASE Prepare(a)
  BY <1>3, LaneCommitType, LaneEnterType
     DEF Prepare, LaneAdvance, LaneAt, RunAgentStatuses, LaneSteps
<1>4. CASE Execute(a)
  BY <1>4, LaneCommitType, LaneEnterType
     DEF Execute, LaneAdvance, LaneAt, RunAgentStatuses, LaneSteps
<1>5. CASE Work(a)
  <2>1. PICK to \in {"evaluating", "failed"} : LaneEnter(a, to)
    BY <1>5 DEF Work
  <2>. QED  BY <1>5, <2>1, LaneEnterType DEF Work, LaneSteps
<1>6. CASE FinishLane(a)
  BY <1>6, LaneCommitType, LaneCloseType DEF FinishLane, LaneAt, RunAgentStatuses
<1>7. CASE LaneFails(a)
  BY <1>7, AbandonType, LaneEnterType DEF LaneFails, LaneSteps
<1>8. CASE MarkRunAgentFailed(a)
  BY <1>8, LaneCommitType, LaneCloseType DEF MarkRunAgentFailed, LaneAt, RunAgentStatuses
<1>9. CASE LaneRejected(a)
  BY <1>9, LaneCloseType DEF LaneRejected
<1>10. CASE MarkRunAgentFailedFails(a)
  BY <1>10, AbandonType, LaneCloseType DEF MarkRunAgentFailedFails
<1>11. CASE LaneCancelled(a)
  BY <1>11, AbandonType, LaneCloseType DEF LaneCancelled
<1>. QED
  BY <1>1, <1>2, <1>3, <1>4, <1>5, <1>6, <1>7, <1>8, <1>9, <1>10, <1>11 DEF LaneStep

\* Every step keeps the types.
LEMMA StepType == TypeOK /\ Shape /\ [Next]_vars => TypeOK'
<1>. SUFFICES ASSUME TypeOK, Shape, [Next]_vars PROVE TypeOK'
  OBVIOUS
<1>1. CASE UNCHANGED vars
  BY <1>1 DEF vars, rows, requests, parent, lanes, TypeOK
<1>2. ASSUME NEW p \in Procs, ReadRow(p) PROVE TypeOK'
  BY <1>2, ReadRowType
<1>3. ASSUME NEW a \in Agents, LaneStep(a) PROVE TypeOK'
  BY <1>3, LaneStepType
<1>. QED
  BY <1>1, <1>2, <1>3, DatabaseType, StarterType, ReapType, CancelReadType, CancelStepType,
     RunStepType DEF Next
-----------------------------------------------------------------------------
\* Each process enters its steps with the transaction they name.

\* Shape: RunWorkflow enters a step.
LEMMA EnterShape ==
  ASSUME TypeOK, Shape, NEW label \in Steps \ {"complete"}, Enter(label),
         UNCHANGED <<canceller, lane>> \/ (UNCHANGED canceller /\ \A a \in Agents :
           lane'[a] \in RunAgentStatuses \/ lane[a] \in RunAgentStatuses => lane'[a] = lane[a])
  PROVE  Shape'
<1>1. \A p \in Procs \ {Run} : txn'[p] = txn[p]
  BY DEF Enter, TypeOK
<1>2. txn'[Run] = IF label \in RunStatuses THEN Begin(Run, label) ELSE NoTxn
  BY ProcsDistinct DEF Enter, TypeOK
<1>. QED  BY <1>1, <1>2, ProcsDistinct DEF Enter, Begin, Shape

\* Shape: RunWorkflow closes.
LEMMA CloseShape ==
  ASSUME TypeOK, Shape, NEW r, Close(r), UNCHANGED <<canceller, lane>>
  PROVE  Shape'
BY ProcsDistinct DEF Close, TypeOK, Shape, RunStatuses

\* Shape: a lane enters a step.
LEMMA LaneEnterShape ==
  ASSUME TypeOK, Shape, NEW a \in Agents, NEW label \in LaneSteps, LaneEnter(a, label),
         UNCHANGED <<canceller, pc>>
  PROVE  Shape'
BY ProcsDistinct DEF LaneEnter, Begin, TypeOK, Shape

\* Shape: a lane closes.
LEMMA LaneCloseShape ==
  ASSUME TypeOK, Shape, NEW a \in Agents, NEW r, LaneClose(a, r), UNCHANGED <<canceller, pc>>
  PROVE  Shape'
BY ProcsDistinct DEF LaneClose, TypeOK, Shape, RunAgentStatuses

\* Shape: RunWorkflow turns to completing its agents.
LEMMA EnterCompleteShape ==
  ASSUME TypeOK, Shape, NEW S \in SUBSET Agents, EnterComplete(S), UNCHANGED <<canceller, lane>>
  PROVE  Shape'
<1>1. CASE S = {}
  BY <1>1, EnterShape DEF EnterComplete, Steps
<1>2. CASE S # {}
  BY <1>2, ProcsDistinct DEF EnterComplete, Begin, TypeOK, Shape, RunStatuses
<1>. QED  BY <1>1, <1>2

\* Shape: the cancel request goes on.
LEMMA CancellerShape ==
  ASSUME TypeOK, Shape, CancelStep
  PROVE  Shape'
<1>1. UNCHANGED <<pc, lane>>
  BY DEF CancelStep, CancelWorkflow, CancelNotFound, CancelCommits, CancelRejected, CancelFails,
         CancelEnd, parent, lanes
<1>2. \/ canceller' = "write" /\ txn' = [txn EXCEPT ![Api] = Begin(Run, "cancelled")]
      \/ canceller' = "idle" /\ txn' = [txn EXCEPT ![Api] = NoTxn]
      \/ canceller' = "idle" /\ canceller # "write" /\ UNCHANGED txn
  BY DEF CancelStep, CancelWorkflow, CancelNotFound, CancelWrite, CancelCommits,
         CancelRejected, CancelFails, CancelEnd
<1>. QED  BY <1>1, <1>2, ProcsDistinct DEF TypeOK, Shape, Begin

\* Only lanes that were idle are launched, so no lane loses its transaction.
LEMMA LaunchLanes ==
  ASSUME TypeOK, Lanes, NEW S \in SUBSET (Agents \ launched), Launch(S)
  PROVE  \A a \in Agents :
           /\ lane'[a] = lane[a] \/ (lane[a] = "idle" /\ lane'[a] = "load")
           /\ lane'[a] # "idle" => a \in launched'
BY DEF TypeOK, Lanes, Launch

\* Shape: RunWorkflow.
LEMMA RunStepShape == TypeOK /\ Shape /\ Lanes /\ RunStep => Shape'
<1>. SUFFICES ASSUME TypeOK, Shape, Lanes, RunStep PROVE Shape'
  OBVIOUS
<1>. USE DEF rows, requests, lanes, fanout
<1>0. ASSUME NEW S \in SUBSET (Agents \ launched), Launch(S)
      PROVE  \A a \in Agents :
               lane'[a] \in RunAgentStatuses \/ lane[a] \in RunAgentStatuses
                 => lane'[a] = lane[a]
  BY <1>0, LaunchLanes DEF RunAgentStatuses
<1>1. CASE LoadRun
  BY <1>1, EnterShape, CloseShape DEF LoadRun, Steps
<1>2. CASE AttachRunTemporalIDs
  BY <1>2, EnterShape, CloseShape DEF AttachRunTemporalIDs, Steps
<1>3. CASE Provision \/ BeginScoring
  BY <1>3, EnterShape DEF Provision, BeginScoring, Advance, Steps
<1>4. CASE LaunchFirst
  <2>1. launched = {}
    BY <1>4 DEF LaunchFirst, Advance, At, Lanes, Early
  <2>2. PICK S \in SUBSET (Agents \ launched) : Launch(S)
    BY <1>4, <2>1 DEF LaunchFirst
  <2>. QED  BY <1>0, <1>4, <2>2, EnterShape DEF LaunchFirst, Advance, Steps
<1>5. ASSUME NEW a \in Agents, SettleChild(a) PROVE Shape'
  <2>1. CASE launched # Agents
    <3>1. PICK b \in Agents \ launched : Launch({b})
      BY <1>5, <2>1 DEF SettleChild
    <3>2. UNCHANGED <<pc, txn, canceller>>
      BY <1>5, <2>1 DEF SettleChild
    <3>3. \A c \in Agents : lane'[c] \in RunAgentStatuses \/ lane[c] \in RunAgentStatuses
                              => lane'[c] = lane[c]
      BY <3>1, <1>0
    <3>. QED  BY <3>2, <3>3 DEF Shape
  <2>2. CASE launched = Agents
    BY <1>5, <2>2, EnterShape DEF SettleChild, Steps, Shape
  <2>. QED  BY <2>1, <2>2
<1>6. CASE ScoreRunAgents
  <2>1. {a \in Agents : agent[a] = "evaluating"} \in SUBSET Agents
    OBVIOUS
  <2>. QED  BY <1>6, <2>1, EnterShape, EnterCompleteShape DEF ScoreRunAgents, Steps
<1>7. CASE CompleteAgent \/ CompleteAgentFails
  <2>1. toComplete \ {txn[Run].row} \in SUBSET Agents
    BY DEF TypeOK
  <2>. QED  BY <1>7, <2>1, EnterCompleteShape DEF CompleteAgent, CompleteAgentFails
<1>8. CASE BuildRunScorecard \/ StepFails \/ Cancel \/ MarkRunCancelledRejected
  BY <1>8, EnterShape DEF BuildRunScorecard, StepFails, Cancel, MarkRunCancelledRejected, Steps
<1>9. CASE CompleteRun \/ StepRejected \/ MarkRunFailed \/ MarkRunFailedFails \/ MarkRunCancelled
           \/ ReloadRun \/ MarkRunCancelledFails
  BY <1>9, CloseShape
     DEF CompleteRun, StepRejected, MarkRunFailed, MarkRunFailedFails, MarkRunCancelled,
         ReloadRun, MarkRunCancelledFails
<1>. QED
  BY <1>1, <1>2, <1>3, <1>4, <1>5, <1>6, <1>7, <1>8, <1>9 DEF RunStep

\* Shape: the RunAgentWorkflow of an agent.
LEMMA LaneStepShape == ASSUME TypeOK, Shape, NEW a \in Agents, LaneStep(a) PROVE Shape'
<1>1. UNCHANGED <<canceller, pc>>
  BY DEF LaneStep, LoadRunAgent, FrozenContext, Prepare, Execute, LaneAdvance, Work, FinishLane,
         LaneFails, MarkRunAgentFailed, LaneRejected, MarkRunAgentFailedFails, LaneCancelled,
         requests, parent
<1>2. (\E label \in LaneSteps : LaneEnter(a, label)) \/ (\E r \in Results : LaneClose(a, r))
  BY DEF LaneStep, LoadRunAgent, FrozenContext, Prepare, Execute, LaneAdvance, Work, FinishLane,
         LaneFails, MarkRunAgentFailed, LaneRejected, MarkRunAgentFailedFails, LaneCancelled,
         LaneSteps, Results
<1>. QED  BY <1>1, <1>2, LaneEnterShape, LaneCloseShape

\* Every step keeps processes and transactions together.
LEMMA StepShape == TypeOK /\ Shape /\ Lanes /\ [Next]_vars => Shape'
<1>. SUFFICES ASSUME TypeOK, Shape, Lanes, [Next]_vars PROVE Shape'
  OBVIOUS
<1>1. CASE UNCHANGED vars \/ Database \/ Reap \/ StartFails \/ RecordIDs
  BY <1>1 DEF vars, Database, LateRead, LateCommit, LateEnd, Reap, StartFails, RecordIDs,
              rows, requests, parent, lanes, Shape
<1>2. CASE StartWorkflow
  BY <1>2, EnterShape DEF StartWorkflow, lanes, Steps
<1>3. CASE CancelRead
  BY <1>3 DEF CancelRead, parent, lanes, Shape
<1>4. ASSUME NEW p \in Procs, ReadRow(p) PROVE Shape'
  <2>1. /\ UNCHANGED <<pc, canceller, lane>>
        /\ \A q \in Procs : /\ txn[q] = NoTxn => txn'[q] = NoTxn
                            /\ txn'[q].row = txn[q].row /\ txn'[q].to = txn[q].to
    <3>1. txn[p] \in Txns
      BY <1>4 DEF ReadRow, TypeOK
    <3>2. txn' = [txn EXCEPT ![p] = [txn[p] EXCEPT !.saw = Status(txn[p].row)]]
      BY <1>4 DEF ReadRow
    <3>3. txn'[p].row = txn[p].row /\ txn'[p].to = txn[p].to
      BY <3>1, <3>2 DEF TypeOK, Txns, RunTxns, AgentTxns
    <3>. QED  BY <1>4, <3>2, <3>3 DEF ReadRow, TypeOK, requests, parent, lanes
  <2>. QED  BY <2>1, ProcsDistinct DEF Shape
<1>5. ASSUME NEW a \in Agents, LaneStep(a) PROVE Shape'
  BY <1>5, LaneStepShape
<1>. QED
  BY <1>1, <1>2, <1>3, <1>4, <1>5, CancellerShape, RunStepShape DEF Next, StarterStep
-----------------------------------------------------------------------------
\* The rows: every step leaves them alone, is the reaper's, or commits a
\* transaction that somebody waits for or has abandoned.

Pending(t) == t \in late \/ \E p \in Procs : txn[p] = t

CommitStep == \E t \in Txns : Pending(t) /\ Commits(t) /\ SetStatus(t)

ReapStep == Reapable /\ run' = "failed" /\ UNCHANGED agent

\* The rows change only by the reaper or by the commit of a transaction that was
\* pending or abandoned.
LEMMA StepRows ==
  ASSUME TypeOK, Shape, [Next]_vars
  PROVE  UNCHANGED <<run, agent>> \/ ReapStep \/ CommitStep
<1>. USE DEF rows
<1>0. ASSUME NEW p \in Procs, txn[p] \in Txns, Commits(txn[p]), SetStatus(txn[p])
      PROVE  CommitStep
  BY <1>0 DEF CommitStep, Pending
<1>1. CASE UNCHANGED vars \/ StarterStep \/ CancelRead \/ Reap \/ \E p \in Procs : ReadRow(p)
  BY <1>1 DEF vars, StarterStep, StartWorkflow, StartFails, RecordIDs, CancelRead, ReadRow, Reap,
              ReapStep
<1>2. CASE Database
  BY <1>2 DEF Database, LateRead, LateCommit, LateEnd, TypeOK, CommitStep, Pending
<1>3. CASE CancelStep
  <2>1. CASE CancelCommits
    BY <1>0, <2>1, WaitedForType, ProcsDistinct DEF CancelCommits
  <2>. QED
    BY <1>3, <2>1 DEF CancelStep, CancelWorkflow, CancelNotFound, CancelRejected, CancelFails
<1>4. CASE RunStep
  <2>1. CASE ~UNCHANGED <<run, agent>>
    <3>1. /\ pc \in RunStatuses \union {"complete"}
          /\ Commits(txn[Run]) /\ SetStatus(txn[Run])
      BY <1>4, <2>1
         DEF RunStep, LoadRun, AttachRunTemporalIDs, Provision, LaunchFirst, Advance,
             SettleChild, BeginScoring, ScoreRunAgents, CompleteAgent, CompleteAgentFails,
             BuildRunScorecard, CompleteRun, StepRejected, StepFails, MarkRunFailed,
             MarkRunFailedFails, Cancel, MarkRunCancelled, MarkRunCancelledRejected,
             ReloadRun, MarkRunCancelledFails, At, RunStatuses
    <3>. QED  BY <1>0, <3>1, WaitedForType, ProcsDistinct
  <2>. QED  BY <2>1
<1>5. ASSUME NEW a \in Agents, LaneStep(a)
      PROVE  UNCHANGED <<run, agent>> \/ CommitStep
  <2>1. CASE ~UNCHANGED <<run, agent>>
    <3>1. lane[a] \in RunAgentStatuses /\ Commits(txn[a]) /\ SetStatus(txn[a])
      BY <1>5, <2>1
         DEF LaneStep, LoadRunAgent, FrozenContext, Prepare, Execute, LaneAdvance, Work,
             FinishLane, LaneFails, MarkRunAgentFailed, LaneRejected,
             MarkRunAgentFailedFails, LaneCancelled, LaneAt, RunAgentStatuses
    <3>. QED  BY <1>0, <3>1, WaitedForType, ProcsDistinct
  <2>. QED  BY <2>1
<1>. QED  BY <1>1, <1>2, <1>3, <1>4, <1>5 DEF Next

\* What is known of every transaction that can still commit.
LEMMA PendingFacts ==
  ASSUME OrchestrationInv, NEW t \in Txns, Pending(t)
  PROVE  /\ Checked(t)
         /\ t.row \in Agents => Started
         /\ t.row \in Agents /\ t.to = "completed" => Scored
         /\ t.row = Run /\ t.to = "scoring" => SomeLaneOk
         /\ t.row \in Agents /\ laneResult[t.row] = "ok" => t.to = "completed"
<1>. USE ProcsDistinct DEF OrchestrationInv
<1>0. t # NoTxn
  BY NoTxnIsNone
<1>1. CASE t \in late
  BY <1>1 DEF LateBacked, Backed, Reads
<1>2. CASE t = txn[Run]
  <2>1. \/ pc \in RunStatuses /\ t.row = Run /\ t.to = pc
        \/ pc = "complete" /\ t.row \in Agents /\ t.to = "completed"
    BY <1>0, <1>2 DEF Shape
  <2>. QED  BY <1>0, <1>2, <2>1 DEF Reads, Progress, Scored, Started, Lifecycle!Scored
<1>3. CASE t = txn[Api]
  <2>1. t.row = Run /\ t.to = "cancelled"
    BY <1>0, <1>3 DEF Shape
  <2>. QED  BY <1>0, <1>3, <2>1 DEF Reads
<1>4. ASSUME NEW a \in Agents, t = txn[a] PROVE
         /\ Checked(t)
         /\ t.row \in Agents => Started
         /\ t.row \in Agents /\ t.to = "completed" => Scored
         /\ t.row = Run /\ t.to = "scoring" => SomeLaneOk
         /\ t.row \in Agents /\ laneResult[t.row] = "ok" => t.to = "completed"
  <2>1. lane[a] \in RunAgentStatuses /\ t.row = a /\ t.to = lane[a]
    BY <1>0, <1>4 DEF Shape
  <2>2. lane[a] \notin {"idle", "closed", "completed"}
    BY <2>1 DEF RunAgentStatuses, TypeOK, LaneSteps
  <2>. QED  BY <1>0, <1>4, <2>1, <2>2 DEF Reads, Lanes
<1>. QED  BY <1>1, <1>2, <1>3, <1>4 DEF Pending, Procs

\* The instance has the same tables.
LEMMA SameTables ==
  /\ Lifecycle!RunStatuses = RunStatuses /\ Lifecycle!RunAgentStatuses = RunAgentStatuses
  /\ \A from, to : Lifecycle!RunCanTransition(from, to) <=> RunCanTransition(from, to)
  /\ \A from, to : Lifecycle!RunAgentCanTransition(from, to) <=> RunAgentCanTransition(from, to)
BY DEF Lifecycle!RunStatuses, RunStatuses, Lifecycle!RunAgentStatuses, RunAgentStatuses,
       Lifecycle!RunCanTransition, RunCanTransition, Lifecycle!RunAgentCanTransition,
       RunAgentCanTransition, Lifecycle!RunEdges, RunEdges, Lifecycle!RunAgentEdges, RunAgentEdges

\* Every step of the rows is one that RunLifecycle allows.
LEMMA StepLifecycle ==
  ASSUME OrchestrationInv, [Next]_vars
  PROVE  [Lifecycle!LifecycleNext]_Lifecycle!lifecycleVars
<1>. USE SameTables DEF OrchestrationInv
<1>1. CASE UNCHANGED <<run, agent>>
  BY <1>1 DEF Lifecycle!lifecycleVars
<1>2. CASE ReapStep
  <2>1. Lifecycle!MoveRun("failed")
    BY <1>2 DEF ReapStep, Reapable, Lifecycle!MoveRun, RunCanTransition, RunEdges
  <2>. QED  BY <2>1 DEF Lifecycle!LifecycleNext, RunStatuses
<1>3. ASSUME NEW t \in Txns, Pending(t), Commits(t), SetStatus(t)
      PROVE  Lifecycle!LifecycleNext
  <2>1. CASE t.row = Run
    <3>1. t.to \in RunStatuses /\ RunCanTransition(run, t.to) /\ run' = t.to /\ UNCHANGED agent
      BY <1>3, <2>1, PendingFacts, ProcsDistinct
         DEF Commits, Status, SetStatus, Checked, Txns, RunTxns, AgentTxns
    <3>2. t.to = "scoring" => \E a \in Agents : agent[a] = "evaluating"
      <4>1. SUFFICES ASSUME t.to = "scoring" PROVE \E a \in Agents : agent[a] = "evaluating"
        OBVIOUS
      <4>2. run = "running"
        BY <3>1, <4>1 DEF RunCanTransition, RunEdges
      <4>3. PICK a \in Agents : laneResult[a] = "ok"
        BY <1>3, <2>1, <4>1, PendingFacts DEF SomeLaneOk
      <4>4. agent[a] \in {"evaluating", "completed"} /\ agent[a] # "completed"
        BY <4>2, <4>3 DEF Lanes, Progress, Scored, Lifecycle!Scored
      <4>. QED  BY <4>4
    <3>. QED  BY <3>1, <3>2 DEF Lifecycle!LifecycleNext, Lifecycle!MoveRun
  <2>2. CASE t.row \in Agents
    <3>1. /\ t.to \in RunAgentStatuses /\ RunAgentCanTransition(agent[t.row], t.to)
          /\ agent' = [agent EXCEPT ![t.row] = t.to] /\ UNCHANGED run
      BY <1>3, <2>2, PendingFacts, ProcsDistinct
         DEF Commits, Status, SetStatus, Checked, Txns, RunTxns, AgentTxns
    <3>2. Started /\ (t.to = "completed" => Scored)
      BY <1>3, <2>2, PendingFacts
    <3>. QED
      BY <2>2, <3>1, <3>2 DEF Started, Scored, Lifecycle!LifecycleNext, Lifecycle!MoveAgent
  <2>. QED  BY <2>1, <2>2 DEF Txns, RunTxns, AgentTxns
<1>. QED  BY <1>1, <1>2, <1>3, StepRows DEF CommitStep

\* What follows for the rows from one such step.
LEMMA StepStable ==
  ASSUME OrchestrationInv, [Next]_vars
  PROVE  /\ Started => Started'
         /\ Scored => Scored'
         /\ run' # "draft"
         /\ run \in RunTerminal => run' = run
         /\ run' \in {"scoring", "completed"} => SomeLaneOk
         /\ \A a \in Agents : agent'[a] = "completed" => Scored'
         /\ \A a \in Agents :
              laneResult[a] = "ok" => agent'[a] \in {"evaluating", "completed"}
<1>. USE DEF OrchestrationInv
<1>1. /\ Started => Started'
      /\ Scored => Scored'
      /\ run' # "draft"
      /\ run \in RunTerminal => run' = run
      /\ \A a \in Agents : agent'[a] = "completed" => Scored'
  BY StepLifecycle, SameTables
     DEF Lifecycle!LifecycleNext, Lifecycle!lifecycleVars, Lifecycle!MoveRun, Lifecycle!MoveAgent,
         Started, Scored, Lifecycle!Started, Lifecycle!Scored, RunCanTransition, RunEdges,
         RunTerminal, Progress, TypeOK
<1>2. run' \in {"scoring", "completed"} => SomeLaneOk
  <2>1. ASSUME NEW t \in Txns, Pending(t), Commits(t), SetStatus(t),
               run' \in {"scoring", "completed"}
        PROVE  SomeLaneOk
    <3>1. CASE t.row = Run
      BY <2>1, <3>1, PendingFacts
         DEF Commits, Status, SetStatus, Checked, RunCanTransition, RunEdges, Progress
    <3>2. CASE t.row # Run
      BY <2>1, <3>2 DEF SetStatus, Progress
    <3>. QED  BY <3>1, <3>2
  <2>. QED  BY <2>1, StepRows DEF CommitStep, ReapStep, Progress
<1>3. ASSUME NEW a \in Agents, laneResult[a] = "ok"
      PROVE  agent'[a] \in {"evaluating", "completed"}
  <2>1. agent[a] \in {"evaluating", "completed"}
    BY <1>3 DEF Lanes
  <2>2. ASSUME NEW t \in Txns, Pending(t), SetStatus(t)
        PROVE  agent'[a] \in {"evaluating", "completed"}
    BY <1>3, <2>1, <2>2, PendingFacts, ProcsDistinct
       DEF SetStatus, TypeOK, Txns, RunTxns, AgentTxns
  <2>. QED  BY <2>1, <2>2, StepRows DEF CommitStep, ReapStep
<1>. QED  BY <1>1, <1>2, <1>3
-----------------------------------------------------------------------------
\* The transactions: a step begins or ends the one of a process, or reads.

FreshTxn(p) == \E x \in Txns \union {NoTxn} :
  (x = NoTxn \/ x.saw = Unread) /\ txn' = [txn EXCEPT ![p] = x]

\* A process that goes on begins a transaction that has read nothing, or none.
LEMMA FreshTxns ==
  ASSUME TypeOK
  PROVE  /\ \A label \in Steps : label # "complete" /\ Enter(label) => FreshTxn(Run)
         /\ \A r : Close(r) => FreshTxn(Run)
         /\ \A S \in SUBSET Agents : EnterComplete(S) => FreshTxn(Run)
         /\ \A asked : CancelWrite(asked) => FreshTxn(Api)
         /\ CancelEnd => FreshTxn(Api)
         /\ \A a \in Agents, label \in LaneSteps : LaneEnter(a, label) => FreshTxn(a)
         /\ \A a \in Agents : \A r : LaneClose(a, r) => FreshTxn(a)
<1>1. /\ \A to \in RunStatuses : Begin(Run, to) \in Txns /\ Begin(Run, to).saw = Unread
      /\ \A a \in Agents, to \in RunAgentStatuses : Begin(a, to) \in Txns /\ Begin(a, to).saw = Unread
  BY BeginType DEF Begin
<1>2. \A label \in Steps : label # "complete" /\ Enter(label) => FreshTxn(Run)
  BY <1>1 DEF Enter, FreshTxn
<1>3. \A S \in SUBSET Agents : EnterComplete(S) => FreshTxn(Run)
  BY <1>1, <1>2 DEF EnterComplete, FreshTxn, Steps, RunAgentStatuses
<1>4. \A asked : CancelWrite(asked) => FreshTxn(Api)
  BY <1>1 DEF CancelWrite, FreshTxn, RunStatuses
<1>5. \A a \in Agents, label \in LaneSteps : LaneEnter(a, label) => FreshTxn(a)
  BY <1>1 DEF LaneEnter, FreshTxn
<1>. QED  BY <1>2, <1>3, <1>4, <1>5 DEF FreshTxn, Close, CancelEnd, LaneClose

\* The transactions that processes wait for change in two ways: a process goes
\* on, or a transaction reads its row.
LEMMA StepTxn ==
  ASSUME TypeOK, [Next]_vars
  PROVE  \/ UNCHANGED txn
         \/ \E p \in Procs : FreshTxn(p)
         \/ \E p \in Procs : ReadRow(p)
<1>. USE FreshTxns, ProcsDistinct
<1>1. CASE UNCHANGED vars \/ Database \/ StarterStep \/ CancelRead \/ Reap
  BY <1>1 DEF vars, Database, LateRead, LateCommit, LateEnd, StarterStep, StartWorkflow, StartFails,
              RecordIDs, CancelRead, Reap, Steps
<1>2. CASE CancelStep
  BY <1>2 DEF CancelStep, CancelWorkflow, CancelNotFound, CancelCommits, CancelRejected, CancelFails
<1>3. CASE RunStep
  <2>1. ASSUME ScoreRunAgents \/ CompleteAgent \/ CompleteAgentFails PROVE FreshTxn(Run)
    <3>1. toComplete \ {txn[Run].row} \in SUBSET Agents
          /\ {a \in Agents : agent[a] = "evaluating"} \in SUBSET Agents
      BY DEF TypeOK
    <3>. QED  BY <2>1, <3>1 DEF ScoreRunAgents, CompleteAgent, CompleteAgentFails, Steps
  <2>2. ASSUME NEW a \in Agents, SettleChild(a) PROVE UNCHANGED txn \/ FreshTxn(Run)
    BY <2>2 DEF SettleChild, Steps
  <2>3. ASSUME Provision \/ BeginScoring \/ LaunchFirst PROVE FreshTxn(Run)
    BY <2>3 DEF Provision, BeginScoring, LaunchFirst, Advance, Steps
  <2>4. ASSUME LoadRun \/ AttachRunTemporalIDs \/ BuildRunScorecard \/ StepFails \/ Cancel
               \/ MarkRunCancelledRejected
        PROVE  FreshTxn(Run)
    BY <2>4 DEF LoadRun, AttachRunTemporalIDs, BuildRunScorecard, StepFails, Cancel,
                MarkRunCancelledRejected, Steps
  <2>5. ASSUME CompleteRun \/ StepRejected \/ MarkRunFailed \/ MarkRunFailedFails
               \/ MarkRunCancelled \/ ReloadRun \/ MarkRunCancelledFails
        PROVE  FreshTxn(Run)
    BY <2>5 DEF CompleteRun, StepRejected, MarkRunFailed, MarkRunFailedFails, MarkRunCancelled,
                ReloadRun, MarkRunCancelledFails
  <2>. QED  BY <1>3, <2>1, <2>2, <2>3, <2>4, <2>5 DEF RunStep
<1>4. ASSUME NEW a \in Agents, LaneStep(a) PROVE FreshTxn(a)
  BY <1>4 DEF LaneStep, LoadRunAgent, FrozenContext, Prepare, Execute, LaneAdvance, Work, FinishLane,
              LaneFails, MarkRunAgentFailed, LaneRejected, MarkRunAgentFailedFails,
              LaneCancelled, LaneSteps
<1>. QED  BY <1>1, <1>2, <1>3, <1>4 DEF Next

\* Lanes move forward: one that has failed or closed stays so, and one that has
\* closed keeps its result.
LaneForward(a) ==
  /\ lane'[a] \notin {"failed", "closed"} => lane[a] \notin {"failed", "closed"}
  /\ laneResult'[a] = "ok" => laneResult[a] = "ok" \/ lane[a] \notin {"failed", "closed"}
  /\ laneResult[a] = "ok" => laneResult'[a] = "ok"

\* No step takes a lane back.
LEMMA StepLanes ==
  ASSUME TypeOK, Lanes, [Next]_vars
  PROVE  \A a \in Agents : LaneForward(a)
<1>1. CASE UNCHANGED <<lane, laneResult>>
  BY <1>1 DEF LaneForward
<1>2. CASE RunStep /\ ~UNCHANGED lanes
  <2>1. UNCHANGED laneResult /\ \E S \in SUBSET (Agents \ launched) : Launch(S)
    BY <1>2 DEF RunStep, LoadRun, AttachRunTemporalIDs, Provision, LaunchFirst, Advance,
             SettleChild, BeginScoring, ScoreRunAgents, CompleteAgent, CompleteAgentFails,
             BuildRunScorecard, CompleteRun, StepRejected, StepFails, MarkRunFailed,
             MarkRunFailedFails, Cancel, MarkRunCancelled, MarkRunCancelledRejected,
             ReloadRun, MarkRunCancelledFails, At, lanes, fanout, Lanes, Early
  <2>. QED  BY <2>1, LaunchLanes DEF LaneForward
<1>3. ASSUME NEW b \in Agents, LaneStep(b) PROVE \A a \in Agents : LaneForward(a)
  <2>1. lane[b] # "closed"
    BY <1>3 DEF LaneStep, LoadRunAgent, FrozenContext, Prepare, Execute, LaneAdvance, Work,
                FinishLane, LaneFails, MarkRunAgentFailed, LaneRejected,
                MarkRunAgentFailedFails, LaneCancelled, LaneAt, RunAgentStatuses
  <2>2. \/ \E r \in Results : LaneClose(b, r) /\ (r = "ok" => lane[b] = "evaluating")
        \/ \E label \in LaneSteps : LaneEnter(b, label) /\ lane[b] # "failed"
    BY <1>3 DEF LaneStep, LoadRunAgent, FrozenContext, Prepare, Execute, LaneAdvance, Work,
                FinishLane, LaneFails, MarkRunAgentFailed, LaneRejected,
                MarkRunAgentFailedFails, LaneCancelled, LaneAt, LaneSteps, Results
  <2>3. laneResult[b] # "ok"
    BY <2>1 DEF Lanes
  <2>. QED  BY <2>1, <2>2, <2>3 DEF LaneClose, LaneEnter, LaneForward, TypeOK
<1>4. CASE Database \/ StarterStep \/ CancelRead \/ CancelStep \/ Reap \/ UNCHANGED vars
           \/ \E p \in Procs : ReadRow(p)
  <2>1. UNCHANGED lanes
    BY <1>4 DEF Database, LateRead, LateCommit, LateEnd, StarterStep, StartWorkflow, StartFails,
                RecordIDs, CancelRead, CancelStep, CancelWorkflow, CancelNotFound, CancelCommits,
                CancelRejected, CancelFails, CancelEnd, Reap, ReadRow, vars
  <2>. QED  BY <1>1, <2>1 DEF lanes
<1>. QED  BY <1>1, <1>2, <1>3, <1>4 DEF Next, lanes

\* A transaction is abandoned only with its caller's step, and a lane that has
\* abandoned one does not succeed any more.
AbandonStep(p) ==
  /\ p \in Procs /\ txn[p] # NoTxn /\ late' = late \union {txn[p]}
  /\ p \in Agents => lane'[p] \in {"failed", "closed"} /\ laneResult'[p] # "ok"

\* The abandoned transactions change in three ways: they end, read, or a process
\* that gives up adds its own.
LEMMA StepLate ==
  ASSUME TypeOK, Lanes, [Next]_vars
  PROVE  \/ late' \subseteq late
         \/ \E t \in late : LateRead(t)
         \/ \E p \in Procs : AbandonStep(p)
<1>1. CASE UNCHANGED vars \/ Database \/ StarterStep \/ CancelRead \/ Reap
           \/ \E p \in Procs : ReadRow(p)
  BY <1>1 DEF vars, Database, LateCommit, LateEnd, StarterStep, StartWorkflow, StartFails,
              RecordIDs, CancelRead, Reap, ReadRow
<1>2. ASSUME NEW p \in {Run, Api}, Abandon(p) PROVE late' \subseteq late \/ AbandonStep(p)
  BY <1>2, ProcsDistinct DEF Abandon, AbandonStep
<1>3. CASE CancelStep
  BY <1>2, <1>3, ProcsDistinct
     DEF CancelStep, CancelWorkflow, CancelNotFound, CancelCommits, CancelRejected, CancelFails
<1>4. CASE RunStep
  <2>1. late' = late \/ Abandon(Run)
    BY <1>4 DEF RunStep, LoadRun, AttachRunTemporalIDs, Provision, LaunchFirst, Advance,
             SettleChild, BeginScoring, ScoreRunAgents, CompleteAgent, CompleteAgentFails,
             BuildRunScorecard, CompleteRun, StepRejected, StepFails, MarkRunFailed,
             MarkRunFailedFails, Cancel, MarkRunCancelled, MarkRunCancelledRejected,
             ReloadRun, MarkRunCancelledFails
  <2>. QED  BY <1>2, <2>1, ProcsDistinct
<1>5. ASSUME NEW a \in Agents, LaneStep(a) PROVE late' \subseteq late \/ AbandonStep(a)
  <2>1. CASE LaneFails(a) \/ MarkRunAgentFailedFails(a) \/ LaneCancelled(a)
    <3>1. laneResult[a] = "ok" => lane[a] = "closed"
      BY DEF Lanes
    <3>2. Abandon(a) /\ lane'[a] \in {"failed", "closed"} /\ laneResult'[a] # "ok"
      BY <2>1, <3>1 DEF LaneFails, MarkRunAgentFailedFails, LaneCancelled, LaneAt, LaneEnter,
                        LaneClose, TypeOK
    <3>. QED  BY <3>2, ProcsDistinct DEF Abandon, AbandonStep
  <2>2. CASE ~(LaneFails(a) \/ MarkRunAgentFailedFails(a) \/ LaneCancelled(a))
    BY <1>5, <2>2
       DEF LaneStep, LoadRunAgent, FrozenContext, Prepare, Execute, LaneAdvance, Work,
           FinishLane, MarkRunAgentFailed, LaneRejected
  <2>. QED  BY <2>1, <2>2
<1>. QED  BY <1>1, <1>3, <1>4, <1>5, ProcsDistinct DEF Next

-----------------------------------------------------------------------------
\* The parts of the invariant hold at first, and every step keeps each of them.

\* A run that has just been inserted satisfies the invariant.
LEMMA InitInv == Init => OrchestrationInv
<1>. SUFFICES ASSUME Init PROVE OrchestrationInv
  OBVIOUS
<1>. USE DEF Init
<1>1. TypeOK
  <2>1. /\ run \in RunStatuses /\ agent \in [Agents -> RunAgentStatuses]
        /\ pc \in Steps /\ lane \in [Agents -> LaneSteps]
    BY DEF RunStatuses, RunAgentStatuses, Steps, LaneSteps
  <2>2. cancels \in 0..MaxCancels
    OBVIOUS
  <2>3. txn \in [Procs -> Txns \union {NoTxn}]
    OBVIOUS
  <2>. QED  BY <2>1, <2>2, <2>3 DEF TypeOK
<1>2. Shape
  BY ProcsDistinct DEF Shape, RunStatuses, RunAgentStatuses
<1>3. Lanes /\ Progress
  BY DEF Lanes, Progress
<1>4. Reads /\ LateBacked /\ Reports
  BY ProcsDistinct DEF Reads, LateBacked, Reports
<1>. QED  BY <1>1, <1>2, <1>3, <1>4 DEF OrchestrationInv

\* A transaction that the table allows has passed the table once it has read.
LEMMA ReadingChecks ==
  ASSUME TypeOK, NEW t \in Txns, Allowed(t)
  PROVE  Checked([t EXCEPT !.saw = Status(t.row)])
BY DEF Allowed, Checked, Status, Txns, RunTxns, AgentTxns

\* Every transaction that has read its row has passed the table.
LEMMA StepReads == ASSUME OrchestrationInv, [Next]_vars PROVE Reads'
<1>. USE DEF OrchestrationInv
<1>1. ASSUME NEW q \in Procs, txn'[q] # NoTxn PROVE Checked(txn'[q])
  <2>1. CASE UNCHANGED txn
    BY <1>1, <2>1 DEF Reads
  <2>2. ASSUME NEW p \in Procs, FreshTxn(p) PROVE Checked(txn'[q])
    BY <1>1, <2>2 DEF FreshTxn, Reads, Checked, TypeOK
  <2>3. ASSUME NEW p \in Procs, ReadRow(p) PROVE Checked(txn'[q])
    <3>1. txn[p] \in Txns /\ Allowed(txn[p])
      BY <2>3 DEF ReadRow, TypeOK
    <3>2. txn' = [txn EXCEPT ![p] = [txn[p] EXCEPT !.saw = Status(txn[p].row)]]
      BY <2>3 DEF ReadRow
    <3>. QED  BY <1>1, <3>1, <3>2, ReadingChecks DEF Reads, TypeOK
  <2>. QED  BY <2>1, <2>2, <2>3, StepTxn
<1>2. ASSUME NEW t \in late' PROVE Checked(t)
  <2>1. CASE late' \subseteq late
    BY <1>2, <2>1 DEF Reads
  <2>2. ASSUME NEW u \in late, LateRead(u) PROVE Checked(t)
    <3>1. u \in Txns /\ Allowed(u)
      BY <2>2 DEF LateRead, TypeOK
    <3>2. t \in late \/ t = [u EXCEPT !.saw = Status(u.row)]
      BY <1>2, <2>2 DEF LateRead
    <3>. QED  BY <3>1, <3>2, ReadingChecks DEF Reads
  <2>3. ASSUME NEW p \in Procs, AbandonStep(p) PROVE Checked(t)
    BY <1>2, <2>3 DEF AbandonStep, Reads
  <2>. QED  BY <2>1, <2>2, <2>3, StepLate
<1>. QED  BY <1>1, <1>2 DEF Reads

\* The reason for which an abandoned transaction began still holds.
LEMMA StepLateBacked == ASSUME OrchestrationInv, [Next]_vars PROVE LateBacked'
<1>. USE DEF OrchestrationInv
<1>0. \A t \in late : Backed(t)
  BY DEF LateBacked
<1>1. /\ \A a \in Agents : LaneForward(a)
      /\ Started => Started'
      /\ Scored => Scored'
  BY StepLanes, StepStable
<1>2. SomeLaneOk => SomeLaneOk'
  BY <1>1 DEF SomeLaneOk, LaneForward
<1>3. ASSUME NEW t, Backed(t) PROVE Backed(t)'
  BY <1>1, <1>2, <1>3 DEF Backed, LaneForward
<1>4. CASE late' \subseteq late
  BY <1>0, <1>3, <1>4 DEF LateBacked, Backed
<1>5. ASSUME NEW u \in late, LateRead(u) PROVE LateBacked'
  <2>1. u \in Txns
    BY DEF TypeOK
  <2>2. Backed([u EXCEPT !.saw = Status(u.row)])
    BY <1>0, <2>1 DEF Backed, Txns, RunTxns, AgentTxns
  <2>3. \A t \in late' : Backed(t)
    BY <1>0, <1>5, <2>2 DEF LateRead
  <2>. QED  BY <1>3, <2>3 DEF LateBacked, Backed
<1>6. ASSUME NEW p \in Procs, AbandonStep(p) PROVE LateBacked'
  <2>1. txn[p] \in Txns /\ Pending(txn[p])
    BY <1>6 DEF AbandonStep, TypeOK, Pending
  <2>2. ASSUME txn[p].row \in Agents,
               lane'[txn[p].row] \notin {"failed", "closed"} \/ laneResult'[txn[p].row] = "ok"
        PROVE  txn[p].to = "completed"
    <3>1. CASE p = Run
      BY <1>6, <2>2, <3>1, ProcsDistinct DEF AbandonStep, Shape, TypeOK
    <3>2. CASE p = Api
      BY <1>6, <2>2, <3>2, ProcsDistinct DEF AbandonStep, Shape
    <3>3. CASE p \in Agents
      BY <1>6, <2>2, <3>3 DEF AbandonStep, Shape
    <3>. QED  BY <3>1, <3>2, <3>3 DEF Procs
  <2>3. ASSUME NEW t, t = txn[p] PROVE Backed(t)'
    BY <1>1, <1>2, <2>1, <2>2, <2>3, PendingFacts DEF Backed
  <2>4. late' = late \union {txn[p]}
    BY <1>6 DEF AbandonStep
  <2>. QED  BY <1>0, <1>3, <2>3, <2>4 DEF LateBacked, Backed
<1>. QED  BY <1>4, <1>5, <1>6, StepLate

\* The main line commits the status that its step names.
LEMMA MainLineCommit ==
  ASSUME OrchestrationInv, pc \in RunStatuses, Commits(txn[Run]), SetStatus(txn[Run])
  PROVE  run' = pc /\ RunCanTransition(run, pc)
<1>1. txn[Run].row = Run /\ txn[Run].to = pc /\ txn[Run] # NoTxn
  BY ProcsDistinct DEF OrchestrationInv, Shape, NoTxn
<1>2. Checked(txn[Run])
  BY <1>1, ProcsDistinct DEF OrchestrationInv, Reads
<1>. QED  BY <1>1, <1>2 DEF Commits, SetStatus, Status, Checked

\* Steps that neither launch, settle nor run a lane keep Lanes.
LEMMA KeepLanes ==
  ASSUME OrchestrationInv, [Next]_vars,
         UNCHANGED <<lane, laneResult, launched, settled, errored>>,
         starter' = "start" => pc' = "none", pc' \in Early => pc \in Early
  PROVE  Lanes'
BY StepStable DEF OrchestrationInv, Lanes, Early

\* Lanes: RunWorkflow, when it neither launches the first agents nor settles
\* one.
LEMMA RunStepKeepsLanes ==
  ASSUME OrchestrationInv, [Next]_vars, RunStep, ~LaunchFirst, \A a \in Agents : ~SettleChild(a)
  PROVE  Lanes'
<1>1. /\ UNCHANGED <<lane, laneResult, launched, settled, errored, starter>>
      /\ pc # "none"
  BY DEF RunStep, LoadRun, AttachRunTemporalIDs, Provision, Advance, BeginScoring, ScoreRunAgents,
         CompleteAgent, CompleteAgentFails, BuildRunScorecard, CompleteRun, StepRejected,
         StepFails, MarkRunFailed, MarkRunFailedFails, Cancel, MarkRunCancelled,
         MarkRunCancelledRejected, ReloadRun, MarkRunCancelledFails, At, MainLine, lanes,
         fanout, requests
<1>2. pc' \in Early => pc \in Early
  BY DEF RunStep, LoadRun, AttachRunTemporalIDs, Provision, Advance, BeginScoring, ScoreRunAgents,
         EnterComplete, CompleteAgent, CompleteAgentFails, BuildRunScorecard, CompleteRun,
         StepRejected, StepFails, MarkRunFailed, MarkRunFailedFails, Cancel, MarkRunCancelled,
         MarkRunCancelledRejected, ReloadRun, MarkRunCancelledFails, At, Enter, Close, Early
<1>. QED  BY <1>1, <1>2, KeepLanes DEF OrchestrationInv, Lanes

\* Lanes: RunWorkflow launches the first agents.
LEMMA LaunchFirstLanes == ASSUME OrchestrationInv, [Next]_vars, LaunchFirst PROVE Lanes'
<1>. USE DEF OrchestrationInv
<1>1. pc = "running" /\ launched = {} /\ pc' = "fanout" /\ run' = "running"
  BY MainLineCommit DEF LaunchFirst, Advance, At, Enter, Lanes, Early, RunStatuses
<1>2. PICK S \in SUBSET (Agents \ launched) : Launch(S)
  BY <1>1 DEF LaunchFirst
<1>3. \A a \in Agents :
        /\ lane'[a] = lane[a] \/ (lane[a] = "idle" /\ lane'[a] = "load")
        /\ lane'[a] # "idle" => a \in launched'
  BY <1>2, LaunchLanes
<1>4. UNCHANGED <<starter, laneResult, settled, errored>>
  BY DEF LaunchFirst, Advance, requests
<1>5. Started'
  BY <1>1 DEF Started, Lifecycle!Started
<1>. QED  BY <1>1, <1>3, <1>4, <1>5, StepStable DEF Lanes, Early

\* Lanes: RunWorkflow settles an agent, and may launch the next.
LEMMA SettleChildLanes ==
  ASSUME OrchestrationInv, [Next]_vars, NEW a \in Agents, SettleChild(a)
  PROVE  Lanes'
<1>. USE DEF OrchestrationInv
<1>1. /\ pc = "fanout" /\ pc' \in {"fanout", "failed", "scoring"}
      /\ starter # "start" /\ UNCHANGED <<starter, laneResult>>
      /\ launched # {}
  BY DEF SettleChild, At, Enter, Lanes, requests
<1>2. \A b \in settled' \ errored' : laneResult'[b] = "ok"
  BY DEF SettleChild, Lanes
<1>3. \A b \in Agents :
        /\ lane'[b] = lane[b] \/ (lane[b] = "idle" /\ lane'[b] = "load")
        /\ lane'[b] # "idle" => b \in launched'
  <2>1. CASE launched # Agents
    <3>1. PICK b \in Agents \ launched : Launch({b})
      BY <2>1 DEF SettleChild
    <3>. QED  BY <3>1, LaunchLanes
  <2>2. CASE launched = Agents
    BY <2>2 DEF SettleChild, Lanes
  <2>. QED  BY <2>1, <2>2
<1>. QED  BY <1>1, <1>2, <1>3, StepStable DEF Lanes, Early

\* Lanes: the RunAgentWorkflow of an agent.
LEMMA LaneStepLanes ==
  ASSUME OrchestrationInv, [Next]_vars, NEW a \in Agents, LaneStep(a)
  PROVE  Lanes'
<1>. USE DEF OrchestrationInv
<1>1. UNCHANGED <<starter, pc, launched, settled, errored>>
  BY DEF LaneStep, LoadRunAgent, FrozenContext, Prepare, Execute, LaneAdvance, Work, FinishLane,
         LaneFails, MarkRunAgentFailed, LaneRejected, MarkRunAgentFailedFails, LaneCancelled,
         requests, parent
<1>2. lane[a] \notin {"idle", "closed"}
  BY DEF LaneStep, LoadRunAgent, FrozenContext, Prepare, Execute, LaneAdvance, Work, FinishLane,
         LaneFails, MarkRunAgentFailed, LaneRejected, MarkRunAgentFailedFails, LaneCancelled,
         LaneAt, RunAgentStatuses
<1>3. \/ \E r \in Results : LaneClose(a, r) /\ (r = "ok" => FinishLane(a))
      \/ \E label \in LaneSteps : LaneEnter(a, label)
  BY DEF LaneStep, LoadRunAgent, FrozenContext, Prepare, Execute, LaneAdvance, Work, FinishLane,
         LaneFails, MarkRunAgentFailed, LaneRejected, MarkRunAgentFailedFails, LaneCancelled,
         LaneSteps, Results
<1>4. FinishLane(a) => agent'[a] = "evaluating"
  BY ProcsDistinct DEF FinishLane, LaneAt, Shape, SetStatus, TypeOK, RunAgentStatuses
<1>5. /\ \A b \in Agents : lane'[b] # "idle" => b \in launched'
      /\ \A b \in Agents : laneResult'[b] = "ok" =>
           lane'[b] = "closed" /\ (laneResult[b] = "ok" \/ agent'[b] = "evaluating")
      /\ \A b \in Agents : laneResult[b] = "ok" => laneResult'[b] = "ok"
  <2>1. laneResult[a] # "ok" /\ a \in launched
    BY <1>2 DEF Lanes
  <2>2. CASE \E r \in Results : LaneClose(a, r) /\ (r = "ok" => FinishLane(a))
    BY <1>1, <1>4, <2>1, <2>2 DEF LaneClose, Lanes, TypeOK
  <2>3. CASE \E label \in LaneSteps : LaneEnter(a, label)
    BY <1>1, <2>1, <2>3 DEF LaneEnter, Lanes, TypeOK
  <2>. QED  BY <1>3, <2>2, <2>3
<1>. QED  BY <1>1, <1>5, StepStable DEF Lanes, TypeOK

\* Every step keeps the parent and its lanes together.
LEMMA StepKeepsLanes == ASSUME OrchestrationInv, [Next]_vars PROVE Lanes'
<1>1. CASE UNCHANGED vars \/ Database \/ StartFails \/ RecordIDs \/ CancelRead \/ CancelStep \/ Reap
           \/ \E p \in Procs : ReadRow(p)
  <2>1. /\ UNCHANGED <<lane, laneResult, launched, settled, errored, pc>>
        /\ starter' = "start" => starter = "start"
    BY <1>1
       DEF vars, Database, LateRead, LateCommit, LateEnd, StartFails, RecordIDs, CancelRead,
           CancelStep, CancelWorkflow, CancelNotFound, CancelCommits, CancelRejected,
           CancelFails, CancelEnd, Reap, ReadRow, requests, parent, lanes
  <2>. QED  BY <2>1, KeepLanes DEF OrchestrationInv, Lanes
<1>2. CASE StartWorkflow
  <2>1. pc = "none" /\ starter' = "record" /\ UNCHANGED <<lane, laneResult, launched, settled, errored>>
    BY <1>2 DEF OrchestrationInv, Lanes, StartWorkflow, lanes
  <2>. QED  BY <2>1, KeepLanes DEF Early
<1>. QED
  BY <1>1, <1>2, RunStepKeepsLanes, LaunchFirstLanes, SettleChildLanes, LaneStepLanes
     DEF Next, StarterStep, RunStep

\* Every step keeps the workflow where the rows say it may be.
LEMMA StepProgress == ASSUME OrchestrationInv, [Next]_vars PROVE Progress'
<1>. USE DEF OrchestrationInv
<1>1. SomeLaneOk => SomeLaneOk'
  BY StepLanes DEF SomeLaneOk, LaneForward
<1>2. UNCHANGED pc \/ StartWorkflow \/ RunStep
  BY DEF Next, vars, Database, LateRead, LateCommit, LateEnd, StarterStep, StartFails, RecordIDs,
         CancelRead, CancelStep, CancelWorkflow, CancelNotFound, CancelCommits, CancelRejected,
         CancelFails, CancelEnd, Reap, ReadRow, LaneStep, LoadRunAgent, FrozenContext, Prepare,
         Execute, LaneAdvance, Work, FinishLane, LaneFails, MarkRunAgentFailed, LaneRejected,
         MarkRunAgentFailedFails, LaneCancelled, parent
<1>3. pc' \in {"score", "complete", "scorecard", "completed"} => Scored'
  <2>1. CASE BeginScoring
    BY <2>1, MainLineCommit
       DEF BeginScoring, Advance, At, RunStatuses, Scored, Lifecycle!Scored, Lifecycle!Started
  <2>2. CASE RunStep /\ ~BeginScoring
    <3>1. pc' \in {"score", "complete", "scorecard", "completed"}
            => pc \in {"score", "complete", "scorecard", "completed"}
      BY <2>2
         DEF RunStep, LoadRun, AttachRunTemporalIDs, Provision, LaunchFirst, SettleChild, Advance,
             ScoreRunAgents, CompleteAgent, CompleteAgentFails, BuildRunScorecard, CompleteRun,
             StepRejected, StepFails, MarkRunFailed, MarkRunFailedFails, Cancel,
             MarkRunCancelled, MarkRunCancelledRejected, ReloadRun, MarkRunCancelledFails, At,
             Enter, Close
    <3>. QED  BY <3>1, StepStable DEF Progress
  <2>. QED  BY <1>2, <2>1, <2>2, StepStable DEF Progress, StartWorkflow, Enter
<1>4. pc' = "scoring" => SomeLaneOk'
  <2>1. ASSUME NEW a \in Agents, SettleChild(a), pc' = "scoring" PROVE SomeLaneOk'
    <3>1. settled' = Agents /\ errored' # Agents
      BY <2>1 DEF SettleChild, Enter, At
    <3>2. errored' \subseteq settled'
      BY <2>1 DEF SettleChild, TypeOK
    <3>. QED  BY <3>1, <3>2, StepKeepsLanes DEF Lanes, SomeLaneOk
  <2>2. ASSUME RunStep, \A a \in Agents : ~SettleChild(a) PROVE pc' # "scoring"
    BY <2>2
       DEF RunStep, LoadRun, AttachRunTemporalIDs, Provision, LaunchFirst, Advance, BeginScoring,
           ScoreRunAgents, EnterComplete, CompleteAgent, CompleteAgentFails, BuildRunScorecard,
           CompleteRun, StepRejected, StepFails, MarkRunFailed, MarkRunFailedFails, Cancel,
           MarkRunCancelled, MarkRunCancelledRejected, ReloadRun, MarkRunCancelledFails,
           Enter, Close
  <2>. QED  BY <1>1, <1>2, <2>1, <2>2 DEF Progress, StartWorkflow, Enter
<1>. QED  BY <1>1, <1>3, <1>4, StepStable DEF Progress

\* A run that the reaper has failed stays failed, with nothing launched.
LEMMA StepReaped ==
  ASSUME OrchestrationInv, [Next]_vars, reaped'
  PROVE  run' = "failed" /\ launched' = {}
<1>. USE DEF OrchestrationInv
<1>1. CASE Reap
  <2>1. ~Started
    BY <1>1 DEF Reap, Reapable, Started, Lifecycle!Started
  <2>. QED  BY <1>1, <2>1 DEF Lanes, Reap, parent
<1>2. CASE ~Reap
  <2>1. reaped
    BY <1>2
       DEF Next, vars, Database, LateRead, LateCommit, LateEnd, StarterStep, StartWorkflow, StartFails,
           RecordIDs, CancelRead, CancelStep, CancelWorkflow, CancelNotFound, CancelCommits,
           CancelRejected, CancelFails, CancelEnd, ReadRow, LaneStep, LoadRunAgent, FrozenContext,
           Prepare, Execute, LaneAdvance, Work, FinishLane, LaneFails, MarkRunAgentFailed,
           LaneRejected, MarkRunAgentFailedFails, LaneCancelled, RunStep, LoadRun,
           AttachRunTemporalIDs, Provision, LaunchFirst, Advance, SettleChild, BeginScoring,
           ScoreRunAgents, CompleteAgent, CompleteAgentFails, BuildRunScorecard, CompleteRun,
           StepRejected, StepFails, MarkRunFailed, MarkRunFailedFails, Cancel,
           MarkRunCancelled, MarkRunCancelledRejected, ReloadRun, MarkRunCancelledFails
  <2>2. run = "failed" /\ launched = {}
    BY <2>1 DEF Reports
  <2>3. ~LaunchFirst
    BY <2>2, MainLineCommit
       DEF LaunchFirst, Advance, At, RunStatuses, RunCanTransition, RunEdges
  <2>4. UNCHANGED launched
    BY <2>2, <2>3
       DEF Next, vars, Database, LateRead, LateCommit, LateEnd, StarterStep, StartWorkflow, StartFails,
           RecordIDs, CancelRead, CancelStep, CancelWorkflow, CancelNotFound, CancelCommits,
           CancelRejected, CancelFails, CancelEnd, Reap, ReadRow, LaneStep, LoadRunAgent,
           FrozenContext, Prepare, Execute, LaneAdvance, Work, FinishLane, LaneFails,
           MarkRunAgentFailed, LaneRejected, MarkRunAgentFailedFails, LaneCancelled, RunStep,
           LoadRun, AttachRunTemporalIDs, Provision, Advance, SettleChild, BeginScoring,
           ScoreRunAgents, CompleteAgent, CompleteAgentFails, BuildRunScorecard, CompleteRun,
           StepRejected, StepFails, MarkRunFailed, MarkRunFailedFails, Cancel,
           MarkRunCancelled, MarkRunCancelledRejected, ReloadRun, MarkRunCancelledFails,
           parent, fanout
  <2>. QED  BY <2>2, <2>4, StepStable DEF RunTerminal
<1>. QED  BY <1>1, <1>2

\* A run that was reported completed is completed.
LEMMA StepOk ==
  ASSUME OrchestrationInv, [Next]_vars, result' = "ok" PROVE run' = "completed"
<1>. USE DEF OrchestrationInv
<1>1. CASE UNCHANGED result
  BY <1>1, StepStable DEF Reports, RunTerminal
<1>2. CASE CompleteRun
  BY <1>2, MainLineCommit DEF CompleteRun, At, Close, RunStatuses
<1>3. UNCHANGED result \/ result' \in {"error", "cancelled"} \/ CompleteRun
  BY DEF Next, vars, Database, LateRead, LateCommit, LateEnd, StarterStep, StartWorkflow, StartFails,
         RecordIDs, CancelRead, CancelStep, CancelWorkflow, CancelNotFound, CancelCommits,
         CancelRejected, CancelFails, CancelEnd, Reap, ReadRow, LaneStep, LoadRunAgent,
         FrozenContext, Prepare, Execute, LaneAdvance, Work, FinishLane, LaneFails,
         MarkRunAgentFailed, LaneRejected, MarkRunAgentFailedFails, LaneCancelled, RunStep,
         LoadRun, AttachRunTemporalIDs, Provision, LaunchFirst, Advance, SettleChild,
         BeginScoring, ScoreRunAgents, CompleteAgent, CompleteAgentFails, BuildRunScorecard,
         StepRejected, StepFails, MarkRunFailed, MarkRunFailedFails, Cancel, MarkRunCancelled,
         MarkRunCancelledRejected, ReloadRun, MarkRunCancelledFails, Close, parent
<1>. QED  BY <1>1, <1>2, <1>3

\* RunWorkflow closes as cancelled out of its own status write, out of the look at
\* the row that follows a rejected one, or because the cancel request met it while
\* it was marking the run failed.
LEMMA StepCancelled ==
  ASSUME OrchestrationInv, [Next]_vars, pc # "closed", pc' = "closed", result' = "cancelled"
  PROVE  run' \in RunTerminal \/ (pc = "failed" /\ Run \in cancelRequested)
<1>. USE DEF OrchestrationInv
<1>1. CASE MarkRunCancelled
  BY <1>1, MainLineCommit DEF MarkRunCancelled, Close, RunStatuses, RunTerminal
<1>2. CASE ReloadRun
  <2>1. RunCanTransition(run, "cancelled") \/ run \in RunTerminal
    BY DEF TypeOK, Progress, RunStatuses, RunTerminal, RunCanTransition, RunEdges
  <2>. QED  BY <1>2, <2>1 DEF ReloadRun, Close, rows
<1>3. CASE MarkRunFailedFails
  BY <1>3 DEF MarkRunFailedFails, Close
<1>4. result' = "error" \/ CompleteRun \/ MarkRunCancelled \/ ReloadRun \/ MarkRunFailedFails
  <2>1. ~(UNCHANGED pc)
    OBVIOUS
  <2>2. CASE RunStep
    BY <2>1, <2>2
       DEF RunStep, LoadRun, AttachRunTemporalIDs, Provision, LaunchFirst, Advance, SettleChild,
           BeginScoring, ScoreRunAgents, EnterComplete, CompleteAgent, CompleteAgentFails,
           BuildRunScorecard, StepRejected, StepFails, MarkRunFailed, Cancel,
           MarkRunCancelledRejected, MarkRunCancelledFails, Enter, Close
  <2>. QED
    BY <2>1, <2>2
       DEF Next, vars, Database, LateRead, LateCommit, LateEnd, StarterStep, StartWorkflow,
           StartFails, RecordIDs, CancelRead, CancelStep, CancelWorkflow, CancelNotFound,
           CancelCommits, CancelRejected, CancelFails, CancelEnd, Reap, ReadRow, LaneStep,
           LoadRunAgent, FrozenContext, Prepare, Execute, LaneAdvance, Work, FinishLane,
           LaneFails, MarkRunAgentFailed, LaneRejected, MarkRunAgentFailedFails, LaneCancelled,
           Enter, parent
<1>5. CASE CompleteRun
  BY <1>5 DEF CompleteRun, Close
<1>. QED  BY <1>1, <1>2, <1>3, <1>4, <1>5

\* Every step keeps the invariant.
LEMMA StepInv == OrchestrationInv /\ [Next]_vars => OrchestrationInv'
<1>. SUFFICES ASSUME OrchestrationInv, [Next]_vars PROVE OrchestrationInv'
  OBVIOUS
<1>1. TypeOK' /\ Shape'
  BY StepType, StepShape DEF OrchestrationInv
<1>2. Reports'
  BY StepReaped, StepOk DEF Reports
<1>. QED
  BY <1>1, <1>2, StepKeepsLanes, StepProgress, StepReads, StepLateBacked DEF OrchestrationInv
-----------------------------------------------------------------------------
\* OrchestrationInv holds throughout, for every number of agents, every cap,
\* any number of cancel requests, with and without faults.
THEOREM OrchestrationInvariant == Spec => []OrchestrationInv
BY InitInv, StepInv, PTL DEF Spec

\* The type invariant.
THEOREM OrchestrationTypes == Spec => []TypeOK
<1>1. OrchestrationInv => TypeOK
  BY DEF OrchestrationInv
<1>. QED  BY <1>1, OrchestrationInvariant, PTL

\* Whatever fails, times out or commits late, the rows of runs and run_agents
\* only do what RunLifecycle allows: the orchestration implements it.
THEOREM OrchestrationImplementsLifecycle == Spec => ImplementsLifecycle
<1>1. Init => Lifecycle!LifecycleInit
  BY DEF Init, Lifecycle!LifecycleInit
<1>2. OrchestrationInv /\ [Next]_vars => [Lifecycle!LifecycleNext]_Lifecycle!lifecycleVars
  BY StepLifecycle
<1>. QED
  BY <1>1, <1>2, OrchestrationInvariant, PTL
     DEF Spec, ImplementsLifecycle, Lifecycle!LifecycleSpec

\* What RunWorkflow reports to its caller when it closes is true of the row, but
\* for the cancel request that interrupts the marking of a failed run.
THEOREM ResultsAgree == Spec => ResultAgreesWithRun
<1>1. OrchestrationInv /\ [Next]_vars =>
        [pc' = "closed" /\ pc # "closed" =>
           /\ result' = "ok" => run' = "completed"
           /\ result' = "cancelled" =>
                run' \in RunTerminal \/ (pc = "failed" /\ Run \in cancelRequested)]_vars
  BY StepOk, StepCancelled
<1>. QED  BY <1>1, OrchestrationInvariant, PTL DEF Spec, ResultAgreesWithRun

\* The reaper never fails a run whose agents are launched, now or later.
THEOREM ReapedRunsStayIdle == Spec => []ReapedRunNeverLaunches
<1>1. OrchestrationInv => ReapedRunNeverLaunches
  BY DEF OrchestrationInv, Reports, ReapedRunNeverLaunches
<1>. QED  BY <1>1, OrchestrationInvariant, PTL

\* A run is scored only on an agent whose lane succeeded and that no abandoned
\* write takes back.
THEOREM ScoredRunsHaveWork == Spec => []ScoredRunHasFinishedAgent
<1>1. OrchestrationInv => ScoredRunHasFinishedAgent
  BY DEF OrchestrationInv, Lanes, Progress, SomeLaneOk, ScoredRunHasFinishedAgent
<1>. QED  BY <1>1, OrchestrationInvariant, PTL
=============================================================================
