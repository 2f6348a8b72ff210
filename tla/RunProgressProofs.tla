-------------------------- MODULE RunProgressProofs --------------------------
(***************************************************************************)
(* Why a run cannot hang or go round in circles, for every set of agents,  *)
(* every cap, any number of cancel requests, with faults and without:      *)
(*                                                                         *)
(*   - RunWorkflow and each lane carry a number that each of their steps   *)
(*     lowers and that nobody else changes (RunWinds, LanesWind);          *)
(*   - whoever has not come to rest can take a step, or waits for one that *)
(*     can (NeverStuck);                                                   *)
(*   - the agents are launched as BoundedLaunching says, with every slot   *)
(*     in use (ImplementsLaunching, SlotsBusy);                            *)
(*   - a run whose workflow was never started is over, or the reaper can   *)
(*     take it (NoOrphan).                                                 *)
(*                                                                         *)
(* With the fairness of the steps, these are why EverythingCloses and      *)
(* RunEventuallyTerminal hold.                                             *)
(***************************************************************************)
EXTENDS RunOrchestrationProofs

USE OrchestrationAssumption DEF OrchestrationAssumption

InFlight == launched \ settled

\* What the fan-out keeps to: only lanes that were launched are waited for, and
\* there is one to wait for.
Waiting ==
  /\ \A a \in launched : lane[a] # "idle"
  /\ pc = "fanout" => InFlight # {}
  /\ Cardinality(InFlight) <= MaxInFlight
  /\ pc = "fanout" => launched = Agents \/ Cardinality(InFlight) = MaxInFlight
  /\ pc = "complete" => txn[Run].row \in toComplete

\* The steps of RunWorkflow and of a lane, counted from the end.
StepsLeft ==
  CASE pc = "none"      -> 14 [] pc = "load"      -> 13 [] pc = "attach"  -> 12
    [] pc = "provisioning" -> 11 [] pc = "running" -> 10 [] pc = "fanout" -> 9
    [] pc = "scoring"   -> 8  [] pc = "score"     -> 7  [] pc = "complete" -> 6
    [] pc = "scorecard" -> 5  [] pc = "completed" -> 4  [] pc = "failed"  -> 3
    [] pc = "cancelled" -> 2  [] pc = "reload"    -> 1  [] pc = "closed"  -> 0

LaneStepsLeft(a) ==
  CASE lane[a] = "idle" -> 7 [] lane[a] = "load" -> 6 [] lane[a] = "ready" -> 5
    [] lane[a] = "executing" -> 4 [] lane[a] = "work" -> 3 [] lane[a] = "evaluating" -> 2
    [] lane[a] = "failed" -> 1 [] lane[a] = "closed" -> 0

\* Agents that RunWorkflow may still have to complete.
ToScore == IF pc = "complete" THEN toComplete ELSE IF StepsLeft >= 7 THEN Agents ELSE {}

\* A transaction has to read its row before it ends.
Unfinished(p) == IF txn[p].saw = Unread THEN 1 ELSE 0

RunWork ==
  2 * StepsLeft + 2 * Cardinality(Agents \ settled) + 2 * Cardinality(ToScore) + Unfinished(Run)

LaneWork(a) == 2 * LaneStepsLeft(a) + Unfinished(a)

\* Each move of RunWorkflow, its transactions included, brings it closer to its
\* end, and what others do never sets it back.
RunWinds ==
  /\ [](RunWork \in 0..(29 + 4 * Cardinality(Agents)))
  /\ [][RunWork' < RunWork]_<<parent, txn[Run]>>

\* The same for the RunAgentWorkflow of each agent.
LanesWind ==
  /\ [](\A a \in Agents : LaneWork(a) \in 0..15)
  /\ [][\A a \in Agents : [LaneWork(a)' < LaneWork(a)]_<<lane[a], laneResult[a], txn[a]>>]_vars

\* When somebody can step: a transaction reads its row, or its outcome is known.
TxnCanMove(t) ==
  /\ t # NoTxn
  /\ (t.saw = Unread /\ Allowed(t)) \/ Rejected(t) \/ Commits(t)

StarterCanMove == starter \in {"start", "record"}

CancellerCanMove ==
  canceller = "request" \/ (canceller = "write" /\ TxnCanMove(txn[Api]))

LaneCanMove(a) ==
  /\ lane[a] \notin {"idle", "closed"}
  /\ a \in cancelRequested \/ lane[a] \in {"load", "work"} \/ TxnCanMove(txn[a])

RunCanMove ==
  \/ pc \in {"load", "attach", "score", "scorecard", "reload"}
  \/ pc \in MainLine \union {"complete", "failed", "cancelled"} /\ TxnCanMove(txn[Run])
  \/ pc = "fanout" /\ (Run \in cancelRequested \/ \E a \in InFlight : lane[a] = "closed")

\* Nobody hangs: a request that has begun can go on, so can every open lane, and
\* RunWorkflow can go on or has launched a lane that can.
NeverStuck ==
  /\ starter # "done" => StarterCanMove
  /\ canceller # "idle" => CancellerCanMove
  /\ \A a \in Agents : lane[a] \notin {"idle", "closed"} => LaneCanMove(a)
  /\ pc \notin {"none", "closed"} =>
       RunCanMove \/ (pc = "fanout" /\ \E a \in InFlight : LaneCanMove(a))

\* launchBounded in RunWorkflow keeps as many agents running as it may: it has
\* never more than the cap, and fewer only when none is left to launch.
SlotsBusy ==
  /\ Cardinality(InFlight) <= MaxInFlight
  /\ pc = "fanout" => launched = Agents \/ Cardinality(InFlight) = MaxInFlight
-----------------------------------------------------------------------------
(* Waiting is invariant.                                                   *)

\* Any set of agents can be counted.
LEMMA AgentsFinite == \A S \in SUBSET Agents : IsFiniteSet(S) /\ Cardinality(S) \in Nat
BY FS_Subset, FS_CardinalityType

\* What RunWorkflow does to its children: nothing, while it moves somewhere else,
\* or one of the two steps of the fan-out.
LEMMA ParentMoves ==
  ASSUME TypeOK, [Next]_vars
  PROVE  \/ UNCHANGED <<launched, settled>> /\ (pc' # pc => pc' # "fanout")
         \/ LaunchFirst
         \/ \E a \in Agents : SettleChild(a)
<1>1. CASE UNCHANGED parent
  BY <1>1 DEF parent
<1>2. CASE StartWorkflow
  BY <1>2 DEF StartWorkflow, Enter
<1>3. CASE RunStep
  <2>1. CASE LoadRun \/ AttachRunTemporalIDs \/ Provision \/ BeginScoring \/ ScoreRunAgents
             \/ BuildRunScorecard \/ CompleteRun
    BY <2>1 DEF LoadRun, AttachRunTemporalIDs, Provision, BeginScoring, Advance, ScoreRunAgents,
                EnterComplete, BuildRunScorecard, CompleteRun, Enter, Close, fanout
  <2>2. CASE CompleteAgent \/ CompleteAgentFails
    BY <2>2 DEF CompleteAgent, CompleteAgentFails, EnterComplete, Enter
  <2>3. CASE StepRejected \/ StepFails \/ MarkRunFailed \/ MarkRunFailedFails \/ Cancel
             \/ MarkRunCancelled \/ MarkRunCancelledRejected \/ ReloadRun
             \/ MarkRunCancelledFails
    BY <2>3 DEF StepRejected, StepFails, MarkRunFailed, MarkRunFailedFails, Cancel,
                MarkRunCancelled, MarkRunCancelledRejected, ReloadRun, MarkRunCancelledFails,
                Enter, Close, fanout
  <2>. QED  BY <1>3, <2>1, <2>2, <2>3 DEF RunStep
<1>. QED
  BY <1>1, <1>2, <1>3 DEF Next, vars, Database, LateRead, LateCommit, LateEnd, StarterStep,
     StartFails, RecordIDs, Reap, CancelRead, CancelStep, CancelWorkflow, CancelNotFound,
     CancelCommits, CancelRejected, CancelFails, CancelEnd, ReadRow, LaneStep, LoadRunAgent,
     FrozenContext, Prepare, Execute, LaneAdvance, Work, FinishLane, LaneFails,
     MarkRunAgentFailed, LaneRejected, MarkRunAgentFailedFails, LaneCancelled

\* The first launch fills the slots, as far as there are agents.
LEMMA FirstLaunch ==
  ASSUME OrchestrationInv, LaunchFirst
  PROVE  /\ InFlight' = launched' /\ InFlight' # {} /\ settled' = {} /\ settled = {}
         /\ launched' \subseteq Agents
         /\ Cardinality(InFlight') <= MaxInFlight
         /\ launched' = Agents \/ Cardinality(InFlight') = MaxInFlight
         /\ \A a \in launched' : lane'[a] # "idle"
<1>. USE DEF OrchestrationInv
<1>1. PICK S \in SUBSET Agents :
        Cardinality(S) = Min2(MaxInFlight, Cardinality(Agents)) /\ Launch(S)
  BY DEF LaunchFirst
<1>2. launched = {} /\ settled = {} /\ UNCHANGED settled
  BY DEF LaunchFirst, Advance, At, Lanes, Early, TypeOK
<1>3. launched' = S /\ InFlight' = S
  BY <1>1, <1>2 DEF Launch, InFlight
<1>4. /\ Cardinality(Agents) \in Nat \ {0} /\ Cardinality(S) \in Nat
      /\ Cardinality(S) # 0 /\ Cardinality(S) <= MaxInFlight
  BY <1>1, AgentsFinite, FS_EmptySet DEF Min2
<1>5. S # {}
  BY <1>4, FS_EmptySet
<1>6. S = Agents \/ Cardinality(S) = MaxInFlight
  BY <1>1, <1>4, FS_Subset DEF Min2
<1>7. \A a \in S : lane'[a] # "idle"
  BY <1>1 DEF Launch
<1>. QED  BY <1>2, <1>3, <1>4, <1>5, <1>6, <1>7

\* A child that settles gives its slot to the next one, if there is one.
LEMMA NextLaunch ==
  ASSUME OrchestrationInv, Waiting, NEW a \in Agents, SettleChild(a)
  PROVE  /\ a \in InFlight /\ settled' = settled \union {a}
         /\ \E New \in SUBSET (Agents \ launched) :
              /\ launched' = launched \union New
              /\ InFlight' = (InFlight \ {a}) \union New
              /\ \A b \in New : lane'[b] # "idle"
              /\ \A b \in Agents \ New : lane'[b] = lane[b]
         /\ Cardinality(InFlight') <= MaxInFlight
         /\ pc' = "fanout" => /\ InFlight' # {}
                              /\ launched' = Agents \/ Cardinality(InFlight') = MaxInFlight
<1>. USE DEF OrchestrationInv
<1>1. a \in InFlight /\ settled' = settled \union {a} /\ launched \subseteq Agents
      /\ pc = "fanout"
  BY DEF SettleChild, InFlight, At, TypeOK
<1>2. /\ InFlight \in SUBSET Agents /\ Cardinality(InFlight) \in Nat
      /\ IsFiniteSet(InFlight)
      /\ Cardinality(InFlight \ {a}) = Cardinality(InFlight) - 1
      /\ IsFiniteSet(InFlight \ {a})
  BY <1>1, AgentsFinite, FS_RemoveElement DEF InFlight
<1>3. CASE launched # Agents
  <2>1. PICK b \in Agents \ launched : Launch({b})
    BY <1>3 DEF SettleChild
  <2>2. launched' = launched \union {b} /\ InFlight' = (InFlight \ {a}) \union {b}
    BY <1>1, <2>1 DEF Launch, InFlight, TypeOK
  <2>. DEFINE Rest == InFlight \ {a}
  <2>a. b \notin Rest /\ InFlight' = Rest \union {b}
    BY <2>1, <2>2 DEF InFlight
  <2>b. IsFiniteSet(Rest) /\ Cardinality(Rest) = Cardinality(InFlight) - 1
    BY <1>2
  <2>. HIDE DEF Rest
  <2>c. Cardinality(Rest \union {b}) = Cardinality(Rest) + 1
    BY <2>a, <2>b, FS_AddElement
  <2>3. Cardinality(InFlight') = Cardinality(InFlight)
    BY <1>2, <2>a, <2>b, <2>c
  <2>4. Cardinality(InFlight) = MaxInFlight
    BY <1>1, <1>3 DEF Waiting
  <2>5. lane'[b] # "idle" /\ \A c \in Agents \ {b} : lane'[c] = lane[c]
    BY <2>1 DEF Launch
  <2>. QED  BY <1>1, <2>1, <2>2, <2>3, <2>4, <2>5
<1>4. CASE launched = Agents
  <2>1. UNCHANGED <<launched, lane>>
    BY <1>4 DEF SettleChild
  <2>2. InFlight' = InFlight \ {a}
    BY <1>1, <2>1 DEF InFlight
  <2>3. Cardinality(InFlight') <= MaxInFlight
    BY <1>2, <2>2 DEF Waiting
  <2>4. pc' = "fanout" => InFlight' # {}
    <3>1. settled' = Agents => pc' # "fanout"
      BY <1>4 DEF SettleChild, Enter
    <3>. QED  BY <1>1, <1>4, <2>1, <3>1 DEF InFlight, TypeOK
  <2>5. {} \in SUBSET (Agents \ launched) /\ launched' = launched \union {}
        /\ InFlight' = (InFlight \ {a}) \union {}
    BY <2>1, <2>2
  <2>. QED  BY <1>1, <1>4, <2>1, <2>3, <2>4, <2>5
<1>. QED  BY <1>3, <1>4

\* A run that has just been inserted launches and completes nobody.
LEMMA InitWaiting == Init => Waiting
BY FS_EmptySet DEF Init, Waiting, InFlight

\* A run that completes its agents has picked one of those that are left.
LEMMA StepCompletes ==
  ASSUME OrchestrationInv, [Next]_vars, Waiting, pc' = "complete"
  PROVE  txn'[Run].row \in toComplete'
<1>. USE DEF OrchestrationInv
<1>1. ASSUME NEW S \in SUBSET Agents, EnterComplete(S) PROVE txn'[Run].row \in toComplete'
  BY <1>1, ProcsDistinct DEF EnterComplete, Enter, Begin, TypeOK
<1>2. ASSUME UNCHANGED <<parent, txn>> PROVE txn'[Run].row \in toComplete'
  BY <1>2 DEF Waiting, parent
<1>3. ASSUME UNCHANGED parent, NEW p \in Procs \ {Run}, NEW t, txn' = [txn EXCEPT ![p] = t]
      PROVE  txn'[Run].row \in toComplete'
  BY <1>3, ProcsDistinct DEF Waiting, parent, TypeOK
<1>4. CASE UNCHANGED vars \/ Database \/ Reap \/ CancelRead \/ StarterStep
  BY <1>2, <1>4 DEF vars, Database, LateRead, LateCommit, LateEnd, Reap, CancelRead, StarterStep,
                    StartWorkflow, StartFails, RecordIDs, Enter, parent
<1>5. CASE CancelStep
  BY <1>2, <1>3, <1>5, ProcsDistinct
     DEF CancelStep, CancelWorkflow, CancelNotFound, CancelWrite, CancelCommits, CancelRejected,
         CancelFails, CancelEnd
<1>6. ASSUME NEW p \in Procs, ReadRow(p) PROVE txn'[Run].row \in toComplete'
  <2>1. UNCHANGED parent /\ txn'[Run].row = txn[Run].row
    BY <1>6, ProcsDistinct DEF ReadRow, TypeOK, Txns, RunTxns, AgentTxns, NoTxn
  <2>. QED  BY <2>1 DEF Waiting, parent
<1>7. ASSUME NEW a \in Agents, LaneStep(a) PROVE txn'[Run].row \in toComplete'
  BY <1>3, <1>7, ProcsDistinct
     DEF LaneStep, LoadRunAgent, FrozenContext, Prepare, Execute, LaneAdvance, Work, FinishLane,
         LaneFails, MarkRunAgentFailed, LaneRejected, MarkRunAgentFailedFails, LaneCancelled,
         LaneEnter, LaneClose
<1>8. CASE RunStep
  <2>1. CASE CompleteAgent \/ CompleteAgentFails
    BY <1>1, <2>1 DEF CompleteAgent, CompleteAgentFails, TypeOK
  <2>2. CASE ScoreRunAgents
    BY <1>1, <2>2 DEF ScoreRunAgents, Enter
  <2>3. CASE LoadRun \/ AttachRunTemporalIDs \/ Provision \/ LaunchFirst \/ BeginScoring
             \/ BuildRunScorecard \/ CompleteRun \/ \E a \in Agents : SettleChild(a)
    BY <2>3 DEF LoadRun, AttachRunTemporalIDs, Provision, LaunchFirst, SettleChild, BeginScoring,
                Advance, BuildRunScorecard, CompleteRun, Enter, Close, At
  <2>4. CASE StepRejected \/ StepFails \/ MarkRunFailed \/ MarkRunFailedFails \/ Cancel
             \/ MarkRunCancelled \/ MarkRunCancelledRejected \/ ReloadRun
             \/ MarkRunCancelledFails
    BY <2>4 DEF StepRejected, StepFails, MarkRunFailed, MarkRunFailedFails, Cancel,
                MarkRunCancelled, MarkRunCancelledRejected, ReloadRun, MarkRunCancelledFails,
                Enter, Close
  <2>. QED  BY <1>8, <2>1, <2>2, <2>3, <2>4 DEF RunStep
<1>. QED  BY <1>4, <1>5, <1>6, <1>7, <1>8 DEF Next

\* A launch gives a lane its first step, and leaves the others alone.
LEMMA LaunchMoves ==
  ASSUME TypeOK, Lanes, NEW S \in SUBSET (Agents \ launched), Launch(S), NEW a \in Agents
  PROVE  lane'[a] = lane[a] \/ LaneStepsLeft(a)' < LaneStepsLeft(a)
BY DEF Launch, LaneStepsLeft, Lanes

\* A lane that enters a step or closes comes closer to its end, if the step is
\* a later one.
LEMMA LaneEntersMoves ==
  ASSUME TypeOK, NEW a \in Agents, NEW b \in Agents
  PROVE  /\ \A label \in LaneSteps : LaneEnter(b, label) /\ a # b =>
              UNCHANGED <<lane[a], laneResult[a], txn[a]>>
         /\ \A r : LaneClose(b, r) /\ a # b => UNCHANGED <<lane[a], laneResult[a], txn[a]>>
         /\ \A label \in LaneSteps : LaneEnter(a, label) => lane'[a] = label
         /\ \A r : LaneClose(a, r) => lane'[a] = "closed"
BY ProcsDistinct DEF LaneEnter, LaneClose, TypeOK

\* A lane moves by reading the row of its transaction or by going to a later step;
\* nothing else touches it.
LEMMA LaneMoves ==
  ASSUME OrchestrationInv, [Next]_vars, NEW a \in Agents
  PROVE  \/ UNCHANGED <<lane[a], laneResult[a], txn[a]>>
         \/ /\ UNCHANGED <<lane[a], laneResult[a]>>
            /\ txn[a].saw = Unread /\ txn'[a].saw # Unread
         \/ LaneStepsLeft(a)' < LaneStepsLeft(a)
<1>. USE DEF OrchestrationInv
<1>1. CASE UNCHANGED vars \/ Database \/ Reap \/ CancelRead
  BY <1>1 DEF vars, lanes, Database, LateRead, LateCommit, LateEnd, Reap, CancelRead
<1>2. CASE StarterStep \/ CancelStep
  BY <1>2, ProcsDistinct
     DEF StarterStep, StartWorkflow, StartFails, RecordIDs, Enter, CancelStep, CancelWorkflow,
         CancelNotFound, CancelWrite, CancelCommits, CancelRejected, CancelFails, CancelEnd,
         lanes, TypeOK
<1>3. ASSUME NEW p \in Procs, ReadRow(p)
      PROVE  \/ UNCHANGED <<lane[a], laneResult[a], txn[a]>>
             \/ /\ UNCHANGED <<lane[a], laneResult[a]>>
                /\ txn[a].saw = Unread /\ txn'[a].saw # Unread
  <2>1. Status(txn[p].row) # Unread
    BY <1>3, StatusType DEF ReadRow, TypeOK, Unread, RunStatuses, RunAgentStatuses
  <2>. QED  BY <1>3, <2>1, ProcsDistinct DEF ReadRow, lanes, TypeOK, Txns, RunTxns, AgentTxns
<1>4. ASSUME NEW b \in Agents, LaneStep(b)
      PROVE  \/ UNCHANGED <<lane[a], laneResult[a], txn[a]>>
             \/ LaneStepsLeft(a)' < LaneStepsLeft(a)
  <2>1. CASE a # b
    BY <1>4, <2>1, LaneEntersMoves
       DEF LaneStep, LoadRunAgent, FrozenContext, Prepare, Execute, LaneAdvance, Work,
           FinishLane, LaneFails, MarkRunAgentFailed, LaneRejected, MarkRunAgentFailedFails,
           LaneCancelled, LaneSteps
  <2>2. CASE a = b
    BY <1>4, <2>2, LaneEntersMoves
       DEF LaneStep, LoadRunAgent, FrozenContext, Prepare, Execute, LaneAdvance, Work,
           FinishLane, LaneFails, MarkRunAgentFailed, LaneRejected, MarkRunAgentFailedFails,
           LaneCancelled, LaneSteps, LaneAt, LaneStepsLeft, TypeOK, RunAgentStatuses
  <2>. QED  BY <2>1, <2>2
<1>5. CASE RunStep
  <2>1. laneResult'[a] = laneResult[a] /\ txn'[a] = txn[a]
    BY <1>5, ProcsDistinct
       DEF RunStep, LoadRun, AttachRunTemporalIDs, Provision, LaunchFirst, SettleChild,
           BeginScoring, Advance, ScoreRunAgents, EnterComplete, CompleteAgent,
           CompleteAgentFails, BuildRunScorecard, CompleteRun, StepRejected, StepFails,
           MarkRunFailed, MarkRunFailedFails, Cancel, MarkRunCancelled,
           MarkRunCancelledRejected, ReloadRun, MarkRunCancelledFails, Enter, Close, lanes,
           TypeOK
  <2>2. lane'[a] = lane[a] \/ LaneStepsLeft(a)' < LaneStepsLeft(a)
    <3>1. CASE LaunchFirst
      <4>1. launched = {}
        BY <3>1 DEF LaunchFirst, Advance, At, Lanes, Early
      <4>. QED  BY <3>1, <4>1, LaunchMoves DEF LaunchFirst
    <3>2. ASSUME NEW b \in Agents, SettleChild(b)
          PROVE  lane'[a] = lane[a] \/ LaneStepsLeft(a)' < LaneStepsLeft(a)
      <4>1. CASE launched # Agents
        <5>1. PICK c \in Agents \ launched : Launch({c})
          BY <3>2, <4>1 DEF SettleChild
        <5>2. {c} \in SUBSET (Agents \ launched)
          OBVIOUS
        <5>. QED  BY <5>1, <5>2, LaunchMoves
      <4>2. CASE launched = Agents
        BY <3>2, <4>2 DEF SettleChild
      <4>. QED  BY <4>1, <4>2
    <3>3. CASE ~LaunchFirst /\ \A b \in Agents : ~SettleChild(b)
      BY <1>5, <3>3
         DEF RunStep, LoadRun, AttachRunTemporalIDs, Provision, BeginScoring, ScoreRunAgents,
             CompleteAgent, CompleteAgentFails, BuildRunScorecard, CompleteRun, StepRejected,
             StepFails, MarkRunFailed, MarkRunFailedFails, Cancel, MarkRunCancelled,
             MarkRunCancelledRejected, ReloadRun, MarkRunCancelledFails, lanes
    <3>. QED  BY <3>1, <3>2, <3>3
  <2>. QED  BY <2>1, <2>2
<1>. QED  BY <1>1, <1>2, <1>3, <1>4, <1>5 DEF Next

\* Every step leaves the fan-out waiting for lanes that run.
LEMMA StepWaiting == ASSUME OrchestrationInv, Waiting, [Next]_vars PROVE Waiting'
<1>. USE DEF OrchestrationInv
<1>1. pc' = "complete" => txn'[Run].row \in toComplete'
  BY StepCompletes
<1>2. \A a \in Agents : lane[a] # "idle" => lane'[a] # "idle"
  BY LaneMoves DEF LaneStepsLeft, TypeOK, LaneSteps
<1>3. CASE UNCHANGED <<launched, settled>> /\ (pc' # pc => pc' # "fanout")
  BY <1>1, <1>2, <1>3 DEF Waiting, InFlight, TypeOK
<1>4. CASE LaunchFirst
  BY <1>1, <1>4, FirstLaunch DEF Waiting
<1>5. ASSUME NEW a \in Agents, SettleChild(a) PROVE Waiting'
  BY <1>1, <1>5, NextLaunch DEF Waiting, TypeOK
<1>. QED  BY <1>3, <1>4, <1>5, ParentMoves

\* Waiting holds throughout.
LEMMA WaitingInvariant == Spec => [](OrchestrationInv /\ Waiting)
<1>1. OrchestrationInv /\ Waiting /\ [Next]_vars => OrchestrationInv' /\ Waiting'
  BY StepInv, StepWaiting
<1>. QED  BY InitInv, InitWaiting, <1>1, PTL DEF Spec

\* As many agents run as the cap allows and the run has.
THEOREM RunKeepsSlotsBusy == Spec => []SlotsBusy
<1>1. OrchestrationInv /\ Waiting => SlotsBusy
  BY DEF Waiting, SlotsBusy
<1>. QED  BY <1>1, WaitingInvariant, PTL
-----------------------------------------------------------------------------
(* RunWorkflow and the lanes wind down.                                    *)

\* A lane has at most fifteen moves left.
LEMMA LaneWorkType ==
  ASSUME TypeOK, NEW a \in Agents
  PROVE  LaneStepsLeft(a) \in 0..7 /\ Unfinished(a) \in 0..1 /\ LaneWork(a) \in 0..15
<1>1. LaneStepsLeft(a) \in 0..7
  BY DEF LaneStepsLeft, TypeOK, LaneSteps
<1>. QED  BY <1>1 DEF Unfinished, LaneWork

\* Each move of a lane lowers its number.
LEMMA StepLaneWork ==
  ASSUME OrchestrationInv, [Next]_vars, NEW a \in Agents
  PROVE  [LaneWork(a)' < LaneWork(a)]_<<lane[a], laneResult[a], txn[a]>>
<1>1. TypeOK /\ TypeOK'
  BY StepInv DEF OrchestrationInv
<1>2. /\ LaneStepsLeft(a) \in Int /\ Unfinished(a) \in 0..1
      /\ LaneStepsLeft(a)' \in Int /\ Unfinished(a)' \in 0..1
  BY <1>1 DEF LaneStepsLeft, Unfinished, TypeOK, LaneSteps
<1>3. CASE LaneStepsLeft(a)' < LaneStepsLeft(a)
  BY <1>2, <1>3 DEF LaneWork
<1>4. CASE /\ UNCHANGED <<lane[a], laneResult[a]>>
           /\ txn[a].saw = Unread /\ txn'[a].saw # Unread
  <2>1. Unfinished(a) = 1 /\ Unfinished(a)' = 0
    BY <1>4 DEF Unfinished
  <2>2. LaneStepsLeft(a)' = LaneStepsLeft(a)
    BY <1>4 DEF LaneStepsLeft
  <2>. QED  BY <1>2, <2>1, <2>2 DEF LaneWork
<1>. QED  BY <1>3, <1>4, LaneMoves

\* RunAgentWorkflow cannot go round in circles.
THEOREM LanesWindDown == Spec => LanesWind
<1>1. OrchestrationInv => \A a \in Agents : LaneWork(a) \in 0..15
  BY LaneWorkType DEF OrchestrationInv
<1>2. OrchestrationInv /\ [Next]_vars =>
        [\A a \in Agents : [LaneWork(a)' < LaneWork(a)]_<<lane[a], laneResult[a], txn[a]>>]_vars
  BY StepLaneWork
<1>. QED  BY <1>1, <1>2, OrchestrationInvariant, PTL DEF Spec, LanesWind

\* RunWorkflow goes to a later step, or settles or scores one more agent.
MovesOn ==
  /\ StepsLeft' <= StepsLeft /\ settled \subseteq settled' /\ ToScore' \subseteq ToScore
  /\ StepsLeft' < StepsLeft \/ settled' # settled \/ ToScore' # ToScore

\* A later step of RunWorkflow brings it on.
LEMMA LaterStep ==
  ASSUME TypeOK, TypeOK', UNCHANGED settled, StepsLeft' < StepsLeft,
         pc' = "complete" => pc = "score"
  PROVE  MovesOn
<1>1. StepsLeft \in 0..14 /\ StepsLeft' \in 0..14
  BY DEF StepsLeft, TypeOK, Steps
<1>2. ToScore' \subseteq ToScore
  <2>1. CASE pc' = "complete"
    BY <2>1 DEF ToScore, StepsLeft, TypeOK
  <2>2. CASE pc' # "complete" /\ StepsLeft' >= 7
    <3>1. StepsLeft >= 8
      BY <1>1, <2>2
    <3>2. pc # "complete"
      BY <3>1 DEF StepsLeft
    <3>3. StepsLeft >= 7
      BY <1>1, <3>1
    <3>. QED  BY <3>2, <3>3 DEF ToScore, TypeOK
  <2>3. CASE pc' # "complete" /\ ~(StepsLeft' >= 7)
    BY <2>3 DEF ToScore
  <2>. QED  BY <2>1, <2>2, <2>3
<1>. QED  BY <1>1, <1>2 DEF MovesOn

\* Each step of RunWorkflow brings it on.
LEMMA RunStepMovesOn == ASSUME OrchestrationInv, Waiting, [Next]_vars, RunStep PROVE MovesOn
<1>1. TypeOK /\ TypeOK'
  BY StepInv DEF OrchestrationInv
<1>2. CASE LoadRun \/ AttachRunTemporalIDs \/ Provision \/ LaunchFirst \/ BeginScoring
           \/ BuildRunScorecard \/ CompleteRun
  <2>1. UNCHANGED settled /\ pc' # "complete" /\ StepsLeft' < StepsLeft
    BY <1>2 DEF LoadRun, AttachRunTemporalIDs, Provision, LaunchFirst, BeginScoring, Advance,
                BuildRunScorecard, CompleteRun, Enter, Close, At, fanout, StepsLeft
  <2>. QED  BY <1>1, <2>1, LaterStep
<1>3. CASE ScoreRunAgents
  <2>1. /\ UNCHANGED settled /\ pc = "score"
        /\ pc' \in {"completed", "complete", "scorecard"}
    BY <1>3 DEF ScoreRunAgents, EnterComplete, Enter, At
  <2>2. StepsLeft' < StepsLeft
    BY <2>1 DEF StepsLeft
  <2>. QED  BY <1>1, <2>1, <2>2, LaterStep
<1>4. CASE CompleteAgent \/ CompleteAgentFails
  <2>1. /\ UNCHANGED settled /\ pc = "complete" /\ txn[Run].row \in toComplete
        /\ toComplete' = toComplete \ {txn[Run].row}
        /\ pc' \in {"complete", "scorecard"}
    BY <1>4 DEF CompleteAgent, CompleteAgentFails, EnterComplete, Enter, At, Waiting
  <2>2. ToScore = toComplete /\ ToScore' \in {toComplete', {}} /\ StepsLeft' <= StepsLeft
    BY <2>1 DEF ToScore, StepsLeft
  <2>. QED  BY <2>1, <2>2 DEF MovesOn
<1>5. CASE StepRejected \/ StepFails \/ MarkRunFailed \/ MarkRunFailedFails \/ Cancel
           \/ MarkRunCancelled \/ MarkRunCancelledRejected \/ ReloadRun
           \/ MarkRunCancelledFails
  <2>1. UNCHANGED settled /\ pc' \in {"failed", "cancelled", "reload", "closed"}
    BY <1>5 DEF StepRejected, StepFails, MarkRunFailed, MarkRunFailedFails, Cancel,
                MarkRunCancelled, MarkRunCancelledRejected, ReloadRun, MarkRunCancelledFails,
                Enter, Close, fanout
  <2>2. StepsLeft' < StepsLeft
    BY <1>1, <1>5 DEF StepRejected, StepFails, MarkRunFailed, MarkRunFailedFails, Cancel,
                MarkRunCancelled, MarkRunCancelledRejected, ReloadRun, MarkRunCancelledFails,
                Enter, Close, MainLine, At, StepsLeft, TypeOK, Steps
  <2>. QED  BY <1>1, <2>1, <2>2, LaterStep
<1>6. ASSUME NEW a \in Agents, SettleChild(a) PROVE MovesOn
  <2>1. /\ a \notin settled /\ settled' = settled \union {a} /\ pc = "fanout"
        /\ pc' \in {"fanout", "scoring", "failed"}
    BY <1>6 DEF SettleChild, At, Enter
  <2>2. StepsLeft' <= StepsLeft /\ ToScore' \subseteq ToScore
    BY <2>1 DEF ToScore, StepsLeft
  <2>. QED  BY <2>1, <2>2 DEF MovesOn
<1>. QED  BY <1>2, <1>3, <1>4, <1>5, <1>6 DEF RunStep

\* RunWorkflow moves by reading the row of its transaction or by going on; nobody
\* else touches it.
LEMMA RunMoves ==
  ASSUME OrchestrationInv, Waiting, [Next]_vars
  PROVE  \/ UNCHANGED <<parent, txn[Run]>>
         \/ UNCHANGED parent /\ txn[Run].saw = Unread /\ txn'[Run].saw # Unread
         \/ MovesOn
<1>. USE DEF OrchestrationInv
<1>1. CASE UNCHANGED vars \/ Database \/ Reap \/ CancelRead
  BY <1>1 DEF vars, Database, LateRead, LateCommit, LateEnd, Reap, CancelRead
<1>2. CASE CancelStep
  BY <1>2, ProcsDistinct
     DEF CancelStep, CancelWorkflow, CancelNotFound, CancelWrite, CancelCommits, CancelRejected,
         CancelFails, CancelEnd, TypeOK
<1>3. CASE StarterStep
  <2>1. CASE StartWorkflow
    <3>1. UNCHANGED settled /\ pc = "none" /\ pc' = "load"
      BY <2>1 DEF StartWorkflow, Enter, Lanes
    <3>2. StepsLeft' < StepsLeft
      BY <3>1 DEF StepsLeft
    <3>. QED  BY <3>1, <3>2, LaterStep, StepInv
  <2>2. CASE StartFails \/ RecordIDs
    BY <2>2 DEF StartFails, RecordIDs
  <2>. QED  BY <1>3, <2>1, <2>2 DEF StarterStep
<1>4. ASSUME NEW p \in Procs, ReadRow(p)
      PROVE  \/ UNCHANGED <<parent, txn[Run]>>
             \/ UNCHANGED parent /\ txn[Run].saw = Unread /\ txn'[Run].saw # Unread
  <2>1. Status(txn[p].row) # Unread
    BY <1>4, StatusType DEF ReadRow, TypeOK, Unread, RunStatuses, RunAgentStatuses
  <2>. QED  BY <1>4, <2>1, ProcsDistinct DEF ReadRow, TypeOK, Txns, RunTxns, AgentTxns
<1>5. ASSUME NEW a \in Agents, LaneStep(a) PROVE UNCHANGED <<parent, txn[Run]>>
  BY <1>5, ProcsDistinct
     DEF LaneStep, LoadRunAgent, FrozenContext, Prepare, Execute, LaneAdvance, Work, FinishLane,
         LaneFails, MarkRunAgentFailed, LaneRejected, MarkRunAgentFailedFails, LaneCancelled,
         LaneEnter, LaneClose, TypeOK
<1>. QED  BY <1>1, <1>2, <1>3, <1>4, <1>5, RunStepMovesOn DEF Next

\* The number of moves that RunWorkflow has left is bounded.
LEMMA RunWorkType ==
  ASSUME TypeOK
  PROVE  /\ StepsLeft \in 0..14 /\ Unfinished(Run) \in 0..1
         /\ Agents \ settled \in SUBSET Agents /\ ToScore \in SUBSET Agents
         /\ Cardinality(Agents \ settled) \in 0..Cardinality(Agents)
         /\ Cardinality(ToScore) \in 0..Cardinality(Agents)
         /\ RunWork \in 0..(29 + 4 * Cardinality(Agents))
<1>1. StepsLeft \in 0..14 /\ Unfinished(Run) \in 0..1
  BY DEF StepsLeft, TypeOK, Steps, Unfinished
<1>2. Agents \ settled \in SUBSET Agents /\ ToScore \in SUBSET Agents
  BY DEF ToScore, TypeOK
<1>3. \A S \in SUBSET Agents : Cardinality(S) \in 0..Cardinality(Agents)
  BY AgentsFinite, FS_Subset
<1>4. Cardinality(Agents) \in Nat
  BY AgentsFinite
<1>5. /\ Cardinality(Agents \ settled) \in 0..Cardinality(Agents)
      /\ Cardinality(ToScore) \in 0..Cardinality(Agents)
  BY <1>2, <1>3
<1>. QED  BY <1>1, <1>2, <1>4, <1>5 DEF RunWork

\* Each move of RunWorkflow lowers the number.
LEMMA StepRunWork ==
  ASSUME OrchestrationInv, Waiting, [Next]_vars
  PROVE  [RunWork' < RunWork]_<<parent, txn[Run]>>
<1>1. TypeOK /\ TypeOK'
  BY StepInv DEF OrchestrationInv
<1>0. /\ Agents \ settled \in SUBSET Agents /\ (Agents \ settled)' \in SUBSET Agents
      /\ ToScore \in SUBSET Agents /\ ToScore' \in SUBSET Agents
  BY <1>1 DEF ToScore, TypeOK
<1>2. /\ StepsLeft \in Int /\ StepsLeft' \in Int
      /\ Unfinished(Run) \in 0..1 /\ Unfinished(Run)' \in 0..1
      /\ Cardinality(Agents \ settled) \in Int /\ Cardinality(Agents \ settled)' \in Int
      /\ Cardinality(ToScore) \in Int /\ Cardinality(ToScore)' \in Int
  BY <1>1, <1>0, AgentsFinite DEF StepsLeft, Unfinished, TypeOK, Steps
<1>3. CASE MovesOn
  <2>1. \A S, T \in SUBSET Agents : T \subseteq S =>
          /\ Cardinality(T) <= Cardinality(S)
          /\ T # S => Cardinality(T) < Cardinality(S)
    BY AgentsFinite, FS_Subset
  <2>2. /\ Agents \ settled \in SUBSET Agents /\ Agents \ settled' \in SUBSET Agents
        /\ ToScore \in SUBSET Agents /\ ToScore' \in SUBSET Agents
    BY <1>0
  <2>3. /\ Agents \ settled' \subseteq Agents \ settled
        /\ settled' # settled => Agents \ settled' # Agents \ settled
    BY <1>1, <1>3 DEF MovesOn, TypeOK
  <2>4. /\ Cardinality(Agents \ settled') <= Cardinality(Agents \ settled)
        /\ settled' # settled =>
             Cardinality(Agents \ settled') < Cardinality(Agents \ settled)
    BY <2>1, <2>2, <2>3
  <2>5. /\ Cardinality(ToScore') <= Cardinality(ToScore)
        /\ ToScore' # ToScore => Cardinality(ToScore') < Cardinality(ToScore)
    BY <1>3, <2>1, <2>2 DEF MovesOn
  <2>. QED  BY <1>2, <1>3, <2>4, <2>5 DEF MovesOn, RunWork
<1>4. CASE UNCHANGED parent /\ txn[Run].saw = Unread /\ txn'[Run].saw # Unread
  <2>1. Unfinished(Run) = 1 /\ Unfinished(Run)' = 0
    BY <1>4 DEF Unfinished
  <2>2. StepsLeft' = StepsLeft /\ settled' = settled /\ ToScore' = ToScore
    BY <1>4 DEF StepsLeft, ToScore, parent
  <2>. QED  BY <1>2, <2>1, <2>2 DEF RunWork
<1>. QED  BY <1>3, <1>4, RunMoves

\* RunWorkflow cannot go round in circles, whatever is cancelled, fails or is
\* lost: after at most 29 moves and four for each agent it has closed.
THEOREM RunWindsDown == Spec => RunWinds
<1>1. OrchestrationInv => RunWork \in 0..(29 + 4 * Cardinality(Agents))
  BY RunWorkType DEF OrchestrationInv
<1>2. OrchestrationInv /\ Waiting /\ [Next]_vars => [RunWork' < RunWork]_<<parent, txn[Run]>>
  BY StepRunWork
<1>. QED  BY <1>1, <1>2, WaitingInvariant, PTL DEF Spec, RunWinds
-----------------------------------------------------------------------------
(* Nobody hangs.                                                           *)

\* A transaction can always go on: it reads its row, or commits or is rejected.
LEMMA TxnsMove == \A t : t # NoTxn => TxnCanMove(t)
BY DEF TxnCanMove, Rejected, Commits

\* Whoever waits for a transaction has one.
LEMMA WaitingForTxn ==
  ASSUME Shape
  PROVE  /\ pc \in RunStatuses \union {"complete"} => txn[Run] # NoTxn
         /\ canceller = "write" => txn[Api].row = Run /\ txn[Api] # NoTxn
         /\ \A a \in Agents : lane[a] \in RunAgentStatuses => txn[a] # NoTxn
BY ProcsDistinct DEF Shape, NoTxn

\* Nobody is left hanging, with or without faults.
LEMMA MovesOrWaits == OrchestrationInv /\ Waiting => NeverStuck
<1>. SUFFICES ASSUME OrchestrationInv, Waiting PROVE NeverStuck
  OBVIOUS
<1>. USE DEF OrchestrationInv
<1>1. \A a \in Agents : lane[a] \notin {"idle", "closed"} => LaneCanMove(a)
  BY TxnsMove, WaitingForTxn DEF LaneCanMove, TypeOK, LaneSteps, RunAgentStatuses
<1>2. starter # "done" => StarterCanMove
  BY DEF StarterCanMove, TypeOK
<1>3. canceller # "idle" => CancellerCanMove
  BY TxnsMove, WaitingForTxn DEF CancellerCanMove, TypeOK
<1>4. ASSUME pc \notin {"none", "closed"}
      PROVE  RunCanMove \/ (pc = "fanout" /\ \E a \in InFlight : LaneCanMove(a))
  <2>1. CASE pc = "fanout"
    <3>1. PICK a \in InFlight : a \in Agents /\ lane[a] # "idle"
      BY <2>1 DEF Waiting, InFlight, TypeOK
    <3>. QED  BY <1>1, <2>1, <3>1 DEF RunCanMove
  <2>2. CASE pc # "fanout"
    BY <1>4, <2>2, TxnsMove, WaitingForTxn DEF RunCanMove, TypeOK, Steps, MainLine, RunStatuses
  <2>. QED  BY <2>1, <2>2
<1>. QED  BY <1>1, <1>2, <1>3, <1>4 DEF NeverStuck

\* No interleaving of the create request, the cancel requests, the reaper, the
\* workflows and their late transactions leaves one of them hanging.
THEOREM NobodyGetsStuck == Spec => []NeverStuck
BY MovesOrWaits, WaitingInvariant, PTL
-----------------------------------------------------------------------------
(* RunWorkflow implements BoundedLaunching.                                *)

\* Both modules count the same way.
LEMMA SameCount == \A S : Launching!Cardinality(S) = Cardinality(S)
BY DEF Launching!Cardinality, Cardinality, Launching!IsFiniteSet, IsFiniteSet

\* A run has agents to launch, and its row is inserted before any is.
LEMMA InitLaunching == Init => Launching!LaunchingInit
BY DEF Init, Launching!LaunchingInit, LaunchVerdict

\* RunWorkflow is open for launches up to the fan-out.
LEMMA OpenSteps ==
  ASSUME TypeOK
  PROVE  LaunchVerdict = IF settled = Agents THEN "done"
                         ELSE IF StepsLeft >= 9 THEN "open" ELSE "stopped"
BY DEF LaunchVerdict, StepsLeft, TypeOK, Steps

\* Each step of the system launches, stops, settles or leaves the agents alone.
LEMMA StepLaunching ==
  ASSUME OrchestrationInv, Waiting, [Next]_vars
  PROVE  [Launching!LaunchingNext]_Launching!launchingVars
<1>. USE DEF OrchestrationInv
<1>0. TypeOK /\ TypeOK' /\ launched \subseteq Agents /\ settled \subseteq launched
  BY StepInv DEF TypeOK
<1>i. \A Over \in SUBSET InFlight, New \in SUBSET (Agents \ launched) :
        Launching!Turn(Over, New) \/ Launching!Stop(Over) => Launching!LaunchingNext
  BY <1>0 DEF Launching!LaunchingNext, InFlight
<1>1. CASE UNCHANGED <<launched, settled>>
  <2>1. StepsLeft \in Int /\ StepsLeft' \in Int /\ StepsLeft' <= StepsLeft
    <3>1. StepsLeft \in Int /\ StepsLeft' \in Int
      BY <1>0 DEF StepsLeft, TypeOK, Steps
    <3>2. CASE UNCHANGED parent
      <4>1. StepsLeft' = StepsLeft
        BY <3>2 DEF StepsLeft, parent
      <4>. QED  BY <3>1, <4>1
    <3>3. CASE MovesOn
      BY <3>1, <3>3 DEF MovesOn
    <3>. QED  BY <3>2, <3>3, RunMoves DEF parent
  <2>2. LaunchVerdict' = IF settled' = Agents THEN "done"
                         ELSE IF StepsLeft' >= 9 THEN "open" ELSE "stopped"
    BY <1>0 DEF LaunchVerdict, StepsLeft, TypeOK, Steps
  <2>3. LaunchVerdict' = LaunchVerdict \/ (LaunchVerdict = "open" /\ LaunchVerdict' = "stopped")
    BY <1>0, <1>1, <2>1, <2>2, OpenSteps
  <2>4. CASE LaunchVerdict' = LaunchVerdict
    BY <1>1, <2>4 DEF Launching!launchingVars
  <2>5. CASE LaunchVerdict = "open" /\ LaunchVerdict' = "stopped"
    <3>1. Launching!Stop({})
      BY <1>1, <2>5 DEF Launching!Stop
    <3>. QED  BY <1>i, <3>1
  <2>. QED  BY <2>3, <2>4, <2>5
<1>2. CASE LaunchFirst
  <2>1. /\ settled = {} /\ settled' = {} /\ launched = {} /\ launched' \in SUBSET Agents
        /\ Cardinality(launched' \ settled') <= MaxInFlight
    BY <1>0, <1>2, FirstLaunch
       DEF InFlight, LaunchFirst, Advance, At, Lanes, Early
  <2>2. LaunchVerdict = "open" /\ LaunchVerdict' = "open"
    BY <1>2, <2>1 DEF LaunchVerdict, LaunchFirst, Advance, At, Enter
  <2>3. Launching!Turn({}, launched')
    BY <2>1, <2>2, SameCount DEF Launching!Turn
  <2>. QED  BY <1>i, <2>1, <2>3
<1>3. ASSUME NEW a \in Agents, SettleChild(a) PROVE Launching!LaunchingNext
  <2>1. PICK New \in SUBSET (Agents \ launched) :
          InFlight' = (InFlight \ {a}) \union New
    BY <1>3, NextLaunch
  <2>2. /\ a \in InFlight /\ settled' = settled \union {a}
        /\ Cardinality(InFlight') <= MaxInFlight
    BY <1>3, NextLaunch
  <2>3. LaunchVerdict = "open" /\ LaunchVerdict' = IF settled' = Agents THEN "done" ELSE "open"
    BY <1>0, <1>3 DEF LaunchVerdict, SettleChild, At, Enter
  <2>4. Launching!Turn({a}, New)
    BY <2>1, <2>2, <2>3, SameCount DEF Launching!Turn, InFlight
  <2>. QED  BY <1>i, <2>1, <2>2, <2>4
<1>. QED  BY <1>1, <1>2, <1>3, ParentMoves

\* The fan-out of RunWorkflow is bounded launching, although the run can be
\* cancelled and its rows be moved by others at any time.
THEOREM RunImplementsLaunching == Spec => ImplementsLaunching
<1>1. OrchestrationInv /\ Waiting /\ [Next]_vars =>
        [Launching!LaunchingNext]_Launching!launchingVars
  BY StepLaunching
<1>. QED  BY InitLaunching, <1>1, WaitingInvariant, PTL
          DEF Spec, ImplementsLaunching, Launching!LaunchingSpec
-----------------------------------------------------------------------------
(* A run whose workflow never starts is not forgotten.                     *)

\* Before its workflow starts, a run can only be reaped or cancelled, and cancel
\* requests are the only writers there are.
Unstarted ==
  pc = "none" =>
    /\ ~ids /\ starter # "record"
    /\ run \in {"queued", "failed", "cancelled"}
    /\ \A t \in late : t.row = Run /\ t.to = "cancelled"

\* A create request that has ended without starting the workflow leaves a run that
\* is over or that the reaper takes.
NoOrphan == pc = "none" /\ starter = "done" => run \in RunTerminal \/ Reapable

\* Nobody else writes before the workflow starts.
LEMMA StepUnstarted == ASSUME OrchestrationInv, Waiting, Unstarted, [Next]_vars PROVE Unstarted'
<1>. USE DEF OrchestrationInv
<1>1. CASE pc # "none"
  <2>1. pc' = pc \/ StepsLeft' <= StepsLeft
    BY RunMoves DEF MovesOn, parent
  <2>2. StepsLeft \in 0..13
    BY <1>1 DEF StepsLeft, TypeOK, Steps
  <2>3. pc' = "none" => StepsLeft' = 14
    BY DEF StepsLeft
  <2>4. pc' # "none"
    BY <1>1, <2>1, <2>2, <2>3
  <2>. QED  BY <2>4 DEF Unstarted
<1>. SUFFICES ASSUME pc = "none", pc' = "none" PROVE Unstarted'
  BY <1>1 DEF Unstarted
<1>2. /\ ~ids /\ starter # "record" /\ run \in {"queued", "failed", "cancelled"}
      /\ \A t \in late : t.row = Run /\ t.to = "cancelled"
  BY DEF Unstarted
<1>3. \A a \in Agents : lane[a] = "idle"
  BY DEF Lanes, Early
<1>4. CASE UNCHANGED <<run, ids, starter, late>>
  BY <1>2, <1>4 DEF Unstarted
<1>5. CASE Reap \/ StarterStep
  BY <1>2, <1>5 DEF Reap, StarterStep, StartWorkflow, StartFails, RecordIDs, Enter, requests, rows,
                    Unstarted
<1>6. ASSUME NEW t \in late, LateRead(t) \/ LateCommit(t) \/ LateEnd(t) PROVE Unstarted'
  <2>1. t \in Txns /\ t.row = Run /\ t.to = "cancelled"
    BY <1>2 DEF TypeOK
  <2>2. [t EXCEPT !.saw = Status(t.row)].row = Run /\ [t EXCEPT !.saw = Status(t.row)].to = "cancelled"
    BY <2>1 DEF Txns, RunTxns, AgentTxns
  <2>. QED  BY <1>2, <1>6, <2>1, <2>2 DEF LateRead, LateCommit, LateEnd, SetStatus, rows, requests,
                                          Unstarted
<1>7. CASE CancelStep
  <2>1. canceller = "write" => txn[Api].row = Run /\ txn[Api].to = "cancelled"
    BY DEF Shape
  <2>2. canceller # "write" => txn[Api] = NoTxn
    BY DEF Shape
  <2>3. CASE CancelWorkflow \/ CancelNotFound \/ CancelRejected
    BY <1>4, <2>3 DEF CancelWorkflow, CancelNotFound, CancelRejected, CancelEnd, rows
  <2>4. CASE CancelCommits
    BY <1>2, <2>1, <2>4 DEF CancelCommits, CancelEnd, SetStatus, Unstarted
  <2>5. CASE CancelFails
    BY <1>2, <2>1, <2>2, <2>5 DEF CancelFails, CancelEnd, Abandon, Unstarted
  <2>. QED  BY <1>7, <2>3, <2>4, <2>5 DEF CancelStep
<1>8. ~RunStep
  <2>1. /\ ~LoadRun /\ ~AttachRunTemporalIDs /\ ~Provision /\ ~LaunchFirst /\ ~BeginScoring
        /\ ~ScoreRunAgents /\ ~BuildRunScorecard /\ ~CompleteRun
        /\ \A a \in Agents : ~SettleChild(a)
    BY DEF LoadRun, AttachRunTemporalIDs, Provision, LaunchFirst, SettleChild, BeginScoring,
           Advance, ScoreRunAgents, BuildRunScorecard, CompleteRun, At
  <2>2. ~CompleteAgent /\ ~CompleteAgentFails /\ ~StepRejected /\ ~StepFails
    BY DEF CompleteAgent, CompleteAgentFails, StepRejected, StepFails, MainLine, At
  <2>3. /\ ~MarkRunFailed /\ ~MarkRunFailedFails /\ ~Cancel /\ ~MarkRunCancelled
        /\ ~MarkRunCancelledRejected /\ ~ReloadRun /\ ~MarkRunCancelledFails
    BY DEF MarkRunFailed, MarkRunFailedFails, Cancel, MarkRunCancelled,
           MarkRunCancelledRejected, ReloadRun, MarkRunCancelledFails, At
  <2>. QED  BY <2>1, <2>2, <2>3 DEF RunStep
<1>9. \A a \in Agents : ~LaneStep(a)
  BY <1>3 DEF LaneStep, LoadRunAgent, FrozenContext, Prepare, Execute, LaneAdvance, Work, FinishLane,
         LaneFails, MarkRunAgentFailed, LaneRejected, MarkRunAgentFailedFails, LaneCancelled, LaneAt,
         RunAgentStatuses
<1>10. CASE CancelRead \/ UNCHANGED vars \/ \E p \in Procs : ReadRow(p)
  BY <1>4, <1>10 DEF CancelRead, ReadRow, vars, rows, requests
<1>. QED  BY <1>5, <1>6, <1>7, <1>8, <1>9, <1>10 DEF Next, Database

\* Whatever happens to the create request, the cancel requests and their late
\* writes, a run without a workflow stays within reach of the reaper.
THEOREM NoRunIsOrphaned == Spec => []NoOrphan
<1>1. Init => Unstarted
  BY DEF Init, Unstarted
<1>2. OrchestrationInv /\ Waiting /\ Unstarted /\ [Next]_vars => Unstarted'
  BY StepUnstarted
<1>3. Unstarted => NoOrphan
  BY DEF Unstarted, NoOrphan, Reapable, RunTerminal
<1>. QED  BY <1>1, <1>2, <1>3, WaitingInvariant, PTL DEF Spec
=============================================================================
