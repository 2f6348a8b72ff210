---------------------------- MODULE EvalSetProofs ----------------------------
(***************************************************************************)
(* The safety of EvalSet for every number of sessions, cap, budget, bound  *)
(* on charges and on cancel requests, with faults and without.             *)
(*                                                                         *)
(* The loop of a set is the one of BoundedFanout: every step of the set is *)
(* a step of FanoutNext or leaves the loop alone, so FanoutInv holds here. *)
(* On top of it, SetInv says of every status write, pending or abandoned,  *)
(* what made it legitimate when it began (Backed): an edge of the table,   *)
(* and the loop and the aggregate as the target status claims them.  All   *)
(* of this is stable (StepStable), so it does not matter when the write    *)
(* commits.                                                                *)
(*                                                                         *)
(* At the end: the workflow of a set is never stuck and winds down.        *)
(***************************************************************************)
EXTENDS EvalSet, BoundedFanoutProofs

USE EvalSetAssumption DEF EvalSetAssumption

Whole ==
  /\ phase = "returned" /\ handled = Children
  /\ N > 0 => \E i \in Children : outcome[i] = "ok"

\* What a status claims about the loop and the aggregate.
Backs(status) ==
  /\ status \in {"aggregating", "completed", "budget_exceeded"} => phase = "returned"
  /\ status \in {"completed", "budget_exceeded"} => aggregated
  /\ status = "completed" => Whole

Backed(w) == EvalSetCanTransition(w.from, w.to) /\ Backs(w.to)

WritesBacked ==
  /\ \A p \in {"set", "api"} : write[p] # NoWrite => Backed(write[p])
  /\ \A w \in late : Backed(w)

\* What the position of EvalSetWorkflow says.
AfterLoop == {"recheck", "aggregating", "aggregate", "refresh", "finish"}

Position ==
  /\ step \in AfterLoop => phase = "returned" /\ (~budgetHit => Whole)
  /\ step = "recheck" => Whole
  /\ step \in {"refresh", "finish"} => aggregated
  /\ gateErr => gateCause # "none"
  /\ canceller = "request" => saw \in EvalSetStatuses \ EvalSetTerminal

SetInv == FanoutInv /\ EvalSetTypeOK /\ WritesBacked /\ Position /\ Backs(set)

\* The steps of the set that move its loop.
LEMMA StepLoop == [Next]_vars => [FanoutNext]_fanoutVars
<1>. SUFFICES ASSUME [Next]_vars PROVE [FanoutNext]_fanoutVars
  OBVIOUS
<1>. USE DEF unrelated, requests, loop, spending
<1>1. CASE UNCHANGED vars
  BY <1>1 DEF vars
<1>2. CASE ApiStep \/ CancelRead
  BY <1>2 DEF ApiStep, CancelRead, StartWorkflow, StartFails, CompensatePartialCreate,
              CancelWorkflow, CancelWrites, CancelFails, CancelEnd
<1>3. CASE SetStep
  <2>1. CASE LaunchSession \/ RefuseSession \/ LoopReturns \/ \E i \in Children : SettleSession(i)
    BY <2>1 DEF LaunchSession, RefuseSession, LoopReturns, SettleSession, FanoutNext
  <2>2. CASE ChargeReads \/ ChargeWrites \/ ChargeFails \/ RefreshReads \/ RefreshWrites
             \/ RefreshFails
    BY <2>2 DEF ChargeReads, ChargeWrites, ChargeFails, RefreshReads, RefreshWrites,
                RefreshFails, RefreshRead, RefreshWrite
  <2>3. CASE Expand \/ LoadEvalSet \/ Open \/ StepRejected \/ StepFails \/ CheckGate
    BY <2>3 DEF Expand, LoadEvalSet, Open, StepRejected, StepFails, CheckGate
  <2>4. CASE AfterSessions \/ Recheck \/ BeginAggregating \/ AggregateEvalSet \/ FinishSet
             \/ FailSet \/ Cancel \/ CancelLoad \/ MarkEvalSetCancelled
             \/ MarkEvalSetCancelledFails
    BY <2>4 DEF AfterSessions, Recheck, BeginAggregating, AggregateEvalSet, FinishSet,
                FailSet, Cancel, CancelLoad, MarkEvalSetCancelled, MarkEvalSetCancelledFails
  <2>. QED  BY <1>3, <2>1, <2>2, <2>3, <2>4 DEF SetStep
<1>4. ASSUME NEW i \in Children, SessionStep(i) PROVE [FanoutNext]_fanoutVars
  BY <1>4 DEF SessionStep, SessionReads, SessionWrites, SessionCloses, RefreshRead,
              RefreshWrite, FanoutNext, Outcomes
<1>5. ASSUME NEW w \in late, LateWrite(w) PROVE [FanoutNext]_fanoutVars
  BY <1>5 DEF LateWrite
<1>. QED  BY <1>1, <1>2, <1>3, <1>4, <1>5 DEF Next

\* The loop of a set is the bounded loop, with all that is proved about it.
THEOREM SetRunsBoundedLoop == Spec => FanoutSpec
<1>1. Init => FanoutInit
  BY DEF Init
<1>. QED  BY <1>1, StepLoop, PTL DEF Spec, FanoutSpec

\* What the loop and the aggregate have reached stays reached.
LEMMA StepStable ==
  ASSUME FanoutInv, EvalSetTypeOK, [Next]_vars
  PROVE  /\ phase = "returned" => phase' = "returned" /\ handled' = handled
                                   /\ outcome' = outcome
         /\ aggregated => aggregated'
<1>1. phase = "returned" => phase' = "returned" /\ handled' = handled /\ outcome' = outcome
  BY StepLoop DEF FanoutInv, NoneLost, FanoutNext, fanoutVars, Launch, Refuse, Return,
                  Complete, Drain, Resolve, Ready
<1>2. aggregated => aggregated'
  <2>. USE DEF loop, spending, requests, unrelated
  <2>1. CASE UNCHANGED vars \/ ApiStep \/ CancelRead
    BY <2>1 DEF vars, setVars, ApiStep, CancelRead, StartWorkflow, StartFails,
                CompensatePartialCreate, CancelWorkflow, CancelWrites, CancelFails, CancelEnd
  <2>2. CASE SetStep
    <3>1. CASE LaunchSession \/ RefuseSession \/ LoopReturns \/ \E i \in Children : SettleSession(i)
      BY <3>1 DEF LaunchSession, RefuseSession, LoopReturns, SettleSession, setVars
    <3>2. CASE ChargeReads \/ ChargeWrites \/ ChargeFails \/ RefreshReads \/ RefreshWrites
               \/ RefreshFails
      BY <3>2 DEF ChargeReads, ChargeWrites, ChargeFails, RefreshReads, RefreshWrites,
                  RefreshFails, RefreshRead, RefreshWrite
    <3>3. CASE Expand \/ LoadEvalSet \/ Open \/ StepRejected \/ StepFails \/ CheckGate
      BY <3>3 DEF Expand, LoadEvalSet, Open, StepRejected, StepFails, CheckGate
    <3>4. CASE AfterSessions \/ Recheck \/ BeginAggregating \/ AggregateEvalSet \/ FinishSet
               \/ FailSet \/ Cancel \/ CancelLoad \/ MarkEvalSetCancelled
               \/ MarkEvalSetCancelledFails
      BY <3>4 DEF AfterSessions, Recheck, BeginAggregating, AggregateEvalSet, FinishSet,
                  FailSet, Cancel, CancelLoad, MarkEvalSetCancelled, MarkEvalSetCancelledFails
    <3>. QED  BY <2>2, <3>1, <3>2, <3>3, <3>4 DEF SetStep
  <2>3. ASSUME NEW i \in Children, SessionStep(i) PROVE aggregated => aggregated'
    BY <2>3 DEF SessionStep, SessionReads, SessionWrites, SessionCloses, RefreshRead,
                RefreshWrite, setVars
  <2>4. ASSUME NEW w \in late, LateWrite(w) PROVE aggregated => aggregated'
    BY <2>4 DEF LateWrite
  <2>. QED  BY <2>1, <2>2, <2>3, <2>4 DEF Next
<1>. QED  BY <1>1, <1>2

\* A commit takes the row along an edge of the table, to a status that the loop
\* and the aggregate back.
LEMMA StepRow ==
  ASSUME SetInv, [Next]_vars
  PROVE  set' # set => EvalSetCanTransition(set, set') /\ Backs(set')
<1>. DEFINE Moves == set' # set => EvalSetCanTransition(set, set') /\ Backs(set')
<1>a. ASSUME NEW w, Backed(w), Commits(w) PROVE Moves
  BY <1>a DEF Backed, Commits
<1>b. ASSUME NEW p \in {"set", "api"}, Commits(write[p]) PROVE Moves
  BY <1>a, <1>b DEF SetInv, WritesBacked, Commits
<1>c. ASSUME NEW w \in late, Commits(w) PROVE Moves
  BY <1>a, <1>c DEF SetInv, WritesBacked
<1>d. ASSUME set = "queued", set' = "failed" PROVE Moves
  BY <1>d DEF EvalSetCanTransition, EvalSetEdges, Backs
<1>e. ASSUME UNCHANGED set PROVE Moves
  BY <1>e
<1>. HIDE DEF Moves
<1>. SUFFICES Moves
  BY DEF Moves
<1>. USE <1>b, <1>c, <1>d, <1>e
<1>. USE DEF Settles, loop, spending, requests, unrelated
<1>1. CASE UNCHANGED vars \/ CancelRead
  BY <1>1 DEF vars, setVars, CancelRead
<1>2. CASE ApiStep
  BY <1>2 DEF ApiStep, StartWorkflow, StartFails, CompensatePartialCreate,
              CancelWorkflow, CancelWrites, CancelFails, CancelEnd
<1>3. CASE SetStep
  <2>1. CASE LaunchSession \/ RefuseSession \/ LoopReturns \/ \E i \in Children : SettleSession(i)
    BY <2>1 DEF LaunchSession, RefuseSession, LoopReturns, SettleSession, setVars
  <2>2. CASE ChargeReads \/ ChargeWrites \/ ChargeFails \/ RefreshReads \/ RefreshWrites
               \/ RefreshFails
    BY <2>2 DEF ChargeReads, ChargeWrites, ChargeFails, RefreshReads, RefreshWrites,
                  RefreshFails, RefreshRead, RefreshWrite, Finish
  <2>3. CASE Expand \/ LoadEvalSet \/ Open \/ StepRejected \/ StepFails \/ CheckGate
    BY <2>3 DEF Expand, LoadEvalSet, Open, StepRejected, StepFails, CheckGate
  <2>4. CASE AfterSessions \/ Recheck \/ BeginAggregating \/ AggregateEvalSet
    BY <2>4 DEF AfterSessions, Recheck, BeginAggregating, AggregateEvalSet
  <2>5. CASE FinishSet \/ FailSet \/ Cancel \/ CancelLoad \/ MarkEvalSetCancelled
               \/ MarkEvalSetCancelledFails
    BY <2>5 DEF FinishSet, FailSet, Cancel, CancelLoad, MarkEvalSetCancelled,
                MarkEvalSetCancelledFails
  <2>. QED  BY <1>3, <2>1, <2>2, <2>3, <2>4, <2>5 DEF SetStep
<1>4. ASSUME NEW i \in Children, SessionStep(i) PROVE Moves
  BY <1>4 DEF SessionStep, SessionReads, SessionWrites, SessionCloses, RefreshRead,
              RefreshWrite, setVars
<1>5. ASSUME NEW w \in late, LateWrite(w) PROVE Moves
  BY <1>5 DEF LateWrite
<1>. QED  BY <1>1, <1>2, <1>3, <1>4, <1>5 DEF Next

\* A write begins where the table and the loop back it; one that is abandoned
\* was pending.
LEMMA StepWrites ==
  ASSUME SetInv, [Next]_vars
  PROVE  /\ \A p \in {"set", "api"} :
              write'[p] \in {NoWrite, write[p]} \/ Backed(write'[p])
         /\ late' \subseteq late \union ({write["set"], write["api"]} \ {NoWrite})
<1>. DEFINE Legit == /\ \A p \in {"set", "api"} :
                          write'[p] \in {NoWrite, write[p]} \/ Backed(write'[p])
                     /\ late' \subseteq late \union ({write["set"], write["api"]} \ {NoWrite})
<1>a. ASSUME UNCHANGED write, late' \subseteq late PROVE Legit
  BY <1>a
<1>b. ASSUME NEW p \in {"set", "api"}, NEW w, w = NoWrite \/ Backed(w),
             write' = [write EXCEPT ![p] = w], UNCHANGED late \/ Abandon(p)
      PROVE  Legit
  BY <1>b DEF SetInv, EvalSetTypeOK, Abandon
<1>c. ASSUME Begin(step', NoWrite), UNCHANGED late \/ Abandon("set") PROVE Legit
  BY <1>b, <1>c DEF Begin
<1>d. ASSUME NEW w, Begin(step', w), Backed(w), UNCHANGED late PROVE Legit
  BY <1>b, <1>d DEF Begin
<1>e. /\ Backed(From("queued", "expanding")) /\ Backed(From("expanding", "running"))
      /\ Backed(From("running", "failed")) /\ Backed(From("aggregating", "failed"))
      /\ \A s \in EvalSetStatuses \ EvalSetTerminal : Backed(From(s, "cancelled"))
      /\ phase = "returned" => Backed(From("running", "aggregating"))
  BY DEF Backed, Backs, From, EvalSetCanTransition, EvalSetEdges, EvalSetStatuses,
         EvalSetTerminal
<1>f. ASSUME At("refresh"), Finish, UNCHANGED late PROVE Legit
  <2>1. Backed(From("aggregating", IF budgetHit THEN "budget_exceeded" ELSE "completed"))
    BY <1>f DEF At, SetInv, EvalSetTypeOK, Position, AfterLoop, Backed, Backs, From,
                EvalSetCanTransition, EvalSetEdges
  <2>. QED  BY <1>d, <1>f, <2>1 DEF Finish, Begin
<1>. HIDE DEF Legit
<1>. SUFFICES Legit
  BY DEF Legit
<1>1. CASE UNCHANGED vars \/ CancelRead
  BY <1>1, <1>a DEF vars, setVars, CancelRead
<1>2. CASE ApiStep
  <2>1. CASE StartWorkflow \/ StartFails \/ CompensatePartialCreate
    BY <2>1, <1>a, <1>d, <1>e DEF StartWorkflow, StartFails, CompensatePartialCreate, Begin
  <2>2. CASE CancelWorkflow
    <3>1. Backed(From(saw, "cancelled"))
      BY <2>2, <1>e DEF CancelWorkflow, SetInv, Position
    <3>. QED  BY <2>2, <3>1, <1>b DEF CancelWorkflow
  <2>3. CASE CancelWrites \/ CancelFails
    BY <2>3, <1>b DEF CancelWrites, CancelFails, CancelEnd
  <2>. QED  BY <1>2, <2>1, <2>2, <2>3 DEF ApiStep
<1>3. CASE SetStep
  <2>. USE DEF loop, spending, requests, unrelated, Go
  <2>1. CASE LaunchSession \/ RefuseSession \/ LoopReturns \/ \E i \in Children : SettleSession(i)
    BY <2>1, <1>a DEF LaunchSession, RefuseSession, LoopReturns, SettleSession, setVars
  <2>2. CASE ChargeReads \/ ChargeWrites \/ ChargeFails \/ RefreshReads
    BY <2>2, <1>a DEF ChargeReads, ChargeWrites, ChargeFails, RefreshReads, RefreshRead,
                      RefreshWrite
  <2>3. CASE RefreshWrites \/ RefreshFails
    BY <2>3, <1>f DEF RefreshWrites, RefreshFails
  <2>4. CASE Expand \/ LoadEvalSet \/ Open \/ StepRejected \/ StepFails \/ CheckGate
    BY <2>4, <1>a, <1>c, <1>d, <1>e
       DEF Expand, LoadEvalSet, Open, StepRejected, StepFails, CheckGate, Begin
  <2>5. CASE AfterSessions \/ Recheck
    <3>1. phase = "returned"
      BY <2>5 DEF AfterSessions, Recheck, At, SetInv, Position, AfterLoop
    <3>. QED  BY <2>5, <3>1, <1>c, <1>d, <1>e DEF AfterSessions, Recheck, Begin
  <2>6. CASE BeginAggregating \/ AggregateEvalSet
    BY <2>6, <1>c, <1>d, <1>e DEF BeginAggregating, AggregateEvalSet, Begin
  <2>7. CASE CancelLoad
    <3>1. set \notin EvalSetTerminal => Backed(From(set, "cancelled"))
      BY <1>e DEF SetInv, EvalSetTypeOK
    <3>. QED  BY <2>7, <3>1, <1>c, <1>d DEF CancelLoad, Begin
  <2>8. CASE FinishSet \/ FailSet \/ Cancel \/ MarkEvalSetCancelled
             \/ MarkEvalSetCancelledFails
    BY <2>8, <1>c DEF FinishSet, FailSet, Cancel, MarkEvalSetCancelled,
                      MarkEvalSetCancelledFails, Begin
  <2>. QED  BY <1>3, <2>1, <2>2, <2>3, <2>4, <2>5, <2>6, <2>7, <2>8 DEF SetStep
<1>4. ASSUME NEW i \in Children, SessionStep(i) PROVE Legit
  BY <1>4, <1>a DEF SessionStep, SessionReads, SessionWrites, SessionCloses, RefreshRead,
                    RefreshWrite, setVars, loop, requests
<1>5. ASSUME NEW w \in late, LateWrite(w) PROVE Legit
  BY <1>5, <1>a DEF LateWrite
<1>. QED  BY <1>1, <1>2, <1>3, <1>4, <1>5 DEF Next

\* A loop that has returned for no reason to stop has the whole matrix.
LEMMA SessionsWhole ==
  ASSUME SetInv, phase = "returned", Err = "none", ~AllFailed
  PROVE  Whole
<1>1. handled = Children /\ ~completeErr
  BY FanoutAssumption DEF FanoutAssumption, SetInv, FanoutInv, FanoutTypeOK, NoneLost,
                          Errors, Children, Err
<1>2. \A i \in Children : outcome[i] \in {"ok", "failed"}
  BY <1>1 DEF SetInv, FanoutInv, FanoutTypeOK, Errors, Outcomes
<1>. QED  BY <1>1, <1>2 DEF Whole, AllFailed

\* Each step leaves the workflow where the loop and the aggregate say it may be.
LEMMA StepPosition == SetInv /\ [Next]_vars => Position'
<1>. SUFFICES ASSUME SetInv, [Next]_vars PROVE Position'
  OBVIOUS
<1>s. /\ phase = "returned" => phase' = "returned"
      /\ Whole => Whole'
      /\ aggregated => aggregated'
  BY StepStable DEF SetInv, Whole
<1>. DEFINE Where == /\ step \in AfterLoop => phase = "returned" /\ (~budgetHit => Whole)
                     /\ step = "recheck" => Whole
                     /\ step \in {"refresh", "finish"} => aggregated
            Refused == gateErr => gateCause # "none"
            Seen == canceller = "request" => saw \in EvalSetStatuses \ EvalSetTerminal
<1>. Where /\ Refused /\ Seen
  BY DEF SetInv, Position
<1>a. ASSUME UNCHANGED <<step, budgetHit>> PROVE Where'
  BY <1>a, <1>s
<1>b. ASSUME step' \notin AfterLoop PROVE Where'
  BY <1>b DEF AfterLoop
<1>c. ASSUME step \in {"refresh", "finish"}, step' = "finish", UNCHANGED budgetHit PROVE Where'
  BY <1>c, <1>s DEF AfterLoop
<1>d. ASSUME UNCHANGED <<gateErr, gateCause>> PROVE Refused'
  BY <1>d
<1>e. ASSUME UNCHANGED <<canceller, saw>> PROVE Seen'
  BY <1>e
<1>. SUFFICES Where' /\ Refused' /\ Seen'
  BY DEF Position
<1>. HIDE DEF Where, Refused, Seen
<1>. USE <1>a, <1>b, <1>c, <1>d, <1>e
<1>. USE DEF Begin, Go, loop, spending, requests, unrelated, fanoutVars
<1>1. CASE UNCHANGED vars
  BY <1>1 DEF vars, setVars
<1>2. CASE ApiStep \/ CancelRead
  <2>1. CASE StartWorkflow \/ StartFails \/ CompensatePartialCreate
    BY <2>1 DEF StartWorkflow, StartFails, CompensatePartialCreate, AfterLoop
  <2>2. CASE CancelRead
    <3>1. Seen'
      BY <2>2 DEF CancelRead, Seen, SetInv, EvalSetTypeOK
    <3>. QED  BY <2>2, <3>1 DEF CancelRead
  <2>3. CASE CancelWorkflow \/ CancelWrites \/ CancelFails
    <3>1. Seen'
      BY <2>3 DEF CancelWorkflow, CancelWrites, CancelFails, CancelEnd, Seen
    <3>. QED  BY <2>3, <3>1 DEF CancelWorkflow, CancelWrites, CancelFails, CancelEnd
  <2>. QED  BY <1>2, <2>1, <2>2, <2>3 DEF ApiStep
<1>3. CASE SetStep
  <2>1. CASE RefuseSession
    <3>1. Refused'
      BY <2>1 DEF RefuseSession, Refused
    <3>. QED  BY <2>1, <3>1 DEF RefuseSession
  <2>2. CASE LaunchSession \/ LoopReturns \/ \E i \in Children : SettleSession(i)
    BY <2>2 DEF LaunchSession, LoopReturns, SettleSession, Launch, Return, Complete, Drain, setVars
  <2>3. CASE ChargeReads \/ ChargeWrites \/ ChargeFails \/ RefreshReads \/ CheckGate
    BY <2>3 DEF ChargeReads, ChargeWrites, ChargeFails, RefreshReads, RefreshRead,
                RefreshWrite, CheckGate
  <2>4. CASE RefreshWrites \/ RefreshFails
    BY <2>4 DEF RefreshWrites, RefreshFails, Finish, At
  <2>5. CASE Expand \/ LoadEvalSet \/ Open \/ StepRejected \/ StepFails
    BY <2>5 DEF Expand, LoadEvalSet, Open, StepRejected, StepFails, AfterLoop
  <2>6. CASE AfterSessions
    <3>1. Where'
      <4>1. phase' = "returned"
        BY <2>6, <1>s DEF AfterSessions
      <4>2. ASSUME step' \in {"recheck", "aggregating"}, ~Stopped PROVE Whole
        <5>1. CASE N = 0
          BY <2>6, <5>1 DEF AfterSessions, Whole, Children, SetInv, FanoutInv, FanoutTypeOK
        <5>2. CASE N # 0
          <6>1. Err = "none" /\ ~AllFailed
            BY <2>6, <4>2, <5>2 DEF AfterSessions, SetInv, EvalSetTypeOK, Err, Stopped, Refused
          <6>. QED  BY <2>6, <6>1, SessionsWhole DEF AfterSessions
        <5>. QED  BY <5>1, <5>2
      <4>3. step' = "recheck" => ~Stopped
        BY <2>6 DEF AfterSessions
      <4>4. step' \in AfterLoop => step' \in {"recheck", "aggregating"}
        BY <2>6 DEF AfterSessions, AfterLoop
      <4>5. budgetHit' = Stopped
        BY <2>6 DEF AfterSessions
      <4>. QED  BY <1>s, <4>1, <4>2, <4>3, <4>4, <4>5 DEF Where
    <3>. QED  BY <2>6, <3>1 DEF AfterSessions
  <2>7. CASE Recheck
    <3>1. Where'
      BY <2>7, <1>s DEF Recheck, At, Where, AfterLoop
    <3>. QED  BY <2>7, <3>1 DEF Recheck
  <2>8. CASE BeginAggregating \/ AggregateEvalSet
    <3>1. Where'
      BY <2>8, <1>s DEF BeginAggregating, AggregateEvalSet, At, Where, AfterLoop
    <3>. QED  BY <2>8, <3>1 DEF BeginAggregating, AggregateEvalSet
  <2>9. CASE FinishSet \/ FailSet \/ Cancel \/ CancelLoad \/ MarkEvalSetCancelled
             \/ MarkEvalSetCancelledFails
    BY <2>9 DEF FinishSet, FailSet, Cancel, CancelLoad, MarkEvalSetCancelled,
                MarkEvalSetCancelledFails, AfterLoop
  <2>. QED  BY <1>3, <2>1, <2>2, <2>3, <2>4, <2>5, <2>6, <2>7, <2>8, <2>9 DEF SetStep
<1>4. ASSUME NEW i \in Children, SessionStep(i) PROVE Where' /\ Refused' /\ Seen'
  BY <1>4 DEF SessionStep, SessionReads, SessionWrites, SessionCloses, RefreshRead,
              RefreshWrite, Resolve, setVars
<1>5. ASSUME NEW w \in late, LateWrite(w) PROVE Where' /\ Refused' /\ Seen'
  BY <1>5 DEF LateWrite
<1>. QED  BY <1>1, <1>2, <1>3, <1>4, <1>5 DEF Next

\* Types, given those of the loop after the step.
LEMMA StepTypes == SetInv /\ FanoutTypeOK' /\ [Next]_vars => EvalSetTypeOK'
<1>. SUFFICES ASSUME SetInv, FanoutTypeOK', [Next]_vars PROVE EvalSetTypeOK'
  OBVIOUS
<1>a. set' \in EvalSetStatuses
  BY StepRow DEF SetInv, EvalSetTypeOK, EvalSetCanTransition, EvalSetEdges, EvalSetStatuses
<1>b. late' \subseteq Writes
  BY StepWrites DEF SetInv, EvalSetTypeOK
<1>c. /\ From("queued", "expanding") \in Writes /\ From("expanding", "running") \in Writes
      /\ From("running", "failed") \in Writes /\ From("aggregating", "failed") \in Writes
      /\ From("running", "aggregating") \in Writes
      /\ From("aggregating", "completed") \in Writes
      /\ From("aggregating", "budget_exceeded") \in Writes
      /\ \A s \in EvalSetStatuses : From(s, "cancelled") \in Writes
  BY DEF From, Writes, EvalSetStatuses
<1>d. ASSUME NEW p \in Children \union {Self}, reading' = [reading EXCEPT ![p] = NoRead]
      PROVE  reading' \in [Children \union {Self} -> Nat \union {NoRead}]
  BY <1>d DEF SetInv, EvalSetTypeOK
<1>e. ASSUME NEW p \in Children \union {Self}, reading[p] # NoRead
      PROVE  reading[p] \in Nat /\ reading[p] + 1 \in Nat
  BY <1>e DEF SetInv, EvalSetTypeOK
<1>. SUFFICES ASSUME EvalSetTypeOK PROVE EvalSetTypeOK'
  BY DEF SetInv
<1>. USE <1>a, <1>b
<1>. USE DEF EvalSetTypeOK, Begin, Go, loop, spending, requests, unrelated, SetSteps
<1>1. CASE UNCHANGED vars \/ CancelRead
  BY <1>1 DEF vars, setVars, CancelRead
<1>2. CASE ApiStep
  <2>1. CASE StartWorkflow \/ StartFails \/ CompensatePartialCreate
    BY <2>1, <1>c DEF StartWorkflow, StartFails, CompensatePartialCreate, Written
  <2>2. CASE CancelWorkflow
    <3>1. From(saw, "cancelled") \in Writes
      BY <2>2, <1>c DEF CancelWorkflow, SetInv, Position
    <3>. QED  BY <2>2, <3>1 DEF CancelWorkflow
  <2>3. CASE CancelWrites \/ CancelFails
    BY <2>3 DEF CancelWrites, CancelFails, CancelEnd
  <2>. QED  BY <1>2, <2>1, <2>2, <2>3 DEF ApiStep
<1>3. CASE SetStep
  <2>1. CASE LaunchSession \/ RefuseSession \/ LoopReturns \/ CheckGate
    BY <2>1 DEF LaunchSession, RefuseSession, LoopReturns, CheckGate, setVars
  <2>8. ASSUME NEW i \in Children, SettleSession(i) PROVE EvalSetTypeOK'
    <3>1. owes' \in BOOLEAN
      BY <2>8 DEF SettleSession
    <3>. QED  BY <2>8, <3>1 DEF SettleSession
  <2>2. CASE ChargeReads \/ ChargeWrites \/ ChargeFails \/ RefreshReads
    <3>1. CASE ChargeReads \/ RefreshReads
      BY <3>1 DEF ChargeReads, RefreshReads, RefreshRead
    <3>2. CASE ChargeWrites
      <4>1. spent' \in Nat /\ reading' \in [Children \union {Self} -> Nat \union {NoRead}]
        BY <3>2, <1>d, <1>e DEF ChargeWrites, RefreshWrite
      <4>2. owes' \in BOOLEAN
        BY <3>2 DEF ChargeWrites
      <4>. QED  BY <3>2, <4>1, <4>2 DEF ChargeWrites, RefreshWrite
    <3>3. CASE ChargeFails
      <4>1. reading' \in [Children \union {Self} -> Nat \union {NoRead}]
        BY <3>3, <1>d DEF ChargeFails
      <4>2. owes' \in BOOLEAN
        BY <3>3 DEF ChargeFails
      <4>. QED  BY <3>3, <4>1, <4>2 DEF ChargeFails
    <3>. QED  BY <2>2, <3>1, <3>2, <3>3
  <2>3. CASE RefreshWrites
    <3>1. spent' \in Nat /\ reading' \in [Children \union {Self} -> Nat \union {NoRead}]
      BY <2>3, <1>d, <1>e DEF RefreshWrites
    <3>. QED  BY <2>3, <3>1, <1>c DEF RefreshWrites, Finish, Written
  <2>9. CASE RefreshFails
    BY <2>9, <1>c DEF RefreshFails, Finish, Written
  <2>4. CASE Expand \/ LoadEvalSet \/ Open \/ StepRejected \/ StepFails
    BY <2>4, <1>c DEF Expand, LoadEvalSet, Open, StepRejected, StepFails, Written
  <2>5. CASE AfterSessions \/ Recheck \/ BeginAggregating \/ AggregateEvalSet
    <3>1. budgetHit' \in BOOLEAN
      <4>1. CASE AfterSessions
        BY <4>1, Zenon DEF AfterSessions, Stopped
      <4>2. CASE Recheck
        <5>1. budgetHit' = (spent >= Budget) \/ budgetHit' = FALSE
          BY <4>2, Zenon DEF Recheck
        <5>2. (spent >= Budget) \in BOOLEAN
          OBVIOUS
        <5>. QED  BY <5>1, <5>2, Zenon
      <4>3. CASE BeginAggregating \/ AggregateEvalSet
        BY <4>3 DEF BeginAggregating, AggregateEvalSet
      <4>. QED  BY <2>5, <4>1, <4>2, <4>3
    <3>2. aggregated' \in BOOLEAN
      BY <2>5 DEF AfterSessions, Recheck, BeginAggregating, AggregateEvalSet
    <3>3. step' \in SetSteps /\ write' \in [{"set", "api"} -> Writes \union {NoWrite}]
      BY <2>5, <1>c DEF AfterSessions, Recheck, BeginAggregating, AggregateEvalSet, Written
    <3>. QED  BY <2>5, <3>1, <3>2, <3>3
              DEF AfterSessions, Recheck, BeginAggregating, AggregateEvalSet
  <2>6. CASE CancelLoad
    BY <2>6, <1>c DEF CancelLoad
  <2>7. CASE FinishSet \/ FailSet \/ Cancel \/ MarkEvalSetCancelled
             \/ MarkEvalSetCancelledFails
    BY <2>7 DEF FinishSet, FailSet, Cancel, MarkEvalSetCancelled, MarkEvalSetCancelledFails
  <2>. QED  BY <1>3, <2>1, <2>2, <2>3, <2>4, <2>5, <2>6, <2>7, <2>8, <2>9 DEF SetStep
<1>4. ASSUME NEW i \in Children, SessionStep(i) PROVE EvalSetTypeOK'
  <2>1. CASE SessionReads(i)
    BY <2>1 DEF SessionReads, RefreshRead
  <2>2. CASE SessionWrites(i)
    <3>1. spent' \in Nat /\ reading' \in [Children \union {Self} -> Nat \union {NoRead}]
      BY <2>2, <1>d, <1>e DEF SessionWrites, RefreshWrite
    <3>. QED  BY <2>2, <3>1 DEF SessionWrites, RefreshWrite
  <2>3. CASE SessionCloses(i)
    BY <2>3 DEF SessionCloses, setVars
  <2>. QED  BY <1>4, <2>1, <2>2, <2>3 DEF SessionStep
<1>5. ASSUME NEW w \in late, LateWrite(w) PROVE EvalSetTypeOK'
  BY <1>5 DEF LateWrite
<1>. QED  BY <1>1, <1>2, <1>3, <1>4, <1>5 DEF Next

\* A set that has just been created has written and launched nothing.
LEMMA SetInvInit == Init => SetInv
<1>. SUFFICES ASSUME Init PROVE SetInv
  OBVIOUS
<1>1. FanoutInv /\ FanoutTypeOK
  BY FanoutInitInv DEF Init, FanoutInv
<1>2. EvalSetTypeOK
  <2>1. /\ cancelRequested \in BOOLEAN /\ owes \in BOOLEAN
        /\ budgetHit \in BOOLEAN /\ aggregated \in BOOLEAN
    BY DEF Init
  <2>2. /\ write \in [{"set", "api"} -> Writes \union {NoWrite}]
        /\ reading \in [Children \union {Self} -> Nat \union {NoRead}]
        /\ charges \in [Children -> 0..MaxCharges]
    BY DEF Init
  <2>3. spent \in Nat /\ cancels \in 0..MaxCancels
    BY DEF Init
  <2>. QED  BY <1>1, <2>1, <2>2, <2>3 DEF Init, EvalSetTypeOK, EvalSetStatuses, SetSteps
<1>3. WritesBacked
  BY DEF Init, WritesBacked
<1>4. Position /\ Backs(set)
  BY DEF Init, FanoutInit, Position, AfterLoop, Backs
<1>. QED  BY <1>1, <1>2, <1>3, <1>4 DEF SetInv

\* Every step of the set, its requests, its sessions and its late writes keeps
\* the invariant.
LEMMA SetInvStep == SetInv /\ [Next]_vars => SetInv'
<1>. SUFFICES ASSUME SetInv, [Next]_vars PROVE SetInv'
  OBVIOUS
<1>1. FanoutInv' /\ FanoutTypeOK'
  BY StepLoop, FanoutStepInv DEF SetInv, FanoutInv
<1>2. EvalSetTypeOK'
  BY <1>1, StepTypes
<1>3. WritesBacked'
  BY StepStable, StepWrites DEF SetInv, WritesBacked, Backed, Backs, Whole
<1>4. Backs(set)'
  BY StepStable, StepRow DEF SetInv, Backs, Whole
<1>. QED  BY <1>1, <1>2, <1>3, <1>4, StepPosition DEF SetInv

\* The invariant holds of every set, with faults and without.
THEOREM SetInvariant == Spec => []SetInv
BY SetInvInit, SetInvStep, PTL DEF Spec

\* The type invariant of the set, its requests and its sessions.
THEOREM SetTypes == Spec => []EvalSetTypeOK
<1>1. SetInv => EvalSetTypeOK
  BY DEF SetInv
<1>. QED  BY <1>1, SetInvariant, PTL

\* The status only moves along the table, whoever writes it and however late.
THEOREM SetFollowsTable == Spec => SetMovesAlongTable
<1>1. SetInv /\ [Next]_vars => [set' # set => EvalSetCanTransition(set, set')]_vars
  BY StepRow
<1>. QED  BY <1>1, SetInvariant, PTL DEF Spec, SetMovesAlongTable

\* A completed set is the whole matrix, with its result stored.
THEOREM CompletedSetsAreWhole == Spec => []CompletedSetIsWhole
<1>1. SetInv => CompletedSetIsWhole
  BY DEF SetInv, Backs, Whole, CompletedSetIsWhole
<1>. QED  BY <1>1, SetInvariant, PTL

\* A set whose status says that its sessions are over has none in flight.
THEOREM SettledSetsHaveNoSession == Spec => []SettledSetHasNoSession
<1>1. SetInv => SettledSetHasNoSession
  BY DEF SetInv, Backs, SettledSetHasNoSession
<1>. QED  BY <1>1, SetInvariant, PTL
-----------------------------------------------------------------------------
(* Why a set cannot hang or go round in circles.                           *)

\* The steps of EvalSetWorkflow, counted from the end.
StepsLeft ==
  CASE step = "none"      -> 13 [] step = "expanding"   -> 12 [] step = "load"        -> 11
    [] step = "running"   -> 10 [] step = "sessions"    -> 9  [] step = "recheck"     -> 8
    [] step = "aggregating" -> 7 [] step = "aggregate"  -> 6  [] step = "refresh"     -> 5
    [] step = "finish"    -> 4  [] step = "failing"     -> 3  [] step = "cancelLoad"  -> 2
    [] step = "cancelWrite" -> 1 [] step = "closed"     -> 0

\* Within a step: the gate is asked, a completion is charged, a total is read.
Unasked == IF gate = "unchecked" THEN 1 ELSE 0
Unpaid  == IF owes THEN 2 ELSE 0
Unseen  == IF reading[Self] = NoRead THEN 1 ELSE 0

Inner   == Unasked + Unpaid + Unseen

Outer   == FanoutWork + StepsLeft

SetWork == 5 * Outer + Inner

workflow == <<step, write["set"], fanoutVars, loop, budgetHit, aggregated, reading[Self]>>

\* Each move of EvalSetWorkflow, the resolutions of its sessions included, brings
\* it closer to its end; charges of sessions, cancel requests and late writes
\* never set it back.
SetWinds ==
  /\ [](SetWork \in 0..(20 * N + 79))
  /\ [][SetWork' < SetWork]_workflow

\* Whoever waits for a status write has one, which commits or is rejected.
Waits ==
  /\ starter = "start" => step = "none"
  /\ step \in Written \union {"failing", "cancelWrite"} => write["set"] # NoWrite
  /\ canceller = "write" => write["api"] # NoWrite

\* What lets EvalSetWorkflow go on: a status write that it waits for, the gate, a
\* charge, a completion that has arrived, or an activity that needs nothing else.
LoopCanMove == owes \/ phase \in {"fill", "refill", "returned"} \/ pending = {} \/ Ready # {}

SetCanMove ==
  \/ step \in {"load", "recheck", "aggregate", "refresh", "cancelLoad"}
  \/ step \in Written \union {"failing", "cancelWrite"} /\ write["set"] # NoWrite
  \/ step = "sessions" /\ LoopCanMove

\* Nobody hangs: a request that has begun can go on, and an open EvalSetWorkflow
\* can go on or has a session in flight whose future is still to resolve.
SetNeverStuck ==
  /\ canceller = "write" => write["api"] # NoWrite
  /\ step \notin {"none", "closed"} =>
       SetCanMove \/ (step = "sessions" /\ \E i \in pending : outcome[i] = "none")

\* A workflow or a request whose step names a status write has one.
LEMMA StepWaits == SetInv /\ Waits /\ [Next]_vars => Waits'
<1>. SUFFICES ASSUME SetInv, Waits, [Next]_vars PROVE Waits'
  OBVIOUS
<1>. USE DEF Waits, Begin, Go, From, NoWrite, Written, SetInv, EvalSetTypeOK, loop, spending,
             requests, unrelated
<1>1. CASE UNCHANGED vars \/ CancelRead
  BY <1>1 DEF vars, setVars, CancelRead
<1>2. CASE ApiStep
  BY <1>2 DEF ApiStep, StartWorkflow, StartFails, CompensatePartialCreate, CancelWorkflow,
              CancelWrites, CancelFails, CancelEnd
<1>3. CASE SetStep
  <2>1. CASE LaunchSession \/ RefuseSession \/ LoopReturns \/ CheckGate
             \/ \E i \in Children : SettleSession(i)
    BY <2>1 DEF LaunchSession, RefuseSession, LoopReturns, CheckGate, SettleSession, setVars
  <2>2. CASE ChargeReads \/ ChargeWrites \/ ChargeFails \/ RefreshReads \/ RefreshWrites
             \/ RefreshFails
    BY <2>2 DEF ChargeReads, ChargeWrites, ChargeFails, RefreshReads, RefreshWrites,
                RefreshFails, RefreshRead, RefreshWrite, Finish, At
  <2>3. CASE Expand \/ LoadEvalSet \/ Open \/ StepRejected \/ StepFails
    BY <2>3 DEF Expand, LoadEvalSet, Open, StepRejected, StepFails, At
  <2>4. CASE Recheck \/ BeginAggregating \/ AggregateEvalSet
    <3>1. UNCHANGED <<starter, canceller>> /\ step # "none"
      BY <2>4 DEF Recheck, BeginAggregating, AggregateEvalSet, At
    <3>2. write'["api"] = write["api"]
      BY <2>4 DEF Recheck, BeginAggregating, AggregateEvalSet
    <3>3. step' \in Written \union {"failing", "cancelWrite"} => write'["set"] # NoWrite
      <4>1. CASE Recheck
        <5>1. Begin("aggregating", From("running", "aggregating"))
          BY <4>1, Zenon DEF Recheck
        <5>. QED  BY <5>1
      <4>. QED  BY <2>4, <4>1 DEF BeginAggregating, AggregateEvalSet
    <3>. QED  BY <3>1, <3>2, <3>3
  <2>6. CASE AfterSessions
    <3>1. /\ UNCHANGED <<starter, canceller>> /\ write'["api"] = write["api"]
          /\ step = "sessions"
      BY <2>6 DEF AfterSessions, InLoop
    <3>2. step' \in {"failing", "aggregating"} => write'["set"] # NoWrite
      BY <2>6 DEF AfterSessions
    <3>3. step' \in {"cancelLoad", "failing", "aggregating", "recheck"}
      BY <2>6 DEF AfterSessions
    <3>. QED  BY <3>1, <3>2, <3>3
  <2>5. CASE FinishSet \/ FailSet \/ Cancel \/ CancelLoad \/ MarkEvalSetCancelled
             \/ MarkEvalSetCancelledFails
    BY <2>5 DEF FinishSet, FailSet, Cancel, CancelLoad, MarkEvalSetCancelled,
                MarkEvalSetCancelledFails, At
  <2>. QED  BY <1>3, <2>1, <2>2, <2>3, <2>4, <2>5, <2>6 DEF SetStep
<1>4. ASSUME NEW i \in Children, SessionStep(i) PROVE Waits'
  BY <1>4 DEF SessionStep, SessionReads, SessionWrites, SessionCloses, RefreshRead,
              RefreshWrite, setVars
<1>5. ASSUME NEW w \in late, LateWrite(w) PROVE Waits'
  BY <1>5 DEF LateWrite
<1>. QED  BY <1>1, <1>2, <1>3, <1>4, <1>5 DEF Next

\* Waits holds throughout.
LEMMA WaitsInvariant == Spec => [](SetInv /\ Waits)
<1>1. Init => Waits
  BY DEF Init, Waits, Written
<1>2. SetInv /\ Waits /\ [Next]_vars => SetInv' /\ Waits'
  BY SetInvStep, StepWaits
<1>. QED  BY SetInvInit, <1>1, <1>2, PTL DEF Spec

\* Neither the workflow of a set nor its cancel request is ever left hanging.
THEOREM SetsNeverStick == Spec => []SetNeverStuck
<1>1. SetInv /\ Waits => SetNeverStuck
  BY DEF SetInv, EvalSetTypeOK, FanoutTypeOK, Waits, SetNeverStuck, SetCanMove, LoopCanMove,
         SetSteps, Ready, FanoutInv, Errors
<1>. QED  BY <1>1, WaitsInvariant, PTL

\* A step of the workflow or of its loop outweighs what is left within it.
LEMMA OuterFirst ==
  ASSUME NEW o \in Int, NEW o1 \in Int, NEW i \in 0..4, NEW i1 \in 0..4,
         o1 < o \/ (o1 <= o /\ i1 < i)
  PROVE  5 * o1 + i1 < 5 * o + i
OBVIOUS

\* What is left within a step.
LEMMA InnerSum ==
  ASSUME NEW a \in 0..1, NEW a1 \in 0..1, NEW b \in 0..2, NEW b1 \in 0..2,
         NEW c \in 0..1, NEW c1 \in 0..1
  PROVE  /\ a + b + c \in 0..4
         /\ a1 < a /\ b1 = b /\ c1 = c => a1 + b1 + c1 < a + b + c
         /\ a1 = a /\ b1 = b /\ c1 < c => a1 + b1 + c1 < a + b + c
         /\ a1 = a /\ b1 = 0 /\ b = 2  => a1 + b1 + c1 < a + b + c
OBVIOUS

\* The parts of the number.
LEMMA SetWorkType ==
  ASSUME SetInv
  PROVE  /\ StepsLeft \in 0..13 /\ Unasked \in 0..1 /\ Unpaid \in 0..2 /\ Unseen \in 0..1
         /\ FanoutWork \in 0..(4 * N + 2)
<1>1. StepsLeft \in 0..13
  BY DEF StepsLeft, SetInv, EvalSetTypeOK, SetSteps, Written
<1>. QED  BY <1>1, WorkBounds DEF Unasked, Unpaid, Unseen, SetInv

\* The loop of a set comes closer to its end with each of its moves, and counts
\* in numbers.
LEMMA LoopWork ==
  ASSUME SetInv, [Next]_vars
  PROVE  /\ FanoutWork' \in Int /\ FanoutWork \in Int /\ FanoutWork' <= FanoutWork
         /\ UNCHANGED fanoutVars \/ FanoutWork' < FanoutWork
<1>1. FanoutInv /\ [FanoutNext]_fanoutVars /\ FanoutInv'
  BY StepLoop, SetInvStep DEF SetInv
<1>2. FanoutWork \in Int
  BY <1>1, WorkBounds, FanoutAssumption DEF FanoutAssumption
<1>3. FanoutWork' \in Int
  <2>0. nextIndex' \in 0..N /\ pending' \subseteq Children
    BY <1>1 DEF FanoutInv, FanoutTypeOK
  <2>1. /\ nextIndex' \in Int /\ pending' \in SUBSET Children
        /\ (pending \ Ready)' \in SUBSET Children
    BY <2>0
  <2>2. Cardinality(pending') \in Nat /\ Cardinality((pending \ Ready)') \in Nat
    BY <2>1, ChildrenFinite
  <2>. QED  BY <2>1, <2>2, FanoutAssumption DEF FanoutAssumption, FanoutWork, PhaseRank
<1>4. CASE FanoutNext
  BY <1>1, <1>2, <1>3, <1>4, FanoutStepWork
<1>5. CASE UNCHANGED fanoutVars
  <2>1. FanoutWork' = FanoutWork
    BY <1>5 DEF fanoutVars, FanoutWork, PhaseRank, Ready
  <2>. QED  BY <1>2, <1>5, <2>1
<1>. QED  BY <1>1, <1>2, <1>3, <1>4, <1>5

\* Each move of EvalSetWorkflow lowers the number.
LEMMA StepSetWork ==
  ASSUME SetInv, Waits, [Next]_vars
  PROVE  [SetWork' < SetWork]_workflow
<1>0. EvalSetTypeOK /\ EvalSetTypeOK'
  BY SetInvStep DEF SetInv
<1>t. /\ Unasked \in 0..1 /\ Unpaid \in 0..2 /\ Unseen \in 0..1
      /\ Unasked' \in 0..1 /\ Unpaid' \in 0..2 /\ Unseen' \in 0..1
  BY <1>0 DEF Unasked, Unpaid, Unseen, EvalSetTypeOK
<1>1. /\ StepsLeft \in Int /\ StepsLeft' \in Int
      /\ Inner \in 0..4 /\ Inner' \in 0..4
  <2>1. StepsLeft \in Int /\ StepsLeft' \in Int
    BY <1>0 DEF StepsLeft, EvalSetTypeOK, SetSteps, Written
  <2>. QED  BY <1>t, <2>1, InnerSum DEF Inner
<1>2. /\ FanoutWork \in Int /\ FanoutWork' \in Int /\ FanoutWork' <= FanoutWork
      /\ UNCHANGED fanoutVars \/ FanoutWork' < FanoutWork
  BY LoopWork
<1>o. Outer \in Int /\ Outer' \in Int
  BY <1>1, <1>2 DEF Outer
<1>p. PICK f \in Int, f1 \in Int, s \in Int, s1 \in Int :
        f = FanoutWork /\ f1 = FanoutWork' /\ s = StepsLeft /\ s1 = StepsLeft'
  BY <1>1, <1>2
<1>q. f1 <= f
  BY <1>2, <1>p
<1>r. /\ s1 <= s => f1 + s1 <= f + s
      /\ (f1 < f /\ s1 <= s) \/ s1 < s => f1 + s1 < f + s
  BY <1>q
<1>a. ASSUME StepsLeft' < StepsLeft PROVE SetWork' < SetWork
  <2>1. Outer' < Outer
    <3>1. s1 < s
      BY <1>a, <1>p
    <3>. QED  BY <1>p, <1>r, <3>1 DEF Outer
  <2>. QED  BY <1>1, <1>o, <2>1, OuterFirst DEF SetWork
<1>b. ASSUME FanoutWork' < FanoutWork, UNCHANGED step PROVE SetWork' < SetWork
  <2>1. StepsLeft' = StepsLeft
    BY <1>b DEF StepsLeft
  <2>2. Outer' < Outer
    <3>1. s1 <= s /\ f1 < f
      BY <1>b, <1>p, <2>1
    <3>. QED  BY <1>p, <1>r, <3>1 DEF Outer
  <2>. QED  BY <1>1, <1>o, <2>2, OuterFirst DEF SetWork
<1>e. ASSUME Inner' < Inner, UNCHANGED step PROVE SetWork' < SetWork
  <2>1. StepsLeft' = StepsLeft
    BY <1>e DEF StepsLeft
  <2>2. Outer' <= Outer
    <3>1. s1 <= s
      BY <1>p, <2>1
    <3>. QED  BY <1>p, <1>r, <3>1 DEF Outer
  <2>. QED  BY <1>1, <1>e, <1>o, <2>2, OuterFirst DEF SetWork
<1>. DEFINE Lower == UNCHANGED workflow \/ SetWork' < SetWork
<1>. SUFFICES Lower
  OBVIOUS
<1>. HIDE DEF Lower
<1>c. ASSUME UNCHANGED <<step, write, fanoutVars, loop, budgetHit, aggregated, reading>>
      PROVE  Lower
  BY <1>c DEF Lower, workflow
<1>d. ASSUME StepsLeft' < StepsLeft PROVE Lower
  BY <1>a, <1>d DEF Lower
<1>. USE DEF unrelated, requests, spending
<1>3. CASE UNCHANGED vars \/ CancelRead
  BY <1>3, <1>c DEF vars, setVars, CancelRead
<1>4. CASE ApiStep
  <2>1. CASE CancelWorkflow \/ CancelWrites \/ CancelFails
    <3>1. /\ UNCHANGED <<step, fanoutVars, loop, budgetHit, aggregated, reading>>
          /\ write'["set"] = write["set"]
      BY <2>1, <1>0 DEF CancelWorkflow, CancelWrites, CancelFails, CancelEnd, EvalSetTypeOK
    <3>. QED  BY <3>1 DEF Lower, workflow
  <2>2. CASE CompensatePartialCreate
    BY <2>2, <1>c DEF CompensatePartialCreate
  <2>3. CASE StartWorkflow \/ (StartFails /\ step' # step)
    <3>1. step = "none" /\ step' = "expanding"
      BY <2>3 DEF StartWorkflow, StartFails, Begin, Waits
    <3>2. StepsLeft' < StepsLeft
      BY <3>1 DEF StepsLeft
    <3>. QED  BY <1>d, <3>1, <3>2
  <2>4. CASE StartFails /\ step' = step
    <3>1. step = "none" /\ UNCHANGED <<step, write>>
      BY <2>4 DEF StartFails, Begin, Waits
    <3>. QED  BY <2>4, <3>1, <1>c DEF StartFails
  <2>. QED  BY <1>4, <2>1, <2>2, <2>3, <2>4 DEF ApiStep
<1>5. CASE SetStep
  <2>1. CASE CheckGate
    <3>1. /\ Unasked = 1 /\ Unasked' = 0
          /\ UNCHANGED <<step, fanoutVars, owes, reading>>
      BY <2>1 DEF CheckGate, Unasked
    <3>2. Unpaid' = Unpaid /\ Unseen' = Unseen
      BY <3>1 DEF Unpaid, Unseen
    <3>3. Inner' < Inner
      BY <1>t, <3>1, <3>2, InnerSum DEF Inner
    <3>. QED  BY <1>e, <3>1, <3>3 DEF Lower
  <2>2. CASE LaunchSession \/ RefuseSession \/ LoopReturns
    <3>1. UNCHANGED step
      BY <2>2 DEF LaunchSession, RefuseSession, LoopReturns, setVars
    <3>2. phase' # phase \/ nextIndex' # nextIndex
      <4>1. nextIndex \in Int
        BY <1>0 DEF EvalSetTypeOK, FanoutTypeOK
      <4>. QED  BY <2>2, <4>1
                DEF LaunchSession, RefuseSession, LoopReturns, Launch, Refuse, Return
    <3>. QED  BY <1>2, <1>b, <3>1, <3>2 DEF fanoutVars, Lower
  <2>3. ASSUME NEW i \in Children, SettleSession(i) PROVE Lower
    <3>1. UNCHANGED step
      BY <2>3 DEF SettleSession
    <3>2. handled' # handled
      BY <2>3, <1>0 DEF SettleSession, Complete, Drain, Handle, Ready, SetInv, FanoutInv, NoneLost
    <3>3. FanoutWork' < FanoutWork
      BY <1>2, <3>2 DEF fanoutVars
    <3>. QED  BY <1>b, <3>1, <3>3 DEF Lower
  <2>4. CASE ChargeReads \/ RefreshReads
    <3>1. /\ Unseen = 1 /\ Unseen' = 0 /\ UNCHANGED <<step, fanoutVars, loop>>
      BY <2>4, <1>0 DEF ChargeReads, RefreshReads, RefreshRead, Unseen, EvalSetTypeOK, NoRead
    <3>2. Unpaid' = Unpaid /\ Unasked' = Unasked
      BY <3>1 DEF Unpaid, Unasked, loop
    <3>3. Inner' < Inner
      BY <1>t, <3>1, <3>2, InnerSum DEF Inner
    <3>. QED  BY <1>e, <3>1, <3>3 DEF Lower
  <2>5. CASE ChargeWrites \/ ChargeFails
    <3>1. /\ Unpaid = 2 /\ Unpaid' = 0 /\ UNCHANGED <<step, gate>>
      BY <2>5 DEF ChargeWrites, ChargeFails, RefreshWrite, Unpaid
    <3>2. Unasked' = Unasked
      BY <3>1 DEF Unasked
    <3>3. Inner' < Inner
      BY <1>t, <3>1, <3>2, InnerSum DEF Inner
    <3>. QED  BY <1>e, <3>1, <3>3 DEF Lower
  <2>6. CASE Expand \/ LoadEvalSet \/ Open \/ StepRejected \/ StepFails \/ Recheck
             \/ BeginAggregating \/ AggregateEvalSet
    <3>1. CASE Expand \/ LoadEvalSet \/ Open \/ StepRejected \/ StepFails
      BY <3>1, <1>d DEF Expand, LoadEvalSet, Open, StepRejected, StepFails, Begin, Go, At,
                        Written, StepsLeft
    <3>2. CASE Recheck \/ BeginAggregating \/ AggregateEvalSet
      <4>1. <<step, step'>> \in {<<"recheck", "aggregating">>, <<"aggregating", "aggregate">>,
                                    <<"aggregate", "refresh">>, <<"aggregate", "failing">>}
        BY <3>2 DEF Recheck, BeginAggregating, AggregateEvalSet, Begin, Go, At
      <4>2. StepsLeft' < StepsLeft
        BY <4>1 DEF StepsLeft
      <4>. QED  BY <1>d, <4>1, <4>2
    <3>. QED  BY <2>6, <3>1, <3>2
  <2>7. CASE RefreshWrites \/ RefreshFails \/ FinishSet \/ FailSet \/ Cancel \/ CancelLoad
             \/ MarkEvalSetCancelled \/ MarkEvalSetCancelledFails
    <3>1. StepsLeft' < StepsLeft
      BY <2>7 DEF RefreshWrites, RefreshFails, Finish, FinishSet, FailSet, Cancel, CancelLoad,
                  MarkEvalSetCancelled, MarkEvalSetCancelledFails, Begin, Go, At, Written,
                  StepsLeft
    <3>. QED  BY <1>d, <3>1
  <2>8. CASE AfterSessions
    <3>1. /\ step = "sessions"
          /\ step' \in {"cancelLoad", "failing", "aggregating", "recheck"}
      BY <2>8 DEF AfterSessions, InLoop, Begin, Go
    <3>2. StepsLeft' < StepsLeft
      BY <3>1 DEF StepsLeft
    <3>. QED  BY <1>d, <3>1, <3>2
  <2>. QED  BY <1>5, <2>1, <2>2, <2>3, <2>4, <2>5, <2>6, <2>7, <2>8 DEF SetStep
<1>6. ASSUME NEW i \in Children, SessionStep(i) PROVE Lower
  <2>1. CASE SessionReads(i) \/ SessionWrites(i)
    <3>1. i # Self
      BY FanoutAssumption DEF FanoutAssumption, Children, Self
    <3>2. /\ reading'[Self] = reading[Self]
          /\ UNCHANGED <<step, write, fanoutVars, loop, budgetHit, aggregated>>
      BY <2>1, <3>1, <1>0
         DEF SessionReads, SessionWrites, RefreshRead, RefreshWrite, EvalSetTypeOK, loop
    <3>. QED  BY <3>2 DEF Lower, workflow
  <2>2. CASE SessionCloses(i)
    <3>1. outcome' # outcome /\ UNCHANGED step
      BY <2>2, <1>0 DEF SessionCloses, Resolve, setVars, loop, EvalSetTypeOK, FanoutTypeOK
    <3>. QED  BY <1>2, <1>b, <3>1 DEF fanoutVars, Lower
  <2>. QED  BY <1>6, <2>1, <2>2 DEF SessionStep
<1>7. ASSUME NEW w \in late, LateWrite(w) PROVE Lower
  BY <1>7, <1>c DEF LateWrite
<1>. QED  BY <1>3, <1>4, <1>5, <1>6, <1>7 DEF Next

\* EvalSetWorkflow cannot go round in circles, whatever is refused, cancelled or
\* fails: after at most 20N + 79 moves, those of its loop included, it has closed.
THEOREM SetsWindDown == Spec => SetWinds
<1>1. SetInv => SetWork \in 0..(20 * N + 79)
  <2>. SUFFICES ASSUME SetInv PROVE SetWork \in 0..(20 * N + 79)
    OBVIOUS
  <2>1. Outer \in 0..(4 * N + 15) /\ Inner \in 0..4 /\ N \in Nat
    BY SetWorkType, InnerSum, FanoutAssumption DEF FanoutAssumption, Outer, Inner
  <2>. QED  BY <2>1 DEF SetWork
<1>2. SetInv /\ Waits /\ [Next]_vars => [SetWork' < SetWork]_workflow
  BY StepSetWork
<1>. QED  BY <1>1, <1>2, WaitsInvariant, PTL DEF Spec, SetWinds

\* The sessions of a set are launched as BoundedLaunching says.
THEOREM SetImplementsLaunching == Spec => ImplementsLaunching
BY SetRunsBoundedLoop, FanoutImplementsLaunching
=============================================================================
