--------------------------- MODULE HostedRunProofs ---------------------------
(***************************************************************************)
(* The safety of HostedRun for every set of agents, events and deliverers, *)
(* and that it implements HostedExecution.                                 *)
(*                                                                         *)
(* Everything that is proved is about one agent at a time: Facts(a) holds  *)
(* the row, the receipts and the notification of a against the position of *)
(* its activity and its workflow.  A step changes one agent, so the proof  *)
(* that Facts is kept looks at that agent only (OthersKeep).               *)
(*                                                                         *)
(* At the end: no signal is lost, no agent is stuck, and agents wind down; *)
(* for these the pending notifications are followed as a queue (Queue).    *)
(***************************************************************************)
EXTENDS HostedRun, FiniteSetTheorems, WellFoundedInduction, TLAPS

USE HostedAssumption DEF HostedAssumption

\* The row before the dispatch, and what a row says about its receipts.
RowFacts(a) ==
  /\ start[a] = "claim" => ~row[a].claimed
  /\ start[a] \in {"answer", "reload"} => row[a].claimed
  /\ flow[a].at \in {"wait", "expire"} \/ a \in overdue => row[a].claimed
  /\ ~row[a].claimed => row[a].status = "none" /\ row[a].ext = NoExt /\ receipts[a] = {}
  /\ \A e \in receipts[a] : e.ext = row[a].ext
  /\ \A e, f \in receipts[a] : e.id = f.id => e = f
  /\ receipts[a] # {} =>
       \/ row[a].status \in {"running", "completed", "failed"}
       \/ row[a].status = "unknown" /\ flow[a].verdict = "error" /\ start[a] = "over"

\* Where the workflow can be while the activity runs, and when it is overdue.
FlowFacts(a) ==
  /\ start[a] # "over" => /\ flow[a].at \notin {"wait", "expire"} /\ a \notin overdue
                          /\ flow[a].verdict # "ok"
  /\ flow[a].verdict = "none" \/ flow[a].at \in {"leave", "closed"}
  /\ a \in overdue => flow[a].at = "expire" \/ flow[a].verdict = "error"
  /\ flow[a].at \in {"leave", "closed"} => flow[a].verdict # "none"

\* An end without a notification is a refusal, and then nobody waits.
NoteFacts(a) ==
  /\ note[a] # NoEvent => /\ note[a] \in receipts[a] /\ note[a].kind \in Ended
                          /\ note[a].kind = row[a].status
  /\ row[a].status \in Ended /\ note[a] = NoEvent =>
       /\ row[a].status = "failed" /\ receipts[a] = {} /\ start[a] = "over"
       /\ flow[a].at \in {"leave", "closed"}
  /\ flow[a].verdict = "ok" =>
       /\ row[a].status = "completed"
       /\ flow[a].ext \in {NoExt, row[a].ext}

Facts(a) == RowFacts(a) /\ FlowFacts(a) /\ NoteFacts(a)

HostedInv == HostedTypeOK /\ \A a \in Agents : Facts(a)

-----------------------------------------------------------------------------
(* Types *)

RowType  == [status : Statuses, claimed : BOOLEAN, ext : ExtIds \union {NoExt}]
FlowType == [at : {"start", "wait", "expire", "leave", "closed"},
             verdict : {"none", "ok", "error"}, ext : ExtIds \union {NoExt}]

\* The tables start empty and every workflow at its start.
LEMMA InitInv == Init => HostedInv
<1>. SUFFICES ASSUME Init PROVE HostedInv
  OBVIOUS
<1>. USE DEF Init
<1>1. HostedTypeOK
  BY DEF HostedTypeOK, Statuses, Noted
<1>2. ASSUME NEW a \in Agents PROVE Facts(a)
  BY DEF Facts, RowFacts, FlowFacts, NoteFacts, Ended
<1>. QED  BY <1>1, <1>2 DEF HostedInv

\* What updates of a row, or of a workflow, make of it.
LEMMA RowUpdate ==
  ASSUME row \in [Agents -> RowType], NEW a \in Agents, NEW s \in Statuses,
         NEW x \in ExtIds \union {NoExt}
  PROVE  /\ [row EXCEPT ![a].status = s] \in [Agents -> RowType]
         /\ [row EXCEPT ![a].ext = x, ![a].status = s] \in [Agents -> RowType]
         /\ [row EXCEPT ![a].status = s, ![a].claimed = TRUE] \in [Agents -> RowType]
<1>1. row[a] \in RowType
  OBVIOUS
<1>2. /\ [row[a] EXCEPT !.status = s] \in RowType
      /\ [row[a] EXCEPT !.ext = x, !.status = s] \in RowType
      /\ [row[a] EXCEPT !.status = s, !.claimed = TRUE] \in RowType
  BY <1>1 DEF RowType
<1>. QED  BY <1>2

\* The answer of the activity keeps the types of activity and workflow.
LEMMA ReplyType ==
  ASSUME HostedTypeOK, NEW a \in Agents, NEW ok \in BOOLEAN, NEW x \in ExtIds \union {NoExt},
         NEW status, Reply(a, ok, x, status)
  PROVE  /\ start' \in [Agents -> {"claim", "answer", "reload", "over"}]
         /\ flow' \in [Agents -> FlowType]
<1>. USE DEF HostedTypeOK
<1>1. start' \in [Agents -> {"claim", "answer", "reload", "over"}]
  BY DEF Reply
<1>2. flow \in [Agents -> FlowType]
  BY DEF FlowType
<1>3. /\ [at |-> "leave", verdict |-> "error", ext |-> NoExt] \in FlowType
      /\ [at |-> "leave", verdict |-> "ok", ext |-> x] \in FlowType
      /\ [at |-> "wait", verdict |-> "none", ext |-> x] \in FlowType
  BY DEF FlowType
<1>4. flow' \in [Agents -> FlowType]
  BY <1>2, <1>3 DEF Reply
<1>. QED  BY <1>1, <1>4

\* What the activity writes: the row, and its answer.
LEMMA StartTypes ==
  ASSUME HostedTypeOK, NEW a \in Agents, StartStep(a) \/ StartFails(a)
  PROVE  /\ UNCHANGED dispatchElse
         /\ row' \in [Agents -> RowType] /\ reached' \subseteq Agents
         /\ start' \in [Agents -> {"claim", "answer", "reload", "over"}]
         /\ flow' \in [Agents -> FlowType]
<1>1. row \in [Agents -> RowType] /\ flow \in [Agents -> FlowType] /\ reached \subseteq Agents
      /\ row[a].ext \in ExtIds \union {NoExt} /\ row[a].status \in Statuses
      /\ start \in [Agents -> {"claim", "answer", "reload", "over"}]
  BY DEF HostedTypeOK, RowType, FlowType
<1>2. {"starting", "unknown", "failed", "accepted"} \subseteq Statuses
  BY DEF Statuses
<1>3. CASE ClaimDispatch(a)
  <2>1. CASE row[a].status \in {"none", "starting"} /\ ~row[a].claimed
    <3>1. /\ row' = [row EXCEPT ![a].status = "starting", ![a].claimed = TRUE]
          /\ start' = [start EXCEPT ![a] = "answer"] /\ UNCHANGED <<flow, dispatchElse>>
          /\ reached' \in {reached, reached \union {a}}
      BY <1>3, <2>1 DEF ClaimDispatch
    <3>2. NoExt \in ExtIds \union {NoExt} /\ "starting" \in Statuses
      BY <1>2
    <3>3. row' \in [Agents -> RowType]
      BY <1>1, <3>1, <3>2, RowUpdate
    <3>. QED  BY <1>1, <3>1, <3>3
  <2>2. CASE ~(row[a].status \in {"none", "starting"} /\ ~row[a].claimed)
    BY <1>1, <1>3, <2>2, ReplyType DEF ClaimDispatch, ReplyError, ReplyRow
  <2>. QED  BY <2>1, <2>2
<1>4. CASE MarkUnknown(a)
  BY <1>1, <1>2, <1>4, RowUpdate DEF MarkUnknown
<1>5. CASE Reload(a)
  BY <1>1, <1>5, ReplyType DEF Reload, ReplyRow
<1>6. CASE MarkRejected(a)
  <2>1. row' \in [Agents -> RowType]
    BY <1>1, <1>2, <1>6, RowUpdate DEF MarkRejected
  <2>. QED  BY <1>1, <1>6, <2>1, ReplyType DEF MarkRejected, ReplyError, ReplyRow
<1>7. ASSUME NEW x \in ExtIds, MarkAccepted(a, x)
      PROVE  /\ UNCHANGED dispatchElse
             /\ row' \in [Agents -> RowType] /\ reached' \subseteq Agents
             /\ start' \in [Agents -> {"claim", "answer", "reload", "over"}]
             /\ flow' \in [Agents -> FlowType]
  <2>. DEFINE s == IF row[a].status \in {"starting", "unknown"} THEN "accepted" ELSE row[a].status
  <2>1. s \in Statuses
    BY <1>1, <1>2
  <2>2. CASE row[a].ext \in {NoExt, x}
    <3>1. /\ row' = [row EXCEPT ![a].ext = x, ![a].status = s] /\ Reply(a, TRUE, x, s)
          /\ UNCHANGED <<dispatchElse, reached>>
      BY <1>7, <2>2 DEF MarkAccepted
    <3>. HIDE DEF s
    <3>. QED  BY <1>1, <2>1, <3>1, RowUpdate, ReplyType
  <2>3. CASE row[a].ext \notin {NoExt, x}
    BY <1>1, <1>7, <2>3, ReplyType DEF MarkAccepted, ReplyError
  <2>. QED  BY <2>2, <2>3
<1>8. CASE StartFails(a)
  BY <1>1, <1>8, ReplyType DEF StartFails, ReplyError
<1>. QED  BY <1>3, <1>4, <1>5, <1>6, <1>7, <1>8 DEF StartStep

\* Steps of StartHostedRun keep the types.
LEMMA StartType ==
  ASSUME HostedTypeOK, NEW a \in Agents, StartStep(a) \/ StartFails(a)
  PROVE  HostedTypeOK'
  BY StartTypes DEF HostedTypeOK, dispatchElse, RowType, FlowType, Noted

\* A workflow that moves keeps its type.
LEMMA FlowUpdate ==
  ASSUME flow \in [Agents -> FlowType], NEW a \in Agents,
         NEW at \in {"start", "wait", "expire", "leave", "closed"},
         NEW verdict \in {"none", "ok", "error"}, Turn(a, at, verdict)
  PROVE  flow' \in [Agents -> FlowType]
<1>1. [flow[a] EXCEPT !.at = at, !.verdict = verdict] \in FlowType
  BY DEF FlowType
<1>. QED  BY <1>1 DEF Turn

\* Steps of the workflow and of the deadline keep the types.
LEMMA WaitType ==
  ASSUME HostedTypeOK, NEW a \in Agents,
         Receive(a) \/ Expire(a) \/ MarkTimedOut(a) \/ Interrupt(a) \/ Leave(a)
  PROVE  HostedTypeOK'
<1>1. row \in [Agents -> RowType] /\ flow \in [Agents -> FlowType] /\ overdue \subseteq Agents
      /\ flow[a].verdict \in {"none", "ok", "error"}
  BY DEF HostedTypeOK, RowType, FlowType
<1>2. flow' \in [Agents -> FlowType] /\ overdue' \subseteq Agents
  BY <1>1, FlowUpdate DEF Receive, Expire, MarkTimedOut, TimedOut, Interrupt, Leave
<1>3. row' \in [Agents -> RowType]
  <2>1. CASE MarkTimedOut(a)
    BY <1>1, <2>1, RowUpdate DEF MarkTimedOut, TimedOut, Statuses
  <2>2. CASE ~MarkTimedOut(a)
    BY <1>1, <2>2 DEF Receive, Expire, Interrupt, Leave, flowElse, table
  <2>. QED  BY <2>1, <2>2
<1>4. UNCHANGED <<receipts, note, created, delivered, reached, start, signalled, batch, sent, stops>>
  BY DEF Receive, Expire, MarkTimedOut, TimedOut, Interrupt, Leave, flowElse, table
<1>. QED  BY <1>2, <1>3, <1>4 DEF HostedTypeOK, RowType, FlowType, Noted

\* CommitHostedCallback keeps the types.
LEMMA CallbackType ==
  ASSUME HostedTypeOK, NEW a \in Agents, NEW e \in Events, Callback(a, e)
  PROVE  HostedTypeOK'
<1>. USE DEF HostedTypeOK
<1>1. row' \in [Agents -> RowType]
  <2>1. row \in [Agents -> RowType] /\ e.ext \in ExtIds /\ e.kind \in Kinds
        /\ row[a].status \in Statuses
    BY DEF ExtIds, RowType
  <2>. DEFINE s == IF row[a].status \in Ended THEN row[a].status
                   ELSE IF e.kind = "progress" THEN "running" ELSE e.kind
  <2>2. s \in Statuses
    BY <2>1 DEF Statuses, Kinds
  <2>3. row' = [row EXCEPT ![a].ext = e.ext, ![a].status = s]
    BY DEF Callback
  <2>. HIDE DEF s
  <2>. QED  BY <2>1, <2>2, <2>3, RowUpdate
<1>2. /\ receipts' \in [Agents -> SUBSET Events] /\ note' \in [Agents -> Events \union {NoEvent}]
      /\ UNCHANGED <<delivered, reached, start, flow, signalled, overdue, batch, sent, stops>>
  BY DEF Callback
<1>3. created' \in [Agents -> Nat]
  <2>1. Cardinality(Noted) \in Nat
    BY FS_Subset, FS_CardinalityType DEF Noted
  <2>. QED  BY <2>1 DEF Callback
<1>4. Noted \subseteq Noted'
  BY DEF Callback, Noted
<1>. QED  BY <1>1, <1>2, <1>3, <1>4 DEF RowType

\* The delivery of notifications keeps the types.
LEMMA DeliverType ==
  ASSUME HostedTypeOK, NEW d \in Deliverers, Deliver(d) \/ StopDelivery(d)
  PROVE  HostedTypeOK'
<1>. USE DEF HostedTypeOK, table, Noted
<1>1. CASE ListPending(d)
  BY <1>1 DEF ListPending, Undelivered
<1>2. ASSUME NEW a \in batch[d], Signal(d, a) PROVE HostedTypeOK'
  BY <1>2 DEF Signal
<1>3. ASSUME NEW a \in batch[d], MarkDelivered(d, a) PROVE HostedTypeOK'
  BY <1>3 DEF MarkDelivered
<1>4. CASE StopDelivery(d)
  BY <1>4 DEF StopDelivery
<1>. QED  BY <1>1, <1>2, <1>3, <1>4 DEF Deliver

\* Every step keeps the types.
LEMMA StepType == HostedTypeOK /\ [Next]_vars => HostedTypeOK'
<1>1. HostedTypeOK /\ UNCHANGED vars => HostedTypeOK'
  BY DEF HostedTypeOK, vars, table, Noted
<1>. QED  BY <1>1, StartType, WaitType, CallbackType, DeliverType DEF Next


-----------------------------------------------------------------------------
(* Facts *)

\* An agent that a step does not touch keeps its facts.
LEMMA OthersKeep ==
  ASSUME HostedInv, NEW b \in Agents,
         row'[b] = row[b], receipts'[b] = receipts[b], note'[b] = note[b],
         start'[b] = start[b], flow'[b] = flow[b], b \in overdue' <=> b \in overdue
  PROVE  Facts(b)'
  BY DEF HostedInv, Facts, RowFacts, FlowFacts, NoteFacts

\* How a workflow takes the answer of its activity.
Answered(a, ok, x, status) ==
  /\ start'[a] = "over"
  /\ IF flow[a].at # "start" THEN flow'[a] = flow[a]
     ELSE flow'[a] = IF ~ok THEN [at |-> "leave", verdict |-> "error", ext |-> NoExt]
                     ELSE IF status = "completed"
                       THEN [at |-> "leave", verdict |-> "ok", ext |-> x]
                       ELSE [at |-> "wait", verdict |-> "none", ext |-> x]

\* Reply changes the activity and the workflow of one agent, as Answered says.
LEMMA ReplyAnswers ==
  ASSUME HostedTypeOK, NEW a \in Agents, NEW ok, NEW x, NEW status, Reply(a, ok, x, status)
  PROVE  /\ Answered(a, ok, x, status)
         /\ \A b \in Agents : b # a => start'[b] = start[b] /\ flow'[b] = flow[b]
<1>. USE DEF HostedTypeOK, Reply
<1>1. start' = [start EXCEPT ![a] = "over"]
  OBVIOUS
<1>2. CASE flow[a].at # "start"
  BY <1>1, <1>2 DEF Answered
<1>3. CASE flow[a].at = "start"
  <2>1. PICK f : flow' = [flow EXCEPT ![a] = f] /\
                 f = IF ~ok THEN [at |-> "leave", verdict |-> "error", ext |-> NoExt]
                     ELSE IF status = "completed"
                       THEN [at |-> "leave", verdict |-> "ok", ext |-> x]
                       ELSE [at |-> "wait", verdict |-> "none", ext |-> x]
    BY <1>3
  <2>. QED  BY <1>1, <1>3, <2>1 DEF Answered
<1>. QED  BY <1>2, <1>3

\* An activity that still runs, or has just ended: what its step does to its agent.
LEMMA AnswerFacts ==
  ASSUME HostedInv, NEW a \in Agents, start[a] # "over",
         NEW ok, NEW x \in ExtIds \union {NoExt}, NEW status,
         Answered(a, ok, x, status), a \notin overdue',
         receipts'[a] = receipts[a], note'[a] = note[a],
         row'[a].claimed = row[a].claimed,
         row'[a].status = row[a].status \/
           (receipts[a] = {} /\ row[a].claimed /\ row'[a].status \in {"accepted", "failed"}),
         row[a].status \in Ended => row'[a].status = row[a].status,
         row'[a].ext = row[a].ext \/ (row[a].ext = NoExt /\ row[a].claimed /\ receipts[a] = {}),
         ok => x = row'[a].ext /\ status = row'[a].status /\ row[a].claimed,
         row'[a].status = "failed" /\ row[a].status # "failed" => ~ok
  PROVE  Facts(a)'
<1>. USE DEF HostedInv, Facts, Answered
<1>1. RowFacts(a)'
  <2>1. RowFacts(a) /\ start'[a] = "over"
    OBVIOUS
  <2>2. \A e \in receipts'[a] : e.ext = row'[a].ext
    BY <2>1 DEF RowFacts
  <2>3. receipts'[a] # {} => row'[a].status \in {"running", "completed", "failed"}
    BY <2>1 DEF RowFacts
  <2>4. ~row'[a].claimed => row'[a].status = "none" /\ row'[a].ext = NoExt /\ receipts'[a] = {}
    BY <2>1 DEF RowFacts
  <2>5. flow'[a].at \in {"wait", "expire"} \/ a \in overdue' => row'[a].claimed
    BY <2>1 DEF RowFacts
  <2>. QED  BY <2>1, <2>2, <2>3, <2>4, <2>5 DEF RowFacts
<1>2. FlowFacts(a)'
  BY DEF FlowFacts
<1>3. NoteFacts(a)'
  <2>1. /\ NoteFacts(a) /\ flow[a].at \notin {"wait", "expire"} /\ flow[a].verdict # "ok"
        /\ flow[a].at \in {"start", "wait", "expire", "leave", "closed"}
    BY DEF FlowFacts, HostedTypeOK
  <2>2. row[a].status \in Ended => note[a] # NoEvent
    BY <2>1 DEF NoteFacts
  <2>3. note'[a] # NoEvent => /\ note'[a] \in receipts'[a] /\ note'[a].kind \in Ended
                             /\ note'[a].kind = row'[a].status
    BY <2>1 DEF NoteFacts
  <2>4. row'[a].status \in Ended /\ note'[a] = NoEvent =>
          /\ row'[a].status = "failed" /\ receipts'[a] = {} /\ start'[a] = "over"
          /\ flow'[a].at \in {"leave", "closed"}
    BY <2>1, <2>2 DEF Ended
  <2>5. flow'[a].verdict = "ok" =>
          row'[a].status = "completed" /\ flow'[a].ext \in {NoExt, row'[a].ext}
    BY <2>1
  <2>. QED  BY <2>3, <2>4, <2>5 DEF NoteFacts
<1>. QED  BY <1>1, <1>2, <1>3

\* The steps of the activity.
LEMMA StartFacts ==
  ASSUME HostedInv, NEW a \in Agents, StartStep(a) \/ StartFails(a)
  PROVE  \A b \in Agents : Facts(b)'
<1>0. /\ HostedTypeOK /\ Facts(a) /\ row[a].ext \in ExtIds \union {NoExt}
      /\ row \in [Agents -> RowType]
  BY DEF HostedInv, HostedTypeOK, RowType
<1>1. /\ UNCHANGED <<receipts, note, overdue>>
      /\ \A b \in Agents : b # a => row'[b] = row[b]
  BY <1>0 DEF StartStep, StartFails, ClaimDispatch, MarkUnknown, Reload, MarkRejected,
              MarkAccepted, dispatchElse
<1>2. ASSUME \A b \in Agents : b # a => start'[b] = start[b] /\ flow'[b] = flow[b], Facts(a)'
      PROVE  \A b \in Agents : Facts(b)'
  BY <1>1, <1>2, OthersKeep
<1>3. ASSUME start[a] # "over", UNCHANGED row,
             NEW ok, NEW x \in ExtIds \union {NoExt}, NEW status, Reply(a, ok, x, status),
             ok => x = row[a].ext /\ status = row[a].status /\ row[a].claimed
      PROVE  \A b \in Agents : Facts(b)'
  <2>1. Facts(a)'
    <3>1. Answered(a, ok, x, status)
      BY <1>0, <1>3, ReplyAnswers
    <3>2. a \notin overdue'
      BY <1>0, <1>1, <1>3 DEF Facts, FlowFacts
    <3>3. receipts'[a] = receipts[a] /\ note'[a] = note[a] /\ row'[a] = row[a]
      BY <1>1, <1>3
    <3>. QED  BY <1>3, <3>1, <3>2, <3>3, AnswerFacts
  <2>. QED  BY <1>0, <1>2, <1>3, <2>1, ReplyAnswers
<1>4. CASE ClaimDispatch(a)
  <2>1. CASE row[a].status \in {"none", "starting"} /\ ~row[a].claimed
    <3>1. /\ row' = [row EXCEPT ![a].status = "starting", ![a].claimed = TRUE]
          /\ start' = [start EXCEPT ![a] = "answer"] /\ flow' = flow /\ start[a] = "claim"
      BY <1>4, <2>1 DEF ClaimDispatch
    <3>2. /\ row'[a].status = "starting" /\ row'[a].claimed /\ row'[a].ext = row[a].ext
          /\ start'[a] = "answer"
          /\ \A b \in Agents : b # a => start'[b] = start[b]
      BY <1>0, <3>1 DEF HostedTypeOK
    <3>3. receipts[a] = {} /\ note[a] = NoEvent
      BY <1>0, <2>1 DEF Facts, RowFacts, NoteFacts
    <3>4. Facts(a)'
      <4>1. RowFacts(a)'
        BY <1>1, <3>2, <3>3 DEF RowFacts
      <4>2. FlowFacts(a)'
        BY <1>0, <1>1, <3>1, <3>2 DEF Facts, FlowFacts
      <4>3. NoteFacts(a)'
        BY <1>0, <1>1, <3>1, <3>2, <3>3 DEF Facts, NoteFacts, FlowFacts, Ended
      <4>. QED  BY <4>1, <4>2, <4>3 DEF Facts
    <3>. QED  BY <1>2, <3>1, <3>2, <3>4
  <2>2. CASE ~(row[a].status \in {"none", "starting"} /\ ~row[a].claimed)
    <3>1. row[a].claimed
      BY <1>0, <2>2 DEF Facts, RowFacts
    <3>. QED  BY <1>0, <1>3, <1>4, <2>2, <3>1 DEF ClaimDispatch, ReplyError, ReplyRow
  <2>. QED  BY <2>1, <2>2
<1>5. CASE MarkUnknown(a)
  <2>1. /\ start[a] = "answer" /\ start' = [start EXCEPT ![a] = "reload"] /\ flow' = flow
        /\ row' = IF row[a].status = "starting" THEN [row EXCEPT ![a].status = "unknown"] ELSE row
    BY <1>5 DEF MarkUnknown
  <2>2. /\ start'[a] = "reload" /\ \A b \in Agents : b # a => start'[b] = start[b]
        /\ row'[a].claimed = row[a].claimed /\ row'[a].ext = row[a].ext
        /\ row'[a].status = IF row[a].status = "starting" THEN "unknown" ELSE row[a].status
    BY <1>0, <2>1 DEF HostedTypeOK
  <2>3. Facts(a)'
    <3>1. RowFacts(a)'
      BY <1>0, <1>1, <2>1, <2>2 DEF Facts, RowFacts
    <3>2. FlowFacts(a)'
      BY <1>0, <1>1, <2>1, <2>2 DEF Facts, FlowFacts
    <3>3. NoteFacts(a)'
      BY <1>0, <1>1, <2>1, <2>2 DEF Facts, NoteFacts, FlowFacts, Ended
    <3>. QED  BY <3>1, <3>2, <3>3 DEF Facts
  <2>. QED  BY <1>2, <2>1, <2>2, <2>3
<1>6. CASE Reload(a)
  <2>1. row[a].claimed
    BY <1>0, <1>6 DEF Facts, RowFacts, Reload
  <2>. QED  BY <1>0, <1>3, <1>6, <2>1 DEF Reload, ReplyRow
<1>7. CASE MarkRejected(a)
  <2>1. CASE row[a].status \in {"starting", "unknown"}
    <3>1. row' = [row EXCEPT ![a].status = "failed"] /\ start[a] = "answer"
      BY <1>7, <2>1 DEF MarkRejected
    <3>2. row'[a].status = "failed" /\ row'[a].claimed = row[a].claimed /\ row'[a].ext = row[a].ext
      BY <1>0, <3>1
    <3>3. Reply(a, FALSE, NoExt, "none")
      BY <1>7, <3>2 DEF MarkRejected, ReplyError
    <3>4. receipts[a] = {} /\ row[a].claimed
      BY <1>0, <2>1, <3>1 DEF Facts, RowFacts
    <3>5. Facts(a)'
      BY <1>0, <1>1, <2>1, <3>1, <3>2, <3>3, <3>4, ReplyAnswers, AnswerFacts
         DEF Facts, FlowFacts, Ended
    <3>. QED  BY <1>0, <1>2, <3>3, <3>5, ReplyAnswers
  <2>2. CASE row[a].status \notin {"starting", "unknown"}
    <3>1. row[a].claimed
      BY <1>0, <1>7 DEF Facts, RowFacts, MarkRejected
    <3>. QED  BY <1>0, <1>3, <1>7, <2>2, <3>1 DEF MarkRejected, ReplyError, ReplyRow
  <2>. QED  BY <2>1, <2>2
<1>8. ASSUME NEW x \in ExtIds, MarkAccepted(a, x) PROVE \A b \in Agents : Facts(b)'
  <2>. DEFINE s == IF row[a].status \in {"starting", "unknown"} THEN "accepted" ELSE row[a].status
  <2>1. CASE row[a].ext \in {NoExt, x}
    <3>1. /\ row' = [row EXCEPT ![a].ext = x, ![a].status = s] /\ Reply(a, TRUE, x, s)
          /\ start[a] = "answer"
      BY <1>8, <2>1 DEF MarkAccepted
    <3>2. row'[a].status = s /\ row'[a].claimed = row[a].claimed /\ row'[a].ext = x
      BY <1>0, <3>1
    <3>3. row[a].ext = NoExt => receipts[a] = {}
      BY <1>0 DEF Facts, RowFacts, HostedTypeOK, ExtIds
    <3>4. row[a].claimed
      BY <1>0, <3>1 DEF Facts, RowFacts
    <3>5. row[a].status \in {"starting", "unknown"} => receipts[a] = {}
      BY <1>0, <3>1 DEF Facts, RowFacts
    <3>6. Facts(a)'
      <4>1. /\ s = row[a].status \/ (receipts[a] = {} /\ row[a].claimed /\ s = "accepted")
            /\ row[a].status \in Ended => s = row[a].status
            /\ s = "failed" => row[a].status = "failed"
        BY <3>4, <3>5 DEF Ended
      <4>2. x \in ExtIds \union {NoExt} /\ a \notin overdue' /\ start[a] # "over"
        BY <1>0, <1>1, <3>1 DEF Facts, FlowFacts
      <4>3. Answered(a, TRUE, x, s)
        BY <1>0, <3>1, ReplyAnswers
      <4>4. x = row[a].ext \/ (row[a].ext = NoExt /\ row[a].claimed /\ receipts[a] = {})
        BY <2>1, <3>3, <3>4
      <4>. HIDE DEF s
      <4>. QED  BY <1>1, <3>2, <3>4, <4>1, <4>2, <4>3, <4>4, AnswerFacts
    <3>. QED  BY <1>0, <1>2, <3>1, <3>6, ReplyAnswers
  <2>2. CASE row[a].ext \notin {NoExt, x}
    BY <1>0, <1>3, <1>8, <2>2 DEF MarkAccepted, ReplyError
  <2>. QED  BY <2>1, <2>2
<1>9. CASE StartFails(a)
  BY <1>0, <1>3, <1>9 DEF StartFails, ReplyError
<1>. QED  BY <1>4, <1>5, <1>6, <1>7, <1>8, <1>9 DEF StartStep

\* The steps of the workflow, and of the activity of the deadline.
LEMMA WaitFacts ==
  ASSUME HostedInv, NEW a \in Agents,
         Receive(a) \/ Expire(a) \/ MarkTimedOut(a) \/ Interrupt(a) \/ Leave(a)
  PROVE  \A b \in Agents : Facts(b)'
<1>0. HostedTypeOK /\ Facts(a) /\ flow[a] \in FlowType
  BY DEF HostedInv, HostedTypeOK, FlowType
<1>1. UNCHANGED <<receipts, note, start>>
  BY DEF Receive, Expire, MarkTimedOut, TimedOut, Interrupt, Leave, flowElse, table
<1>2. \A b \in Agents : b # a => /\ row'[b] = row[b] /\ flow'[b] = flow[b]
                                 /\ b \in overdue' <=> b \in overdue
  <2>1. (\E at, verdict : Turn(a, at, verdict)) \/ flow' = flow
    BY DEF Receive, Expire, MarkTimedOut, TimedOut, Interrupt, Leave
  <2>2. \A b \in Agents : b # a => flow'[b] = flow[b]
    BY <1>0, <2>1 DEF Turn, HostedTypeOK
  <2>3. \A b \in Agents : b # a => row'[b] = row[b] /\ (b \in overdue' <=> b \in overdue)
    BY <1>0 DEF Receive, Expire, MarkTimedOut, TimedOut, Interrupt, Leave, flowElse, table,
                HostedTypeOK
  <2>. QED  BY <2>2, <2>3
<1>. SUFFICES Facts(a)'
  <2>. SUFFICES ASSUME NEW b \in Agents, b # a, Facts(a)' PROVE Facts(b)'
    OBVIOUS
  <2>. QED  BY <1>1, <1>2, OthersKeep
<1>3. ASSUME NEW at, NEW verdict, Turn(a, at, verdict)
      PROVE  /\ flow'[a].at = at /\ flow'[a].verdict = verdict
             /\ flow'[a].ext = flow[a].ext
  BY <1>0, <1>3 DEF Turn, HostedTypeOK
<1>4. CASE Receive(a)
  <2>1. note[a] # NoEvent /\ UNCHANGED <<row, overdue>> /\ flow[a].at = "wait"
    BY <1>0, <1>4 DEF Receive, HostedTypeOK, Noted, flowElse, table
  <2>2. PICK v : Turn(a, "leave", v)
                 /\ v = IF note[a].kind = "completed" /\ flow[a].ext \in {NoExt, note[a].ext}
                        THEN "ok" ELSE "error"
    BY <1>4 DEF Receive
  <2>3. flow'[a].at = "leave" /\ flow'[a].verdict = v /\ flow'[a].ext = flow[a].ext
    BY <1>3, <2>2
  <2>4. start[a] = "over" /\ a \in overdue => FALSE
    BY <1>0, <2>1 DEF Facts, FlowFacts
  <2>5. RowFacts(a)'
    BY <1>0, <1>1, <2>1, <2>4 DEF Facts, RowFacts, FlowFacts
  <2>6. FlowFacts(a)'
    BY <1>0, <1>1, <2>1, <2>2, <2>3, <2>4 DEF Facts, FlowFacts
  <2>7. NoteFacts(a)'
    BY <1>0, <1>1, <2>1, <2>2, <2>3 DEF Facts, NoteFacts, RowFacts, Ended
  <2>. QED  BY <2>5, <2>6, <2>7 DEF Facts
<1>5. CASE Expire(a)
  <2>1. /\ UNCHANGED row /\ flow[a].at = "wait" /\ overdue' = overdue \union {a}
        /\ flow'[a].at = "expire" /\ flow'[a].verdict = "none"
    BY <1>3, <1>5 DEF Expire, flowElse, table
  <2>2. RowFacts(a)'
    BY <1>0, <1>1, <2>1 DEF Facts, RowFacts, FlowFacts
  <2>3. FlowFacts(a)'
    BY <1>0, <1>1, <2>1 DEF Facts, FlowFacts
  <2>4. NoteFacts(a)'
    BY <1>0, <1>1, <2>1 DEF Facts, NoteFacts
  <2>. QED  BY <2>2, <2>3, <2>4 DEF Facts
<1>6. CASE MarkTimedOut(a)
  <2>1. /\ a \in overdue /\ overdue' = overdue \ {a}
        /\ row' = IF row[a].status \in Ended THEN row ELSE [row EXCEPT ![a].status = "unknown"]
        /\ IF flow[a].at = "expire" THEN Turn(a, "leave", "error") ELSE UNCHANGED flow
    BY <1>6 DEF MarkTimedOut, TimedOut
  <2>2. /\ row'[a].claimed = row[a].claimed /\ row'[a].ext = row[a].ext
        /\ row'[a].status = IF row[a].status \in Ended THEN row[a].status ELSE "unknown"
    BY <1>0, <2>1 DEF HostedTypeOK
  <2>3. flow'[a].verdict = "error" /\ flow'[a].at \in {"leave", "closed"} /\ start[a] = "over"
        /\ (flow[a].at \in {"leave", "closed"} => flow'[a].at \in {"leave", "closed"})
    BY <1>0, <1>3, <2>1 DEF Facts, FlowFacts, FlowType
  <2>4. RowFacts(a)'
    <3>1. row[a].claimed /\ row'[a].claimed
      BY <1>0, <2>1, <2>2 DEF Facts, RowFacts
    <3>2. receipts[a] # {} =>
            \/ row'[a].status \in {"running", "completed", "failed"}
            \/ row'[a].status = "unknown"
      BY <1>0, <2>2 DEF Facts, RowFacts
    <3>. QED  BY <1>0, <1>1, <2>2, <2>3, <3>1, <3>2 DEF Facts, RowFacts
  <2>5. FlowFacts(a)'
    BY <1>0, <1>1, <2>1, <2>3 DEF Facts, FlowFacts
  <2>6. NoteFacts(a)'
    BY <1>0, <1>1, <2>2, <2>3 DEF Facts, NoteFacts, Ended
  <2>. QED  BY <2>4, <2>5, <2>6 DEF Facts
<1>7. CASE Interrupt(a)
  <2>1. /\ UNCHANGED <<row, overdue>> /\ flow[a].at \in {"start", "wait", "expire"}
        /\ flow'[a].at = "leave" /\ flow'[a].verdict = "error"
    BY <1>3, <1>7 DEF Interrupt, flowElse, table
  <2>2. RowFacts(a)'
    BY <1>0, <1>1, <2>1 DEF Facts, RowFacts
  <2>3. FlowFacts(a)'
    BY <1>0, <1>1, <2>1 DEF Facts, FlowFacts
  <2>4. NoteFacts(a)'
    BY <1>0, <1>1, <2>1 DEF Facts, NoteFacts
  <2>. QED  BY <2>2, <2>3, <2>4 DEF Facts
<1>8. CASE Leave(a)
  <2>1. PICK v \in {flow[a].verdict, "error"} : Turn(a, "closed", v)
    BY <1>8 DEF Leave
  <2>2. /\ UNCHANGED <<row, overdue>> /\ flow[a].at = "leave"
        /\ flow'[a].at = "closed" /\ flow'[a].verdict = v /\ flow'[a].ext = flow[a].ext
    BY <1>3, <1>8, <2>1 DEF Leave, flowElse, table
  <2>3. RowFacts(a)'
    BY <1>0, <1>1, <2>1, <2>2 DEF Facts, RowFacts
  <2>4. FlowFacts(a)'
    BY <1>0, <1>1, <2>1, <2>2 DEF Facts, FlowFacts
  <2>5. NoteFacts(a)'
    BY <1>0, <1>1, <2>1, <2>2 DEF Facts, NoteFacts
  <2>. QED  BY <2>3, <2>4, <2>5 DEF Facts
<1>. QED  BY <1>4, <1>5, <1>6, <1>7, <1>8

\* A callback: it ends the execution, adds to it, or repeats what is known.
LEMMA CallbackFacts ==
  ASSUME HostedInv, NEW a \in Agents, NEW e \in Events, Callback(a, e)
  PROVE  \A b \in Agents : Facts(b)'
<1>0. HostedTypeOK /\ Facts(a)
  BY DEF HostedInv
<1>. DEFINE s == IF row[a].status \in Ended THEN row[a].status
                 ELSE IF e.kind = "progress" THEN "running" ELSE e.kind
            new == e.kind \in Ended /\ note[a] = NoEvent
<1>1. /\ row[a].claimed /\ row[a].ext \in {NoExt, e.ext}
      /\ row[a].status \in Ended => e.id \in {f.id : f \in receipts[a]}
      /\ row[a].status \in Ended /\ e.kind \in Ended => e.kind = row[a].status
      /\ \A f \in receipts[a] : f.id # e.id \/ f = e
      /\ UNCHANGED <<start, flow, overdue>>
  BY DEF Callback
<1>2. /\ row'[a].status = s /\ row'[a].claimed = row[a].claimed /\ row'[a].ext = e.ext
      /\ \A b \in Agents : b # a => row'[b] = row[b]
  <2>1. row' = [row EXCEPT ![a].ext = e.ext, ![a].status = s]
    BY DEF Callback
  <2>. HIDE DEF s
  <2>. QED  BY <1>0, <2>1 DEF HostedTypeOK
<1>3. /\ receipts'[a] = receipts[a] \union {e}
      /\ note'[a] = IF new THEN e ELSE note[a]
      /\ \A b \in Agents : b # a => receipts'[b] = receipts[b] /\ note'[b] = note[b]
  BY <1>0 DEF Callback, HostedTypeOK
<1>4. e.kind \in Kinds /\ e.ext \in ExtIds /\ e.ext # NoExt /\ e # NoEvent
  BY DEF ExtIds
<1>5. s \in {"running", "completed", "failed"} /\ (s \in Ended => e.kind \in Ended \/ s = row[a].status)
  BY <1>4 DEF Kinds, Ended
<1>6. row[a].status \in Ended => e \in receipts[a]
  BY <1>1
<1>. SUFFICES Facts(a)'
  BY <1>1, <1>2, <1>3, OthersKeep
<1>7. RowFacts(a)'
  <2>1. \A f \in receipts'[a] : f.ext = row'[a].ext
    BY <1>0, <1>1, <1>2, <1>3 DEF Facts, RowFacts, HostedTypeOK, ExtIds
  <2>2. \A f, g \in receipts'[a] : f.id = g.id => f = g
    BY <1>0, <1>1, <1>3 DEF Facts, RowFacts
  <2>3. row'[a].claimed /\ row'[a].status \in {"running", "completed", "failed"}
    BY <1>1, <1>2, <1>5
  <2>4. start'[a] # "claim"
    BY <1>0, <1>1 DEF Facts, RowFacts
  <2>. QED  BY <2>1, <2>2, <2>3, <2>4 DEF RowFacts
<1>8. FlowFacts(a)'
  BY <1>0, <1>1 DEF Facts, FlowFacts
<1>9. NoteFacts(a)'
  <2>1. CASE row[a].status \in Ended
    <3>1. note[a] # NoEvent
      BY <1>0, <1>6, <2>1 DEF Facts, NoteFacts
    <3>2. note'[a] = note[a] /\ row'[a].status = row[a].status
      BY <1>2, <1>3, <2>1, <3>1
    <3>3. row'[a].ext = row[a].ext
      BY <1>0, <1>2, <1>6, <2>1 DEF Facts, RowFacts
    <3>. QED  BY <1>0, <1>1, <1>3, <2>1, <3>1, <3>2, <3>3 DEF Facts, NoteFacts
  <2>2. CASE row[a].status \notin Ended
    <3>1. note[a] = NoEvent /\ flow[a].verdict # "ok"
      BY <1>0, <2>2 DEF Facts, NoteFacts, Ended
    <3>2. s = IF e.kind = "progress" THEN "running" ELSE e.kind
      BY <2>2
    <3>3. note'[a] = (IF e.kind \in Ended THEN e ELSE NoEvent)
      BY <1>3, <3>1
    <3>. QED  BY <1>1, <1>2, <1>3, <1>4, <3>1, <3>2, <3>3 DEF NoteFacts, Kinds, Ended
  <2>. QED  BY <2>1, <2>2
<1>. QED  BY <1>7, <1>8, <1>9 DEF Facts

\* Every step keeps the facts of every agent.
LEMMA StepFacts == ASSUME HostedInv, [Next]_vars PROVE \A a \in Agents : Facts(a)'
<1>1. CASE UNCHANGED vars
  BY <1>1, OthersKeep DEF vars, table
<1>2. ASSUME NEW d \in Deliverers, Deliver(d) \/ StopDelivery(d)
      PROVE  \A a \in Agents : Facts(a)'
  <2>1. UNCHANGED <<row, receipts, note, start, flow, overdue>>
    BY <1>2 DEF Deliver, ListPending, Signal, MarkDelivered, StopDelivery, table
  <2>. QED  BY <2>1, OthersKeep
<1>. QED  BY <1>1, <1>2, StartFacts, WaitFacts, CallbackFacts DEF Next

\* The inductive invariant of rows, receipts, notifications and workflows.
THEOREM HostedInvariant == Spec => []HostedInv
<1>1. HostedInv /\ [Next]_vars => HostedInv'
  BY StepType, StepFacts DEF HostedInv
<1>. QED  BY <1>1, InitInv, PTL DEF Spec

-----------------------------------------------------------------------------
(* Results *)

\* The state of every table, activity, workflow and delivery always has its type.
THEOREM HostedTypes == Spec => []HostedTypeOK
<1>1. HostedInv => HostedTypeOK
  BY DEF HostedInv
<1>. QED  BY <1>1, HostedInvariant, PTL

\* All receipts of an agent come from the remote run its row names (the guards on
\* external_run_id of CommitHostedCallback and MarkHostedRunExecutionAccepted).
THEOREM OneIdentity == Spec => []EvidenceHasOneIdentity
<1>1. HostedInv => EvidenceHasOneIdentity
  BY DEF HostedInv, Facts, RowFacts, EvidenceHasOneIdentity
<1>. QED  BY <1>1, HostedInvariant, PTL

\* No answer to the POST undoes a committed callback (the status conditions of
\* hosted_run_executions.sql).
THEOREM EvidenceStays == Spec => []EvidenceOutlivesDispatch
<1>1. HostedInv => EvidenceOutlivesDispatch
  BY DEF HostedInv, Facts, RowFacts, EvidenceOutlivesDispatch
<1>. QED  BY <1>1, HostedInvariant, PTL

\* An agent is evaluated only on a completion that is in the tables and comes from
\* the run it was told about (waitForHostedRunTerminalEvent).
THEOREM SuccessHasEvidence == Spec => []SuccessIsRecorded
<1>1. HostedInv => SuccessIsRecorded
  <2>. SUFFICES ASSUME HostedInv, NEW a \in Agents, flow[a].verdict = "ok"
                PROVE  /\ row[a].status = "completed"
                       /\ \E e \in receipts[a] : e.kind = "completed"
                       /\ flow[a].ext \in {NoExt, row[a].ext}
    BY DEF SuccessIsRecorded
  <2>1. row[a].status = "completed" /\ flow[a].ext \in {NoExt, row[a].ext}
    BY DEF HostedInv, Facts, NoteFacts
  <2>2. note[a] \in receipts[a] /\ note[a].kind = "completed"
    BY <2>1 DEF HostedInv, Facts, NoteFacts, Ended
  <2>. QED  BY <2>1, <2>2
<1>. QED  BY <1>1, HostedInvariant, PTL

\* Row and notification agree, and no workflow waits for an end nobody will report.
THEOREM NotificationsAreTrue == Spec => []NotificationsAgree
<1>1. HostedInv => NotificationsAgree
  BY DEF HostedInv, Facts, NoteFacts, NotificationsAgree
<1>. QED  BY <1>1, HostedInvariant, PTL

-----------------------------------------------------------------------------
(* Refinement *)

\* How one agent's record maps.
LEMMA OneAgent ==
  ASSUME HostedTypeOK, HostedTypeOK', NEW a \in Agents,
         \A b \in Agents : b # a => row'[b] = row[b] /\ receipts'[b] = receipts[b]
  PROVE  /\ Outcome' = [Outcome EXCEPT ![a] =
                          IF row'[a].status \in Ended THEN row'[a].status ELSE "open"]
         /\ Identity' = [Identity EXCEPT ![a] = row'[a].ext]
         /\ receipts' = [receipts EXCEPT ![a] = receipts'[a]]
<1>. DEFINE end == IF row'[a].status \in Ended THEN row'[a].status ELSE "open"
<1>1. Outcome' = [b \in Agents |-> IF row'[b].status \in Ended THEN row'[b].status ELSE "open"]
  BY DEF Outcome
<1>2. Outcome' = [Outcome EXCEPT ![a] = end]
  <2>1. \A b \in Agents : Outcome'[b] = IF b = a THEN end ELSE Outcome[b]
    BY <1>1 DEF Outcome
  <2>. HIDE DEF end
  <2>. QED  BY <1>1, <2>1 DEF Outcome
<1>3. Identity' = [Identity EXCEPT ![a] = row'[a].ext]
  BY DEF Identity
<1>4. receipts' = [receipts EXCEPT ![a] = receipts'[a]]
  BY DEF HostedTypeOK
<1>. QED  BY <1>2, <1>3, <1>4

\* A step of the activity, the workflow or the deadline that keeps the name of
\* the remote run and its end is a stutter of the record.
LEMMA RecordKept ==
  ASSUME HostedTypeOK, HostedTypeOK', UNCHANGED receipts,
         \A b \in Agents :
           /\ row'[b].ext = row[b].ext
           /\ \/ row'[b].status = row[b].status
              \/ row[b].status \notin Ended /\ row'[b].status \notin Ended
  PROVE  UNCHANGED <<Outcome, Identity, receipts>>
<1>1. Outcome' = [b \in Agents |-> IF row'[b].status \in Ended THEN row'[b].status ELSE "open"]
      /\ Identity' = [b \in Agents |-> row'[b].ext]
  BY DEF Outcome, Identity
<1>2. \A b \in Agents : (IF row'[b].status \in Ended THEN row'[b].status ELSE "open")
                         = (IF row[b].status \in Ended THEN row[b].status ELSE "open")
  OBVIOUS
<1>3. Outcome' = Outcome
  BY <1>1, <1>2 DEF Outcome
<1>4. Identity' = Identity
  BY <1>1 DEF Identity
<1>. QED  BY <1>3, <1>4

\* The steps of the dispatch name or refuse the run, or leave the record alone.
LEMMA DispatchRecord ==
  ASSUME HostedInv, HostedTypeOK', NEW a \in Agents, StartStep(a) \/ StartFails(a)
  PROVE  [Execution!ExecutionNext]_<<Outcome, Identity, receipts>>
<1>0. /\ HostedTypeOK /\ RowFacts(a) /\ UNCHANGED receipts /\ row \in [Agents -> RowType]
      /\ \A b \in Agents : b # a => row'[b] = row[b]
  BY DEF HostedInv, Facts, HostedTypeOK, RowType, StartStep, StartFails, ClaimDispatch, MarkUnknown,
         Reload, MarkRejected, MarkAccepted, dispatchElse
<1>1. CASE ClaimDispatch(a) \/ MarkUnknown(a) \/ Reload(a) \/ StartFails(a)
  <2>1. /\ row'[a].ext = row[a].ext
        /\ \/ row'[a].status = row[a].status
           \/ row[a].status \notin Ended /\ row'[a].status \notin Ended
    BY <1>0, <1>1 DEF ClaimDispatch, MarkUnknown, Reload, StartFails, HostedTypeOK, Ended
  <2>. QED  BY <1>0, <2>1, RecordKept
<1>2. CASE MarkRejected(a)
  <2>1. CASE row[a].status \in {"starting", "unknown"}
    <3>1. row'[a].status = "failed" /\ row'[a].ext = row[a].ext
      BY <1>0, <1>2, <2>1 DEF MarkRejected
    <3>2. receipts[a] = {}
      BY <1>0, <1>2, <2>1 DEF MarkRejected, RowFacts
    <3>3. Outcome[a] = "open" /\ Outcome' = [Outcome EXCEPT ![a] = "failed"]
      BY <1>0, <2>1, <3>1, OneAgent DEF Outcome, Ended
    <3>4. UNCHANGED <<Identity, receipts>>
      BY <1>0, <3>1 DEF Identity
    <3>5. Execution!Refuse(a)
      BY <3>2, <3>3, <3>4 DEF Execution!Refuse
    <3>. QED  BY <3>5 DEF Execution!ExecutionNext
  <2>2. CASE row[a].status \notin {"starting", "unknown"}
    <3>1. UNCHANGED row
      BY <1>2, <2>2 DEF MarkRejected
    <3>. QED  BY <1>0, <3>1, RecordKept
  <2>. QED  BY <2>1, <2>2
<1>3. ASSUME NEW x \in ExtIds, MarkAccepted(a, x)
      PROVE  [Execution!ExecutionNext]_<<Outcome, Identity, receipts>>
  <2>. DEFINE s == IF row[a].status \in {"starting", "unknown"} THEN "accepted" ELSE row[a].status
  <2>1. CASE row[a].ext \in {NoExt, x}
    <3>1. row' = [row EXCEPT ![a].ext = x, ![a].status = s]
      BY <1>3, <2>1 DEF MarkAccepted
    <3>2. /\ row'[a].ext = x
          /\ \/ row'[a].status = row[a].status
             \/ row[a].status \notin Ended /\ row'[a].status \notin Ended
      <4>1. s = row[a].status \/ (row[a].status \notin Ended /\ s \notin Ended)
        BY DEF Ended
      <4>. HIDE DEF s
      <4>. QED  BY <1>0, <3>1, <4>1
    <3>3. CASE row[a].ext = x
      BY <1>0, <3>2, <3>3, RecordKept
    <3>4. CASE row[a].ext = NoExt
      <4>1. UNCHANGED <<Outcome, receipts>>
        BY <1>0, <3>2 DEF Outcome
      <4>2. Identity[a] = NoExt /\ Identity' = [Identity EXCEPT ![a] = x]
        BY <1>0, <3>2, <3>4, OneAgent DEF Identity
      <4>3. PICK e \in Events : e.ext = x
        BY DEF ExtIds
      <4>4. Execution!Name(a, e.ext)
        BY <4>1, <4>2, <4>3 DEF Execution!Name
      <4>. QED  BY <4>4 DEF Execution!ExecutionNext
    <3>. QED  BY <2>1, <3>3, <3>4
  <2>2. CASE row[a].ext \notin {NoExt, x}
    <3>1. UNCHANGED row
      BY <1>3, <2>2 DEF MarkAccepted
    <3>. QED  BY <1>0, <3>1, RecordKept
  <2>. QED  BY <2>1, <2>2
<1>. QED  BY <1>1, <1>2, <1>3 DEF StartStep

\* A callback that is committed reports on the run, or repeats a report.
LEMMA CallbackRecord ==
  ASSUME HostedInv, HostedTypeOK', NEW a \in Agents, NEW e \in Events, Callback(a, e)
  PROVE  [Execution!ExecutionNext]_<<Outcome, Identity, receipts>>
<1>. DEFINE s == IF row[a].status \in Ended THEN row[a].status
                 ELSE IF e.kind = "progress" THEN "running" ELSE e.kind
<1>0. HostedTypeOK /\ RowFacts(a) /\ e.kind \in Kinds
  BY DEF HostedInv, Facts
<1>1. /\ row[a].ext \in {NoExt, e.ext}
      /\ row[a].status \in Ended => e.id \in {f.id : f \in receipts[a]}
      /\ \A f \in receipts[a] : f.id # e.id \/ f = e
  BY DEF Callback
<1>2. /\ row'[a].status = s /\ row'[a].ext = e.ext
      /\ \A b \in Agents : b # a => row'[b] = row[b]
  <2>1. row' = [row EXCEPT ![a].ext = e.ext, ![a].status = s]
    BY DEF Callback
  <2>. HIDE DEF s
  <2>. QED  BY <1>0, <2>1 DEF HostedTypeOK
<1>3. receipts' = [receipts EXCEPT ![a] = @ \union {e}]
  BY DEF Callback
<1>4. CASE row[a].status \in Ended
  <2>1. e \in receipts[a] /\ row[a].ext = e.ext
    BY <1>0, <1>1, <1>4 DEF RowFacts
  <2>2. UNCHANGED receipts
    BY <1>0, <1>3, <2>1 DEF HostedTypeOK
  <2>3. row'[a].ext = row[a].ext /\ row'[a].status = row[a].status
    BY <1>2, <1>4, <2>1
  <2>. QED  BY <1>0, <1>2, <2>2, <2>3, RecordKept
<1>5. CASE row[a].status \notin Ended
  <2>1. Outcome[a] = "open" /\ Identity[a] = row[a].ext
    BY <1>5 DEF Outcome, Identity
  <2>2. Identity' = [Identity EXCEPT ![a] = e.ext]
    BY <1>2, <1>0, <1>3, OneAgent DEF HostedTypeOK
  <2>3. Outcome' = [Outcome EXCEPT ![a] =
                      IF e.kind \in {"completed", "failed"} THEN e.kind ELSE @]
    <3>1. (IF row'[a].status \in Ended THEN row'[a].status ELSE "open")
             = IF e.kind \in {"completed", "failed"} THEN e.kind ELSE "open"
      BY <1>0, <1>2, <1>5 DEF Kinds, Ended
    <3>2. \A b \in Agents : b # a => row'[b] = row[b] /\ receipts'[b] = receipts[b]
      BY <1>0, <1>2, <1>3 DEF HostedTypeOK
    <3>3. Outcome' = [Outcome EXCEPT ![a] =
                        IF row'[a].status \in Ended THEN row'[a].status ELSE "open"]
      BY <1>0, <3>2, OneAgent
    <3>. QED  BY <2>1, <3>1, <3>3
  <2>4. Execution!Report(a, e)
    BY <1>1, <1>3, <2>1, <2>2, <2>3 DEF Execution!Report
  <2>. QED  BY <2>4 DEF Execution!ExecutionNext
<1>. QED  BY <1>4, <1>5

\* The rows and receipts of hosted runs keep the promises of HostedExecution: one
\* end, which is final, one remote run, and no completion without evidence.
THEOREM ImplementsHostedExecution == Spec => ImplementsExecution
<1>1. Init => Execution!ExecutionInit
  BY DEF Init, Execution!ExecutionInit, Outcome, Identity, Ended
<1>2. ASSUME HostedInv, HostedTypeOK', [Next]_vars
      PROVE  [Execution!ExecutionNext]_<<Outcome, Identity, receipts>>
  <2>1. ASSUME NEW a \in Agents, Receive(a) \/ Expire(a) \/ Interrupt(a) \/ Leave(a)
        PROVE  UNCHANGED <<Outcome, Identity, receipts>>
    BY <2>1 DEF Receive, Expire, Interrupt, Leave, flowElse, table, Outcome, Identity
  <2>2. ASSUME NEW a \in Agents, MarkTimedOut(a)
        PROVE  UNCHANGED <<Outcome, Identity, receipts>>
    BY <1>2, <2>2, RecordKept DEF MarkTimedOut, TimedOut, HostedInv, HostedTypeOK, Ended
  <2>3. ASSUME NEW d \in Deliverers, Deliver(d) \/ StopDelivery(d)
        PROVE  UNCHANGED <<Outcome, Identity, receipts>>
    BY <2>3 DEF Deliver, ListPending, Signal, MarkDelivered, StopDelivery, table, Outcome, Identity
  <2>4. CASE UNCHANGED vars
    BY <2>4 DEF vars, table, Outcome, Identity
  <2>. QED  BY <1>2, <2>1, <2>2, <2>3, <2>4, DispatchRecord, CallbackRecord DEF Next
<1>3. HostedInv => HostedTypeOK
  BY DEF HostedInv
<1>. QED  BY <1>1, <1>2, <1>3, HostedInvariant, PTL
          DEF Spec, ImplementsExecution, Execution!ExecutionSpec, Execution!executionVars
-----------------------------------------------------------------------------
(* No signal is lost, nobody is stuck, everybody winds down *)

\* The queue of notifications: created_at tells its entries apart, and whoever has
\* signalled the head of its batch has signalled what it will mark as delivered.
Queue ==
  /\ \A a \in Noted : created[a] \in 1..Cardinality(Noted)
  /\ \A a, b \in Noted : created[a] = created[b] => a = b
  /\ \A d \in sent : batch[d] # {} /\ \A a \in batch[d] : First(d, a) => a \in signalled
  /\ delivered \subseteq signalled

\* What a workflow waits for will come: its activity runs, or its deadline does.
Awaited ==
  \A a \in Agents : /\ flow[a].at = "start" => start[a] # "over"
                    /\ flow[a].at = "expire" => a \in overdue

\* A workflow that waits although its deployment has reported an end has the
\* signal in its channel or a notification that is still to be delivered: none is
\* marked as delivered that was not signalled (DeliverPending, after a crash between
\* signal and mark as well).
NoSignalLost ==
  /\ delivered \subseteq signalled
  /\ \A a \in Agents : flow[a].at = "wait" /\ note[a] # NoEvent =>
                         a \in signalled \/ a \in Undelivered

\* An agent can go on by itself, or a deliverer can.
AgentCanMove(a) ==
  \/ start[a] # "over" \/ a \in overdue \/ flow[a].at = "leave"
  \/ flow[a].at = "wait" /\ (a \in signalled \/ note[a] = NoEvent)

DelivererCanMove(d) == batch[d] = {} \/ \E a \in batch[d] : First(d, a)

\* An agent that is not closed can go on, or is in the queue, which every deliverer
\* can read or work off.
HostedNeverStuck ==
  \A a \in Agents :
    flow[a].at # "closed" =>
      AgentCanMove(a) \/ (a \in Undelivered /\ \A d \in Deliverers : DelivererCanMove(d))

\* The steps of the activity and of the workflow, counted from the end.
StartLeft(a) ==
  CASE start[a] = "claim" -> 3 [] start[a] = "answer" -> 2 [] start[a] = "reload" -> 1
    [] start[a] = "over" -> 0

FlowLeft(a) ==
  CASE flow[a].at = "start" -> 4 [] flow[a].at = "wait" -> 3 [] flow[a].at = "expire" -> 2
    [] flow[a].at = "leave" -> 1 [] flow[a].at = "closed" -> 0

AgentWork(a) == 2 * FlowLeft(a) + StartLeft(a) + (IF a \in overdue THEN 1 ELSE 0)

Moves(a) ==
  start'[a] # start[a] \/ flow'[a] # flow[a] \/ ~(a \in overdue' <=> a \in overdue)

\* Every step of an agent's activity, workflow or deadline brings the agent closer to
\* its end, and no callback or delivery sets it back.
AgentsWind ==
  /\ [](\A a \in Agents : AgentWork(a) \in 0..12)
  /\ [][\A a \in Agents : Moves(a) => AgentWork(a)' < AgentWork(a)]_vars

\* The steps of the agents leave the queue alone, and can only make a signal known.
LEMMA QueueKept ==
  ASSUME HostedTypeOK, Queue, UNCHANGED <<note, created, delivered, signalled, batch, sent>>
  PROVE  Queue'
BY DEF Queue, Noted, First

\* A committed notification is the youngest.
LEMMA CallbackQueue ==
  ASSUME HostedTypeOK, Queue, NEW a \in Agents, NEW e \in Events, Callback(a, e)
  PROVE  Queue'
<1>. USE DEF HostedTypeOK
<1>1. UNCHANGED <<delivered, signalled, batch, sent>>
  BY DEF Callback
<1>2. CASE UNCHANGED <<note, created>>
  BY <1>1, <1>2, QueueKept
<1>3. CASE note' = [note EXCEPT ![a] = e] /\ note[a] = NoEvent
           /\ created' = [created EXCEPT ![a] = Cardinality(Noted) + 1]
  <2>1. e # NoEvent
    OBVIOUS
  <2>2. Noted' = Noted \union {a} /\ a \notin Noted
    BY <1>3, <2>1 DEF Noted
  <2>3. IsFiniteSet(Noted) /\ Cardinality(Noted) \in Nat
    BY FS_Subset, FS_CardinalityType DEF Noted
  <2>4. Cardinality(Noted') = Cardinality(Noted) + 1
    BY <2>2, <2>3, FS_AddElement
  <2>5. PICK n \in Nat : n = Cardinality(Noted)
    BY <2>3
  <2>6. created'[a] = n + 1 /\ \A b \in Noted : created'[b] = created[b] /\ created[b] \in 1..n
    BY <1>3, <2>2, <2>5 DEF Queue, Noted
  <2>7. \A b \in Noted' : created'[b] \in 1..Cardinality(Noted')
    BY <2>2, <2>4, <2>5, <2>6
  <2>8. \A b, c \in Noted' : created'[b] = created'[c] => b = c
    BY <2>2, <2>5, <2>6 DEF Queue
  <2>9. \A d \in sent' : batch'[d] # {} /\ \A b \in batch'[d] : First(d, b)' => b \in signalled'
    <3>1. \A d \in Deliverers : \A b \in batch[d] : First(d, b)' => First(d, b)
      BY <1>1, <2>6 DEF First
    <3>. QED  BY <1>1, <3>1 DEF Queue
  <2>. QED  BY <1>1, <2>7, <2>8, <2>9 DEF Queue
<1>. QED  BY <1>2, <1>3 DEF Callback

\* Deliverers mark only what they have signalled.
LEMMA DeliverQueue ==
  ASSUME HostedTypeOK, Queue, NEW d \in Deliverers, Deliver(d) \/ StopDelivery(d)
  PROVE  Queue'
<1>. USE DEF HostedTypeOK
<1>1. UNCHANGED <<note, created, Noted>> /\ \A c \in Deliverers \ {d} : batch'[c] = batch[c]
  BY DEF Deliver, ListPending, Signal, MarkDelivered, StopDelivery, table, Noted
<1>2. \A c \in Deliverers \ {d} : \A a : First(c, a)' <=> First(c, a)
  BY <1>1 DEF First
<1>3. ASSUME signalled \subseteq signalled', delivered' \subseteq signalled', sent' \subseteq sent \union {d},
             d \in sent' => batch'[d] # {} /\ \A a \in batch'[d] : First(d, a)' => a \in signalled'
      PROVE  Queue'
  <2>1. \A c \in sent' : batch'[c] # {} /\ \A a \in batch'[c] : First(c, a)' => a \in signalled'
    BY <1>1, <1>2, <1>3 DEF Queue
  <2>. QED  BY <1>1, <1>3, <2>1 DEF Queue
<1>4. CASE ListPending(d)
  <2>1. d \notin sent' /\ UNCHANGED <<signalled, delivered, sent>>
    BY <1>4 DEF ListPending, Queue
  <2>. QED  BY <1>3, <2>1 DEF Queue
<1>5. ASSUME NEW a \in batch[d], Signal(d, a) PROVE Queue'
  <2>1. CASE flow[a].at = "closed"
    BY <1>3, <1>5, <2>1 DEF Signal, Queue
  <2>2. CASE flow[a].at # "closed"
    <3>1. /\ signalled' = signalled \union {a} /\ sent' = sent \union {d}
          /\ UNCHANGED <<batch, created, delivered>> /\ First(d, a)
      BY <1>5, <2>2 DEF Signal, table
    <3>2. \A b \in batch'[d] : First(d, b)' => b = a
      <4>1. batch[d] \subseteq Noted /\ Noted \subseteq Agents
        BY DEF Noted
      <4>2. ASSUME NEW b \in batch[d], created[b] <= created[a], created[a] <= created[b]
            PROVE  b = a
        <5>1. a \in Noted /\ b \in Noted /\ created[a] \in Nat /\ created[b] \in Nat
          BY <4>1
        <5>2. PICK m \in Nat, n \in Nat : m = created[a] /\ n = created[b]
          BY <5>1
        <5>3. n <= m /\ m <= n
          BY <4>2, <5>2
        <5>4. m = n
          BY <5>3
        <5>. QED  BY <5>1, <5>2, <5>4 DEF Queue
      <4>. QED  BY <3>1, <4>2 DEF First
    <3>3. delivered' \subseteq signalled' /\ batch'[d] # {} /\ signalled \subseteq signalled'
      BY <3>1 DEF Queue
    <3>. QED  BY <1>3, <3>1, <3>2, <3>3
  <2>. QED  BY <2>1, <2>2
<1>6. ASSUME NEW a \in batch[d], MarkDelivered(d, a) PROVE Queue'
  BY <1>3, <1>6 DEF MarkDelivered, Queue
<1>7. CASE StopDelivery(d)
  BY <1>3, <1>7 DEF StopDelivery, Queue
<1>. QED  BY <1>4, <1>5, <1>6, <1>7 DEF Deliver

\* How a step leaves agent b: nearer to its end if it moved, and not waiting in vain.
Advances(b) ==
  /\ flow'[b].at = "start" => start'[b] # "over"
  /\ flow'[b].at = "expire" => b \in overdue'
  /\ Moves(b) => AgentWork(b)' < AgentWork(b)

\* The start and the expiry of a workflow are only left by their activities' ends.
LEMMA AwaitedKept ==
  ASSUME HostedTypeOK, Awaited, NEW a \in Agents, NEW b \in Agents,
         \/ StartStep(a) \/ StartFails(a) \/ Receive(a) \/ Expire(a) \/ MarkTimedOut(a)
         \/ Interrupt(a) \/ Leave(a)
  PROVE  /\ UNCHANGED <<note, created, delivered, signalled, batch, sent>>
         /\ Advances(b)
<1>. USE DEF HostedTypeOK
<1>0. UNCHANGED <<note, created, delivered, signalled, batch, sent>>
  BY DEF StartStep, StartFails, ClaimDispatch, MarkUnknown, Reload, MarkRejected, MarkAccepted,
         Receive, Expire, MarkTimedOut, TimedOut, Interrupt, Leave, dispatchElse, flowElse, table
<1>. SUFFICES Advances(b)
  BY <1>0
<1>1. ASSUME start'[b] = start[b], flow'[b] = flow[b], b \in overdue' <=> b \in overdue PROVE Advances(b)
  BY <1>1 DEF Awaited, Moves, Advances
<1>2. ASSUME start[a] # "over", UNCHANGED overdue, NEW ok, NEW x, NEW status,
             Reply(a, ok, x, status)
      PROVE  Advances(b)
  <2>1. Answered(a, ok, x, status) /\ (b # a => start'[b] = start[b] /\ flow'[b] = flow[b])
    BY <1>2, ReplyAnswers
  <2>2. CASE b # a
    BY <1>1, <1>2, <2>1, <2>2
  <2>3. CASE b = a
    <3>1. start'[b] = "over" /\ flow'[b].at # "start"
          /\ (flow'[b] = flow[b] \/ (flow[b].at = "start" /\ flow'[b].at \in {"leave", "wait"}))
      BY <2>1, <2>3 DEF Answered
    <3>2. FlowLeft(b)' <= FlowLeft(b) /\ FlowLeft(b) \in 0..4 /\ FlowLeft(b)' \in 0..4
      BY <3>1 DEF FlowLeft
    <3>3. StartLeft(b)' = 0 /\ StartLeft(b) \in 1..3
      BY <1>2, <2>3, <3>1 DEF StartLeft
    <3>4. AgentWork(b)' < AgentWork(b)
      BY <1>2, <3>2, <3>3 DEF AgentWork
    <3>. QED  BY <1>2, <3>1, <3>4 DEF Awaited, Advances
  <2>. QED  BY <2>2, <2>3
<1>3. CASE ClaimDispatch(a) \/ MarkUnknown(a)
  <2>1. CASE /\ start[a] # "over" /\ UNCHANGED <<flow, overdue>>
             /\ \/ start[a] = "claim" /\ start' = [start EXCEPT ![a] = "answer"]
                \/ start[a] = "answer" /\ start' = [start EXCEPT ![a] = "reload"]
    <3>1. CASE b # a
      BY <1>1, <2>1, <3>1
    <3>2. CASE b = a
      <4>1. FlowLeft(b)' = FlowLeft(b) /\ FlowLeft(b) \in 0..4
        BY <2>1 DEF FlowLeft
      <4>2. StartLeft(b)' = StartLeft(b) - 1 /\ StartLeft(b) \in 2..3
        BY <2>1, <3>2 DEF StartLeft
      <4>3. AgentWork(b)' < AgentWork(b)
        BY <2>1, <4>1, <4>2 DEF AgentWork
      <4>. QED  BY <2>1, <3>2, <4>3 DEF Awaited, Advances
    <3>. QED  BY <3>1, <3>2
  <2>. QED  BY <1>2, <1>3, <2>1 DEF ClaimDispatch, MarkUnknown, ReplyError, ReplyRow, dispatchElse
<1>4. CASE Reload(a) \/ MarkRejected(a) \/ StartFails(a) \/ \E x \in ExtIds : MarkAccepted(a, x)
  <2>1. CASE MarkRejected(a)
    BY <1>2, <2>1 DEF MarkRejected, ReplyError, ReplyRow, dispatchElse
  <2>2. ASSUME NEW x \in ExtIds, MarkAccepted(a, x) PROVE Advances(b)
    BY <1>2, <2>2 DEF MarkAccepted, ReplyError, dispatchElse
  <2>. QED  BY <1>2, <1>4, <2>1, <2>2 DEF Reload, StartFails, ReplyError, ReplyRow, dispatchElse
<1>5. ASSUME start' = start, NEW at \in {"expire", "leave", "closed"}, NEW verdict, Turn(a, at, verdict),
             \/ flow[a].at = "wait" /\ at = "expire" /\ overdue' = overdue \union {a}
             \/ flow[a].at \in {"start", "wait", "expire"} /\ at = "leave" /\ overdue' = overdue
             \/ flow[a].at = "expire" /\ at = "leave" /\ a \in overdue /\ overdue' = overdue \ {a}
             \/ flow[a].at = "leave" /\ at = "closed" /\ overdue' = overdue
      PROVE  Advances(b)
  <2>1. flow'[a].at = at /\ \A c \in Agents \ {a} : flow'[c] = flow[c]
    BY <1>5 DEF Turn
  <2>2. CASE b # a
    BY <1>1, <1>5, <2>1, <2>2
  <2>3. CASE b = a
    <3>1. StartLeft(b)' = StartLeft(b) /\ StartLeft(b) \in 0..3
      BY <1>5 DEF StartLeft
    <3>2. FlowLeft(b) \in 0..4 /\ FlowLeft(b)' < FlowLeft(b) /\ FlowLeft(b)' \in 0..4
      BY <1>5, <2>1, <2>3 DEF FlowLeft
    <3>3. AgentWork(b)' < AgentWork(b)
      BY <3>1, <3>2 DEF AgentWork
    <3>. QED  BY <1>5, <2>1, <2>3, <3>3 DEF Advances
  <2>. QED  BY <2>2, <2>3
<1>6. CASE Receive(a) \/ Expire(a) \/ Interrupt(a) \/ Leave(a)
  <2>1. CASE Receive(a) \/ Expire(a) \/ Interrupt(a)
    BY <1>5, <2>1 DEF Receive, Expire, Interrupt, flowElse
  <2>2. CASE Leave(a)
    <3>1. PICK v : flow[a].at = "leave" /\ Turn(a, "closed", v) /\ UNCHANGED <<start, overdue>>
      BY <2>2 DEF Leave, flowElse
    <3>. QED  BY <1>5, <3>1
  <2>. QED  BY <1>6, <2>1, <2>2
<1>7. CASE MarkTimedOut(a)
  <2>1. CASE flow[a].at = "expire"
    BY <1>5, <1>7, <2>1 DEF MarkTimedOut, TimedOut
  <2>2. CASE flow[a].at # "expire"
    <3>1. a \in overdue /\ UNCHANGED <<start, flow>> /\ overdue' = overdue \ {a}
      BY <1>7, <2>2 DEF MarkTimedOut, TimedOut
    <3>2. CASE b # a
      BY <1>1, <3>1, <3>2
    <3>3. CASE b = a
      <4>1. /\ StartLeft(b)' = StartLeft(b) /\ StartLeft(b) \in 0..3
            /\ FlowLeft(b)' = FlowLeft(b) /\ FlowLeft(b) \in 0..4
        BY <3>1 DEF StartLeft, FlowLeft
      <4>2. AgentWork(b)' < AgentWork(b)
        BY <3>1, <3>3, <4>1 DEF AgentWork
      <4>. QED  BY <2>2, <3>1, <3>3, <4>2 DEF Awaited, Advances
    <3>. QED  BY <3>2, <3>3
  <2>. QED  BY <2>1, <2>2
<1>. QED  BY <1>3, <1>4, <1>6, <1>7 DEF StartStep

\* Callbacks and deliveries leave workflows and activities alone.
LEMMA OthersAdvance ==
  ASSUME HostedTypeOK, Awaited, UNCHANGED <<start, flow, overdue>>, NEW b \in Agents
  PROVE  Advances(b)
BY DEF Advances, Awaited, Moves

\* What the steps of the agents and of the deliverers keep together.
LEMMA QueueAndWork ==
  ASSUME HostedTypeOK, Queue, Awaited, [Next]_vars
  PROVE  Queue' /\ \A b \in Agents : Advances(b)
<1>1. CASE UNCHANGED vars
  BY <1>1, QueueKept, OthersAdvance DEF vars, table
<1>2. ASSUME NEW a \in Agents,
             \/ StartStep(a) \/ StartFails(a) \/ Receive(a) \/ Expire(a) \/ MarkTimedOut(a)
             \/ Interrupt(a) \/ Leave(a)
      PROVE  Queue' /\ \A b \in Agents : Advances(b)
  BY <1>2, QueueKept, AwaitedKept
<1>3. ASSUME NEW a \in Agents, NEW e \in Events, Callback(a, e)
      PROVE  Queue' /\ \A b \in Agents : Advances(b)
  <2>1. UNCHANGED <<start, flow, overdue>>
    BY <1>3 DEF Callback
  <2>. QED  BY <1>3, <2>1, CallbackQueue, OthersAdvance
<1>4. ASSUME NEW d \in Deliverers, Deliver(d) \/ StopDelivery(d)
      PROVE  Queue' /\ \A b \in Agents : Advances(b)
  <2>1. UNCHANGED <<start, flow, overdue>>
    BY <1>4 DEF Deliver, ListPending, Signal, MarkDelivered, StopDelivery
  <2>. QED  BY <1>4, <2>1, DeliverQueue, OthersAdvance
<1>. QED  BY <1>1, <1>2, <1>3, <1>4 DEF Next

\* The invariant of the queue and of the agents that wait.
LEMMA QueueInvariant == Spec => [](HostedInv /\ Queue /\ Awaited)
<1>1. Init => Queue /\ Awaited
  BY DEF Init, Queue, Awaited, Noted
<1>2. HostedInv /\ Queue /\ Awaited /\ [Next]_vars => Queue' /\ Awaited'
  <2>. SUFFICES ASSUME HostedInv, Queue, Awaited, [Next]_vars PROVE Queue' /\ Awaited'
    OBVIOUS
  <2>1. Queue' /\ \A b \in Agents : Advances(b)
    BY QueueAndWork DEF HostedInv
  <2>. QED  BY <2>1 DEF Advances, Awaited
<1>. QED  BY <1>1, <1>2, HostedInvariant, PTL DEF Spec

\* No notification is marked as delivered that its workflow has not been sent, also
\* when deliverers read the same ones and stop between signal and mark.
THEOREM SignalsAreNotLost == Spec => []NoSignalLost
<1>1. HostedInv /\ Queue => NoSignalLost
  BY DEF HostedInv, HostedTypeOK, Queue, NoSignalLost, Undelivered, Noted
<1>. QED  BY <1>1, QueueInvariant, PTL

\* Every batch that is not empty has a first notification.
LEMMA BatchHasFirst ==
  ASSUME HostedTypeOK, NEW d \in Deliverers, batch[d] # {}
  PROVE  \E a \in batch[d] : First(d, a)
<1>. DEFINE ages == {created[a] : a \in batch[d]}
<1>1. batch[d] \subseteq Agents /\ ages \subseteq Nat /\ ages # {}
  BY DEF HostedTypeOK, Noted
<1>. DEFINE less == OpToRel(<, Nat)
<1>2. \A m, n \in Nat : m < n => <<m, n>> \in less
  BY DEF OpToRel
<1>3. IsWellFoundedOn(less, Nat)
  BY NatLessThanWellFounded
<1>. HIDE DEF less
<1>4. PICK n \in ages : \A m \in ages : ~ (<<m, n>> \in less)
  BY <1>1, <1>3, WFMin
<1>5. ASSUME NEW m \in ages PROVE n <= m
  <2>. HIDE DEF ages
  <2>1. m \in Nat /\ n \in Nat /\ ~(m < n)
    BY <1>1, <1>2, <1>4
  <2>. QED  BY <2>1
<1>. QED  BY <1>1, <1>5 DEF First

\* No hosted agent is left hanging: whoever is not closed can go on, or its
\* notification is pending and every deliverer can read or work off the queue.
THEOREM HostedAgentsNeverStick == Spec => []HostedNeverStuck
<1>1. HostedInv /\ Queue /\ Awaited => HostedNeverStuck
  <2>. SUFFICES ASSUME HostedInv, Queue, Awaited, NEW a \in Agents, flow[a].at # "closed",
                       ~AgentCanMove(a)
                PROVE  a \in Undelivered /\ \A d \in Deliverers : DelivererCanMove(d)
    BY DEF HostedNeverStuck
  <2>1. HostedTypeOK
    BY DEF HostedInv
  <2>2. flow[a].at = "wait" /\ a \notin signalled /\ note[a] # NoEvent
    BY <2>1 DEF Awaited, AgentCanMove, HostedTypeOK
  <2>3. \A d \in Deliverers : DelivererCanMove(d)
    BY <2>1, BatchHasFirst DEF DelivererCanMove
  <2>. QED  BY <2>2, <2>3 DEF Queue, Undelivered, Noted
<1>. QED  BY <1>1, QueueInvariant, PTL

\* An agent has at most twelve moves left.
LEMMA AgentWorkType ==
  ASSUME HostedTypeOK, NEW a \in Agents PROVE AgentWork(a) \in 0..12
<1>1. FlowLeft(a) \in 0..4 /\ StartLeft(a) \in 0..3
  BY DEF FlowLeft, StartLeft, HostedTypeOK
<1>. QED  BY <1>1 DEF AgentWork

\* Every hosted agent winds down, whatever its deployment sends and however often
\* deliveries are repeated.
THEOREM HostedAgentsWindDown == Spec => AgentsWind
<1>1. HostedInv => \A a \in Agents : AgentWork(a) \in 0..12
  BY AgentWorkType DEF HostedInv
<1>2. HostedInv /\ Queue /\ Awaited /\ [Next]_vars =>
        [\A a \in Agents : Moves(a) => AgentWork(a)' < AgentWork(a)]_vars
  BY QueueAndWork DEF HostedInv, Advances
<1>. QED  BY <1>1, <1>2, QueueInvariant, PTL DEF Spec, AgentsWind
=============================================================================
