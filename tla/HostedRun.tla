------------------------------ MODULE HostedRun ------------------------------
(***************************************************************************)
(* Agents that run at a customer's deployment (deployment_type             *)
(* hosted_external).  For each agent there are                             *)
(*                                                                         *)
(*   - RunAgentWorkflow in its hosted branch (flow), which starts the run, *)
(*     waits for a terminal signal or the deadline, and closes;            *)
(*   - the activity StartHostedRun (start), which claims the dispatch,     *)
(*     posts it and records the answer.  It runs once, and on for nobody   *)
(*     when the workflow has stopped waiting for it;                       *)
(*   - the row of hosted_run_executions (row), the receipts of callbacks   *)
(*     (receipts) and the terminal notification (note, delivered);         *)
(*   - the deployment, which calls back whenever it likes, with events it  *)
(*     may repeat, reorder and contradict.                                 *)
(*                                                                         *)
(* Notifications go to the workflows through deliverers: the ticker of     *)
(* each API server and the callback requests themselves.                   *)
(***************************************************************************)
EXTENDS Naturals, FiniteSets

CONSTANTS
  Agents,      \* run agents of hosted deployments
  Events,      \* what a deployment may send: records of id, kind and ext
  NoExt,       \* the external_run_id of a row that has none
  NoEvent,     \* no notification
  Deliverers,  \* callers of DeliverPending
  Batch,       \* LIMIT of PendingHostedNotifications
  MaxStops     \* bound: how often a delivery fails or breaks off

ExtIds == {e.ext : e \in Events}
Kinds  == {"progress", "completed", "failed"}

ASSUME HostedAssumption ==
  /\ IsFiniteSet(Agents)
  /\ \A e \in Events : e.kind \in Kinds
  /\ NoExt \notin ExtIds /\ NoEvent \notin Events
  /\ Batch \in Nat \ {0} /\ MaxStops \in Nat

VARIABLES
  row,        \* hosted_run_executions: status, claimed, ext
  receipts,   \* hosted_event_receipts
  note,       \* hosted_terminal_notifications: the event
  created,    \* its created_at: how many notifications there were with it
  delivered,  \* agents whose notification has a delivered_at
  reached,    \* agents whose POST the deployment has received
  start,      \* StartHostedRun: its next call
  flow,       \* workflow: position, verdict, and its startResult
  signalled,  \* agents whose workflow has a signal in its channel
  overdue,    \* agents whose MarkHostedRunTimedOut has not executed yet
  batch,      \* per deliverer: notifications still to deliver
  sent,       \* deliverers that have signalled but not marked the head
  stops

table == <<row, receipts, note, created>>
vars  == <<table, delivered, reached, start, flow, signalled, overdue, batch, sent, stops>>

Ended == {"completed", "failed"}

Init ==
  /\ row = [a \in Agents |-> [status |-> "none", claimed |-> FALSE, ext |-> NoExt]]
  /\ receipts = [a \in Agents |-> {}]
  /\ note = [a \in Agents |-> NoEvent]
  /\ created = [a \in Agents |-> 0]
  /\ delivered = {} /\ reached = {} /\ signalled = {} /\ overdue = {}
  /\ start = [a \in Agents |-> "claim"]
  /\ flow = [a \in Agents |-> [at |-> "start", verdict |-> "none", ext |-> NoExt]]
  /\ batch = [d \in Deliverers |-> {}]
  /\ sent = {} /\ stops = 0

-----------------------------------------------------------------------------
(* The activity StartHostedRun *)

\* The activity ends.  A workflow that still waits for it moves the agent to
\* executing and waits for callbacks about the external run x, unless the row
\* is completed already; or it fails.
Reply(a, ok, x, status) ==
  /\ start' = [start EXCEPT ![a] = "over"]
  /\ flow' = IF flow[a].at # "start" THEN flow
             ELSE [flow EXCEPT ![a] =
                     IF ~ok THEN [at |-> "leave", verdict |-> "error", ext |-> NoExt]
                     ELSE IF status = "completed"
                       THEN [at |-> "leave", verdict |-> "ok", ext |-> x]
                       ELSE [at |-> "wait", verdict |-> "none", ext |-> x]]

ReplyError(a) == Reply(a, FALSE, NoExt, "none")
ReplyRow(a)   == Reply(a, TRUE, row[a].ext, row[a].status)

dispatchElse == <<receipts, note, created, delivered, signalled, overdue, batch, sent, stops>>

\* CreateHostedRunExecution and ClaimHostedRunDispatch, one step because nobody
\* else writes a row that has not been claimed.  The POST that follows reaches
\* the deployment or gets lost.
ClaimDispatch(a) ==
  /\ start[a] = "claim"
  /\ IF row[a].status \in {"none", "starting"} /\ ~row[a].claimed
     THEN /\ row' = [row EXCEPT ![a].status = "starting", ![a].claimed = TRUE]
          /\ start' = [start EXCEPT ![a] = "answer"]
          /\ reached' \in {reached, reached \union {a}}
          /\ UNCHANGED flow
     ELSE /\ IF row[a].status = "failed" THEN ReplyError(a) ELSE ReplyRow(a)
          /\ UNCHANGED <<row, reached>>
  /\ UNCHANGED dispatchElse

\* Variant: UPDATE ... SET status = 'unknown' WHERE run_agent_id = $1.
MarkUnknownAlways(a) ==
  /\ start[a] = "answer"
  /\ row' = [row EXCEPT ![a].status = "unknown"]
  /\ start' = [start EXCEPT ![a] = "reload"]
  /\ UNCHANGED <<dispatchElse, flow, reached>>

\* No answer to the POST, or none that can be read.
MarkUnknown(a) ==
  /\ start[a] = "answer"
  /\ row' = IF row[a].status = "starting" THEN [row EXCEPT ![a].status = "unknown"] ELSE row
  /\ start' = [start EXCEPT ![a] = "reload"]
  /\ UNCHANGED <<dispatchElse, flow, reached>>

Reload(a) ==
  /\ start[a] = "reload"
  /\ ReplyRow(a)
  /\ UNCHANGED <<dispatchElse, row, reached>>

\* Variant: the activity answers without looking at the row it has written.
RejectUnreported(a) ==
  /\ start[a] = "answer" /\ a \in reached
  /\ row' = IF row[a].status \in {"starting", "unknown"}
            THEN [row EXCEPT ![a].status = "failed"] ELSE row
  /\ ReplyRow(a)
  /\ UNCHANGED <<dispatchElse, reached>>

\* The deployment refuses the run.
MarkRejected(a) ==
  /\ start[a] = "answer" /\ a \in reached
  /\ row' = IF row[a].status \in {"starting", "unknown"}
            THEN [row EXCEPT ![a].status = "failed"] ELSE row
  /\ IF row'[a].status = "failed" THEN ReplyError(a) ELSE ReplyRow(a)
  /\ UNCHANGED <<dispatchElse, reached>>

\* Variant: the UPDATE without its condition on external_run_id.
AcceptAnyName(a, x) ==
  LET s == IF row[a].status \in {"starting", "unknown"} THEN "accepted" ELSE row[a].status
  IN /\ start[a] = "answer" /\ a \in reached
     /\ row' = [row EXCEPT ![a].ext = x, ![a].status = s]
     /\ Reply(a, TRUE, x, s)
     /\ UNCHANGED <<dispatchElse, reached>>

\* The deployment accepts the run and calls it x.
MarkAccepted(a, x) ==
  LET s == IF row[a].status \in {"starting", "unknown"} THEN "accepted" ELSE row[a].status
  IN /\ start[a] = "answer" /\ a \in reached
     /\ IF row[a].ext \in {NoExt, x}
        THEN /\ row' = [row EXCEPT ![a].ext = x, ![a].status = s]
             /\ Reply(a, TRUE, x, s)
        ELSE ReplyError(a) /\ UNCHANGED row
     /\ UNCHANGED <<dispatchElse, reached>>

\* A database call fails or the worker stops: there is no second attempt.
StartFails(a) ==
  /\ start[a] # "over"
  /\ ReplyError(a)
  /\ UNCHANGED <<dispatchElse, row, reached>>

StartStep(a) ==
  \/ ClaimDispatch(a)
  \/ MarkUnknown(a) \/ Reload(a)
  \/ MarkRejected(a)
  \/ \E x \in ExtIds : MarkAccepted(a, x)

-----------------------------------------------------------------------------
(* RunAgentWorkflow *)

Turn(a, at, verdict) == flow' = [flow EXCEPT ![a].at = at, ![a].verdict = verdict]

flowElse == <<table, delivered, reached, start, signalled, batch, sent, stops>>

\* Variant: a signal counts as success whatever it reports.
ReceiveAnything(a) ==
  /\ flow[a].at = "wait" /\ a \in signalled
  /\ Turn(a, "leave", IF flow[a].ext \in {NoExt, note[a].ext} THEN "ok" ELSE "error")
  /\ UNCHANGED <<flowElse, overdue>>

\* The first signal decides, which may be about a remote run other than the one
\* the workflow was told.
Receive(a) ==
  /\ flow[a].at = "wait" /\ a \in signalled
  /\ Turn(a, "leave", IF note[a].kind = "completed" /\ flow[a].ext \in {NoExt, note[a].ext}
                      THEN "ok" ELSE "error")
  /\ UNCHANGED <<flowElse, overdue>>

\* The selector asks the channel before the timer.
Expire(a) ==
  /\ flow[a].at = "wait" /\ a \notin signalled
  /\ Turn(a, "expire", "none")
  /\ overdue' = overdue \union {a}
  /\ UNCHANGED flowElse

\* MarkHostedRunTimedOut executes, for a workflow that waits for it or not.
TimedOut(a, rows) ==
  /\ a \in overdue
  /\ row' = rows
  /\ overdue' = overdue \ {a}
  /\ IF flow[a].at = "expire" THEN Turn(a, "leave", "error") ELSE UNCHANGED flow
  /\ UNCHANGED <<receipts, note, created, delivered, reached, start, signalled, batch, sent, stops>>

\* Variants: the status of old rows; no condition on the status.
MarkTimedOutOld(a) ==
  TimedOut(a, IF row[a].status \in Ended THEN row ELSE [row EXCEPT ![a].status = "timed_out"])

MarkTimedOutAlways(a) == TimedOut(a, [row EXCEPT ![a].status = "unknown"])

\* An execution that has ended keeps its outcome.
MarkTimedOut(a) ==
  TimedOut(a, IF row[a].status \in Ended THEN row ELSE [row EXCEPT ![a].status = "unknown"])

\* What the workflow waits for ends without a result: an activity fails (here
\* also the write of executing) or times out, or the workflow is cancelled.
Interrupt(a) ==
  /\ flow[a].at \in {"start", "wait", "expire"}
  /\ Turn(a, "leave", "error")
  /\ UNCHANGED <<flowElse, overdue>>

\* evaluating or failed is written, and the workflow closes; the write may fail.
Leave(a) ==
  /\ flow[a].at = "leave"
  /\ \E v \in {flow[a].verdict, "error"} : Turn(a, "closed", v)
  /\ UNCHANGED <<flowElse, overdue>>

-----------------------------------------------------------------------------
(* Callbacks and notifications *)

Noted == {a \in Agents : note[a] # NoEvent}

\* CommitHostedCallback, in one transaction on the locked row.  A callback that
\* does not meet the guard is answered with a conflict and changes nothing.
Callback(a, e) ==
  LET r == row[a]
      s == IF r.status \in Ended THEN r.status
           ELSE IF e.kind = "progress" THEN "running" ELSE e.kind
      new == e.kind \in Ended /\ note[a] = NoEvent
  IN /\ a \in reached /\ r.claimed
     /\ r.ext \in {NoExt, e.ext}
     /\ r.status \in Ended => e.id \in {f.id : f \in receipts[a]}
     /\ r.status \in Ended /\ e.kind \in Ended => e.kind = r.status
     /\ \A f \in receipts[a] : f.id # e.id \/ f = e
     /\ row' = [row EXCEPT ![a].ext = e.ext, ![a].status = s]
     /\ receipts' = [receipts EXCEPT ![a] = @ \union {e}]
     /\ note' = IF new THEN [note EXCEPT ![a] = e] ELSE note
     /\ created' = IF new THEN [created EXCEPT ![a] = Cardinality(Noted) + 1] ELSE created
     /\ UNCHANGED <<delivered, reached, start, flow, signalled, overdue, batch, sent, stops>>

Undelivered == Noted \ delivered

\* SELECT ... ORDER BY created_at LIMIT Batch.
Oldest(s) ==
  /\ s \subseteq Undelivered
  /\ Cardinality(s) = Batch \/ (Cardinality(s) < Batch /\ s = Undelivered)
  /\ \A a \in s, b \in Undelivered \ s : created[a] < created[b]

ListPending(d) ==
  /\ batch[d] = {} /\ Undelivered # {}
  /\ \E s \in SUBSET Undelivered : Oldest(s) /\ batch' = [batch EXCEPT ![d] = s]
  /\ UNCHANGED <<table, delivered, reached, start, flow, signalled, overdue, sent, stops>>

\* The notification that is next in the delivery.
First(d, a) == a \in batch[d] /\ \A b \in batch[d] : created[a] <= created[b]

\* Variant: the first error ends the delivery.
SignalOrReturn(d, a) ==
  /\ First(d, a) /\ d \notin sent
  /\ IF flow[a].at = "closed"
     THEN batch' = [batch EXCEPT ![d] = {}] /\ UNCHANGED <<signalled, sent>>
     ELSE signalled' = signalled \union {a} /\ sent' = sent \union {d} /\ UNCHANGED batch
  /\ UNCHANGED <<table, delivered, reached, start, flow, overdue, stops>>

\* A workflow that has closed cannot be signalled: the notification stays
\* pending, and the delivery goes on with the next one.
Signal(d, a) ==
  /\ First(d, a) /\ d \notin sent
  /\ IF flow[a].at = "closed"
     THEN batch' = [batch EXCEPT ![d] = @ \ {a}] /\ UNCHANGED <<signalled, sent>>
     ELSE signalled' = signalled \union {a} /\ sent' = sent \union {d} /\ UNCHANGED batch
  /\ UNCHANGED <<table, delivered, reached, start, flow, overdue, stops>>

MarkDelivered(d, a) ==
  /\ First(d, a) /\ d \in sent
  /\ delivered' = delivered \union {a}
  /\ batch' = [batch EXCEPT ![d] = @ \ {a}]
  /\ sent' = sent \ {d}
  /\ UNCHANGED <<table, reached, start, flow, signalled, overdue, stops>>

\* A signal or a mark fails and the delivery goes on with the next notification, or
\* all of it ends: the API server stops, or its five seconds are over.
StopDelivery(d) ==
  /\ batch[d] # {} /\ stops < MaxStops
  /\ \E rest \in {{}, {a \in batch[d] : ~First(d, a)}} : batch' = [batch EXCEPT ![d] = rest]
  /\ sent' = sent \ {d}
  /\ stops' = stops + 1
  /\ UNCHANGED <<table, delivered, reached, start, flow, signalled, overdue>>

Deliver(d) == ListPending(d) \/ \E a \in batch[d] : Signal(d, a) \/ MarkDelivered(d, a)

-----------------------------------------------------------------------------
Next ==
  \/ \E a \in Agents :
       \/ StartStep(a) \/ StartFails(a)
       \/ Receive(a) \/ Expire(a) \/ MarkTimedOut(a)
       \/ Interrupt(a) \/ Leave(a)
       \/ \E e \in Events : Callback(a, e)
  \/ \E d \in Deliverers : Deliver(d) \/ StopDelivery(d)

Spec == Init /\ [][Next]_vars

\* The deadline is a durable timer.  It is assumed to fire only for agents
\* without a notification: the others must be freed by their signal.
Fairness ==
  /\ \A a \in Agents :
       /\ WF_vars(StartStep(a)) /\ WF_vars(MarkTimedOut(a))
       /\ WF_vars(Receive(a)) /\ WF_vars(Leave(a))
       /\ WF_vars(note[a] = NoEvent /\ Expire(a))
  /\ \A d \in Deliverers : WF_vars(Deliver(d))

FairSpec == Spec /\ Fairness

-----------------------------------------------------------------------------
(* Properties *)

Statuses == {"none", "starting", "accepted", "running", "completed", "failed", "unknown"}

\* The state of every table, activity, workflow and delivery has its type.
HostedTypeOK ==
  /\ row \in [Agents -> [status : Statuses, claimed : BOOLEAN, ext : ExtIds \union {NoExt}]]
  /\ receipts \in [Agents -> SUBSET Events]
  /\ note \in [Agents -> Events \union {NoEvent}]
  /\ created \in [Agents -> Nat]
  /\ delivered \subseteq Agents /\ reached \subseteq Agents
  /\ signalled \subseteq Noted /\ overdue \subseteq Agents
  /\ start \in [Agents -> {"claim", "answer", "reload", "over"}]
  /\ flow \in [Agents -> [at : {"start", "wait", "expire", "leave", "closed"},
                          verdict : {"none", "ok", "error"},
                          ext : ExtIds \union {NoExt}]]
  /\ batch \in [Deliverers -> SUBSET Noted]
  /\ sent \subseteq Deliverers
  /\ stops \in 0..MaxStops

\* All evidence of an agent comes from one remote run, and it is the one the row
\* names, although the answer to the POST and the callbacks race to name it.
EvidenceHasOneIdentity ==
  \A a \in Agents : \A e \in receipts[a] : e.ext = row[a].ext

\* Once a callback has been committed, no answer to the POST that comes after it
\* takes the status back; only the deadline does, and then the agent has failed.
EvidenceOutlivesDispatch ==
  \A a \in Agents :
    receipts[a] # {} =>
      \/ row[a].status \in {"running", "completed", "failed"}
      \/ row[a].status = "unknown" /\ flow[a].verdict = "error"

\* An agent goes on to evaluation only if its row is completed, on the evidence
\* of a completion by the remote run it was told about.
SuccessIsRecorded ==
  \A a \in Agents :
    flow[a].verdict = "ok" =>
      /\ row[a].status = "completed"
      /\ \E e \in receipts[a] : e.kind = "completed"
      /\ flow[a].ext \in {NoExt, row[a].ext}

\* A workflow never waits for an execution that has ended without a notification,
\* and a notification says what the row says, whatever is written later.
NotificationsAgree ==
  \A a \in Agents :
    /\ flow[a].at = "wait" /\ row[a].status \in Ended => note[a] # NoEvent
    /\ note[a] # NoEvent => note[a] \in receipts[a] /\ note[a].kind = row[a].status

\* The rows, receipts and notifications keep the promises of HostedExecution.
Outcome == [a \in Agents |-> IF row[a].status \in Ended THEN row[a].status ELSE "open"]
Identity == [a \in Agents |-> row[a].ext]

Execution == INSTANCE HostedExecution
  WITH outcome <- Outcome, identity <- Identity, evidence <- receipts

ImplementsExecution == Execution!ExecutionSpec

\* Every hosted agent ends: by its signal once the deployment has reported an
\* end, by the deadline otherwise, also when dispatch, signal or server fail.
HostedWorkflowCloses == \A a \in Agents : <>(flow[a].at = "closed")
=============================================================================
