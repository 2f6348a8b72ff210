------------------------------- MODULE EvalSet -------------------------------
(***************************************************************************)
(* One evaluation set, from the row the API inserts to a terminal status:  *)
(*                                                                         *)
(*   - EvalSetWorkflow (step, gate, owes, budgetHit), whose sessions run   *)
(*     in the loop of BoundedFanout, with the budget as its gate;          *)
(*   - the sessions, which charge their runs to the set as they go;        *)
(*   - the request that created the set (starter) and the cancel endpoint  *)
(*     (canceller).                                                        *)
(*                                                                         *)
(* A status write is one guarded UPDATE from the status that its caller    *)
(* believes in: it commits, or is rejected.  Like the writes of runs, one  *)
(* whose caller has given up on it may still commit: it moves to late.     *)
(* A charge is not one statement: RefreshEvalSetSpend reads the row and    *)
(* writes the new total.  Money is counted in charges.                     *)
(***************************************************************************)
EXTENDS StatusMachines, BoundedFanout

CONSTANTS
  Budget,       \* charges the set may record before the gate closes
  MaxCharges,   \* bound: charges of one session (its runs)
  MaxCancels,   \* bound: how many times the user asks to cancel
  Faults        \* whether activities and calls may fail or time out

ASSUME EvalSetAssumption ==
  /\ Gated /\ Cancellable /\ Fatal = {"cancelled"}
  /\ Budget \in Nat /\ MaxCharges \in Nat /\ MaxCancels \in Nat
  /\ Faults \in BOOLEAN

VARIABLES
  set,              \* eval_sets.status
  spent,            \* eval_sets.spent_usd
  starter,          \* progress of the create request
  canceller, saw,   \* progress of the cancel request, the status it has read
  cancels,          \* cancel requests so far
  cancelRequested,  \* Temporal was asked to cancel the workflow
  write,            \* status write the workflow and the cancel request wait for
  late,             \* status writes nobody waits for any more
  step,             \* EvalSetWorkflow: next activity
  gate,             \* what the gate said of the next session
  gateCause,        \* why it refused one
  owes,             \* the completion just handled is still to be charged
  budgetHit,        \* the set is to end as budget_exceeded
  aggregated,       \* AggregateEvalSet has stored the result
  reading,          \* total read by a refresh that has yet to write it
  charges           \* charges begun by each session

requests == <<starter, canceller, saw, cancels>>
loop     == <<gate, gateCause, owes>>
spending == <<spent, reading, charges>>
setVars  == <<set, spending, requests, cancelRequested, write, late, step, loop,
              budgetHit, aggregated>>
vars     == <<fanoutVars, setVars>>

-----------------------------------------------------------------------------
(* Status writes: TransitionEvalSetStatus.                                 *)

NoWrite == [from |-> "none", to |-> "none"]
Writes  == [from : EvalSetStatuses, to : EvalSetStatuses]
From(from, to) == [from |-> from, to |-> to]

\* Variant: UPDATE eval_sets ... WHERE id = @id.
CommitsAnyway(w) == w # NoWrite /\ set' = w.to

\* UPDATE eval_sets ... WHERE id = @id AND status = @from_status.
Commits(w) == w # NoWrite /\ set = w.from /\ set' = w.to

Rejected(w) == w # NoWrite /\ set # w.from

\* A write whose rejection makes no difference to the set.
Settles(w) == Commits(w) \/ (Rejected(w) /\ UNCHANGED set)

\* Variant: also a caller that waits for nothing leaves something behind.
AbandonAlways(p) == late' = late \union {write[p]}

Abandon(p) == late' = late \union ({write[p]} \ {NoWrite})

LateWrite(w) ==
  /\ Commits(w) \/ UNCHANGED set
  /\ late' = late \ {w}
  /\ UNCHANGED <<fanoutVars, spending, requests, cancelRequested, write, step, loop,
                 budgetHit, aggregated>>

(* The charges: RefreshEvalSetSpend.  No case result carries a cost, so the *)
(* projection it reads is empty and the charge of the caller is added.      *)

NoRead == -1

\* The set itself, beside its sessions 0 .. N - 1.
Self == N

RefreshRead(p) ==
  /\ reading[p] = NoRead
  /\ reading' = [reading EXCEPT ![p] = spent]
  /\ UNCHANGED <<fanoutVars, set, spent, requests, cancelRequested, write, late, step,
                 loop, budgetHit, aggregated>>

RefreshWrite(p, charge) ==
  /\ reading[p] # NoRead
  /\ spent' = reading[p] + charge
  /\ reading' = [reading EXCEPT ![p] = NoRead]
  /\ UNCHANGED <<fanoutVars, set, charges, requests, cancelRequested, write, late, gate,
                 gateCause, budgetHit, aggregated>>

\* A session charges each of its runs while it is open; one that was cancelled
\* is open a little longer than its future.
SessionReads(i) ==
  /\ i < nextIndex /\ outcome[i] \in {"none", "cancelled"}
  /\ charges[i] < MaxCharges
  /\ charges' = [charges EXCEPT ![i] = @ + 1]
  /\ RefreshRead(i)

SessionWrites(i) == RefreshWrite(i, 1) /\ UNCHANGED <<step, owes>>
-----------------------------------------------------------------------------
(* The create request: EvalSetManager.Create, after the rows are inserted. *)

Begin(s, w) == step' = s /\ write' = [write EXCEPT !["set"] = w]
Go(s) == Begin(s, NoWrite)

StartWorkflow ==
  /\ starter = "start"
  /\ starter' = "done"
  /\ Begin("expanding", From("queued", "expanding"))
  /\ UNCHANGED <<fanoutVars, set, spending, canceller, saw, cancels, cancelRequested,
                 late, loop, budgetHit, aggregated>>

\* The call fails, whether the workflow was started or not, or the API stops.
StartFails ==
  /\ Faults /\ starter = "start"
  /\ starter' \in {"compensate", "done"}
  /\ \/ Begin("expanding", From("queued", "expanding"))
     \/ UNCHANGED <<step, write>>
  /\ UNCHANGED <<fanoutVars, set, spending, canceller, saw, cancels, cancelRequested,
                 late, loop, budgetHit, aggregated>>

CompensatePartialCreate ==
  /\ starter = "compensate"
  /\ starter' = "done"
  /\ set' = IF set = "queued" THEN "failed" ELSE set
  /\ UNCHANGED <<fanoutVars, spending, canceller, saw, cancels, cancelRequested, write,
                 late, step, loop, budgetHit, aggregated>>

(* The cancel endpoint: EvalSetManager.Cancel. *)

CancelRead ==
  /\ canceller = "idle" /\ cancels < MaxCancels
  /\ set \notin EvalSetTerminal
  /\ canceller' = "request"
  /\ saw' = set
  /\ cancels' = cancels + 1
  /\ UNCHANGED <<fanoutVars, set, spending, starter, cancelRequested, write, late, step,
                 loop, budgetHit, aggregated>>

\* Without a workflow to cancel (NotFound) the row is written all the same.
CancelWorkflow ==
  /\ canceller = "request"
  /\ canceller' = "write"
  /\ cancelRequested' = (cancelRequested \/ step \notin {"none", "closed"})
  /\ write' = [write EXCEPT !["api"] = From(saw, "cancelled")]
  /\ UNCHANGED <<fanoutVars, set, spending, starter, saw, cancels, late, step, loop,
                 budgetHit, aggregated>>

CancelEnd ==
  /\ canceller' = "idle" /\ saw' = "none"
  /\ write' = [write EXCEPT !["api"] = NoWrite]
  /\ UNCHANGED <<fanoutVars, spending, starter, cancels, cancelRequested, step, loop,
                 budgetHit, aggregated>>

CancelWrites ==
  /\ canceller = "write"
  /\ Settles(write["api"])
  /\ CancelEnd
  /\ UNCHANGED late

CancelFails ==
  /\ Faults /\ canceller \in {"request", "write"}
  /\ CancelEnd
  /\ Abandon("api")
  /\ UNCHANGED set
-----------------------------------------------------------------------------
(* EvalSetWorkflow.                                                        *)

At(s) == step = s /\ ~cancelRequested

unrelated == <<spending, requests, cancelRequested>>

Expand ==
  /\ At("expanding") /\ Commits(write["set"])
  /\ Go("load")
  /\ UNCHANGED <<fanoutVars, unrelated, late, loop, budgetHit, aggregated>>

LoadEvalSet ==
  /\ At("load")
  /\ Begin("running", From("expanding", "running"))
  /\ UNCHANGED <<fanoutVars, set, unrelated, late, loop, budgetHit, aggregated>>

Open ==
  /\ At("running") /\ Commits(write["set"])
  /\ Go("sessions")
  /\ UNCHANGED <<fanoutVars, unrelated, late, loop, budgetHit, aggregated>>

Written == {"expanding", "running", "aggregating", "finish"}

\* Somebody else moved the set: the workflow returns the error.
StepRejected ==
  /\ \E s \in Written : At(s)
  /\ Rejected(write["set"])
  /\ Go("closed")
  /\ UNCHANGED <<fanoutVars, set, unrelated, late, loop, budgetHit, aggregated>>

\* The activity fails or times out: the workflow returns the error, and the set
\* keeps the status that it has.
StepFails ==
  /\ Faults /\ \E s \in Written \union {"load"} : At(s)
  /\ Abandon("set")
  /\ Go("closed")
  /\ UNCHANGED <<fanoutVars, set, unrelated, loop, budgetHit, aggregated>>

(* executeEvalSetSessions: beforeLaunch, launch, onComplete. *)

InLoop == step = "sessions" /\ ~owes

\* Capacity of the workspace first, which may be missing for too long, and then
\* the budget as the row has it.
CheckGate ==
  /\ InLoop /\ ~cancelRequested /\ phase \in {"fill", "refill"} /\ gate = "unchecked"
  /\ \/ gate' = IF spent >= Budget THEN "budget" ELSE "pass"
     \/ gate' = "capacity"
  /\ UNCHANGED <<fanoutVars, set, unrelated, write, late, step, gateCause, owes,
                 budgetHit, aggregated>>

LaunchSession ==
  /\ InLoop /\ ~cancelRequested /\ gate = "pass"
  /\ Launch
  /\ gate' = "unchecked"
  /\ UNCHANGED <<set, unrelated, write, late, step, gateCause, owes, budgetHit, aggregated>>

\* A cancelled workflow gets no answer from the gate.
RefuseSession ==
  /\ InLoop
  /\ gate \in {"budget", "capacity"} \/ cancelRequested
  /\ Refuse
  /\ gate' = "unchecked"
  /\ gateCause' = IF cancelRequested THEN "cancelled" ELSE gate
  /\ UNCHANGED <<set, unrelated, write, late, step, owes, budgetHit, aggregated>>

\* Futures of children that were asked to stop, one by one or with the whole
\* workflow, resolve at once: nobody waits for the session itself to close.
SessionCloses(i) ==
  /\ step = "sessions"
  /\ \E o \in IF cancelRequested \/ i \in asked THEN {"cancelled"} ELSE {"ok", "failed"} :
       Resolve(i, o)
  /\ UNCHANGED setVars

\* onComplete: a completion that is no cancellation is charged.
SettleSession(i) ==
  /\ InLoop
  /\ Complete(i) \/ Drain(i)
  /\ owes' = (outcome[i] # "cancelled" /\ ~cancelRequested)
  /\ UNCHANGED <<set, unrelated, write, late, step, gate, gateCause, budgetHit, aggregated>>

ChargeReads ==
  /\ At("sessions") /\ owes
  /\ RefreshRead(Self)
  /\ UNCHANGED charges

ChargeWrites ==
  /\ At("sessions") /\ owes
  /\ RefreshWrite(Self, 1)
  /\ owes' = FALSE
  /\ UNCHANGED step

\* Its error is ignored.
ChargeFails ==
  /\ step = "sessions" /\ owes /\ (Faults \/ cancelRequested)
  /\ owes' = FALSE
  /\ reading' = [reading EXCEPT ![Self] = NoRead]
  /\ UNCHANGED <<fanoutVars, set, spent, charges, requests, cancelRequested, write, late,
                 step, gate, gateCause, budgetHit, aggregated>>

LoopReturns ==
  /\ InLoop
  /\ Return
  /\ UNCHANGED setVars

\* Variant: a set all of whose sessions failed is aggregated like any other.
AllFailedIgnored == FALSE

AllFailed == N > 0 /\ \A i \in Children : outcome[i] = "failed"

Stopped == Err = "gate" /\ gateCause = "budget"

\* What launchBounded returned decides how the set goes on.
AfterSessions ==
  /\ InLoop /\ phase = "returned"
  /\ IF Err = "complete" \/ (Err = "gate" /\ gateCause = "cancelled")
       THEN Go("cancelLoad")
     ELSE IF (Err = "gate" /\ gateCause = "capacity") \/ (Err = "none" /\ AllFailed)
       THEN Begin("failing", From("running", "failed"))
     ELSE IF Stopped \/ N = 0
       THEN Begin("aggregating", From("running", "aggregating"))
     ELSE Go("recheck")
  /\ budgetHit' = Stopped
  /\ UNCHANGED <<fanoutVars, set, unrelated, late, loop, aggregated>>

\* The sessions may have spent the rest of the budget; an error is ignored.
Recheck ==
  /\ At("recheck")
  /\ budgetHit' \in {spent >= Budget} \union IF Faults THEN {FALSE} ELSE {}
  /\ Begin("aggregating", From("running", "aggregating"))
  /\ UNCHANGED <<fanoutVars, set, unrelated, late, loop, aggregated>>

BeginAggregating ==
  /\ At("aggregating") /\ Commits(write["set"])
  /\ Go("aggregate")
  /\ UNCHANGED <<fanoutVars, unrelated, late, loop, budgetHit, aggregated>>

\* Variant: its error is ignored, like that of the refresh that follows.
AggregateIfPossible ==
  /\ At("aggregate") /\ Go("refresh")
  /\ aggregated' \in {TRUE} \union IF Faults THEN {FALSE} ELSE {}
  /\ UNCHANGED <<fanoutVars, set, unrelated, late, loop, budgetHit>>

AggregateEvalSet ==
  /\ At("aggregate")
  /\ \/ aggregated' = TRUE /\ Go("refresh")
     \/ /\ Faults
        /\ Begin("failing", From("aggregating", "failed"))
        /\ UNCHANGED aggregated
  /\ UNCHANGED <<fanoutVars, set, unrelated, late, loop, budgetHit>>

Finish == Begin("finish", From("aggregating", IF budgetHit THEN "budget_exceeded"
                                                           ELSE "completed"))

\* The total is written back as it was read.
RefreshReads == At("refresh") /\ RefreshRead(Self) /\ UNCHANGED charges

RefreshWrites ==
  /\ At("refresh")
  /\ reading[Self] # NoRead
  /\ spent' = reading[Self]
  /\ reading' = [reading EXCEPT ![Self] = NoRead]
  /\ Finish
  /\ UNCHANGED <<fanoutVars, set, charges, requests, cancelRequested, late, loop,
                 budgetHit, aggregated>>

RefreshFails ==
  /\ Faults /\ At("refresh")
  /\ Finish
  /\ UNCHANGED <<fanoutVars, set, unrelated, late, loop, budgetHit, aggregated>>

FinishSet ==
  /\ At("finish") /\ Commits(write["set"])
  /\ Go("closed")
  /\ UNCHANGED <<fanoutVars, unrelated, late, loop, budgetHit, aggregated>>

\* The write of failed, whose error is ignored.
FailSet ==
  /\ step = "failing"
  /\ \/ ~cancelRequested /\ Settles(write["set"]) /\ UNCHANGED late
     \/ (Faults \/ cancelRequested) /\ Abandon("set") /\ UNCHANGED set
  /\ Go("closed")
  /\ UNCHANGED <<fanoutVars, unrelated, loop, budgetHit, aggregated>>

\* The cancel request reaches an activity of the workflow.
Cancel ==
  /\ cancelRequested
  /\ step \in Written \union {"load", "recheck", "aggregate", "refresh"}
  /\ Abandon("set")
  /\ Go("cancelLoad")
  /\ UNCHANGED <<fanoutVars, set, unrelated, loop, budgetHit, aggregated>>

(* markEvalSetCancelled, in a disconnected context. *)

CancelLoad ==
  /\ step = "cancelLoad"
  /\ IF set \in EvalSetTerminal THEN Go("closed")
                                ELSE Begin("cancelWrite", From(set, "cancelled"))
  /\ UNCHANGED <<fanoutVars, set, unrelated, late, loop, budgetHit, aggregated>>

MarkEvalSetCancelled ==
  /\ step = "cancelWrite"
  /\ Settles(write["set"])
  /\ Go("closed")
  /\ UNCHANGED <<fanoutVars, unrelated, late, loop, budgetHit, aggregated>>

MarkEvalSetCancelledFails ==
  /\ Faults /\ step \in {"cancelLoad", "cancelWrite"}
  /\ Abandon("set")
  /\ Go("closed")
  /\ UNCHANGED <<fanoutVars, set, unrelated, loop, budgetHit, aggregated>>
-----------------------------------------------------------------------------
Init ==
  /\ FanoutInit
  /\ set = "queued" /\ spent = 0
  /\ starter = "start"
  /\ canceller = "idle" /\ saw = "none" /\ cancels = 0 /\ cancelRequested = FALSE
  /\ write = [p \in {"set", "api"} |-> NoWrite] /\ late = {}
  /\ step = "none"
  /\ gate = "unchecked" /\ gateCause = "none" /\ owes = FALSE
  /\ budgetHit = FALSE /\ aggregated = FALSE
  /\ reading = [p \in Children \union {Self} |-> NoRead]
  /\ charges = [i \in Children |-> 0]

ApiStep ==
  \/ StartWorkflow \/ StartFails \/ CompensatePartialCreate
  \/ CancelWorkflow \/ CancelWrites \/ CancelFails

SetStep ==
  \/ Expand \/ LoadEvalSet \/ Open \/ StepRejected \/ StepFails
  \/ CheckGate \/ LaunchSession \/ RefuseSession
  \/ \E i \in Children : SettleSession(i)
  \/ ChargeReads \/ ChargeWrites \/ ChargeFails \/ LoopReturns \/ AfterSessions
  \/ Recheck \/ BeginAggregating \/ AggregateEvalSet
  \/ RefreshReads \/ RefreshWrites \/ RefreshFails \/ FinishSet \/ FailSet
  \/ Cancel \/ CancelLoad \/ MarkEvalSetCancelled \/ MarkEvalSetCancelledFails

SessionStep(i) == SessionReads(i) \/ SessionWrites(i) \/ SessionCloses(i)

Next ==
  \/ ApiStep \/ CancelRead \/ SetStep
  \/ \E i \in Children : SessionStep(i)
  \/ \E w \in late : LateWrite(w)

Spec == Init /\ [][Next]_vars

\* Workers keep polling, the API finishes the requests it has begun, and every
\* session closes: it consists of activities that time out.
Fairness ==
  /\ WF_vars(ApiStep) /\ WF_vars(SetStep)
  /\ \A i \in Children : WF_vars(SessionCloses(i))

FairSpec == Spec /\ Fairness

-----------------------------------------------------------------------------
(* Properties.                                                             *)

SetSteps == Written \union {"none", "load", "sessions", "recheck", "aggregate", "refresh",
                            "failing", "cancelLoad", "cancelWrite", "closed"}

\* Every variable has its type.
EvalSetTypeOK ==
  /\ FanoutTypeOK
  /\ set \in EvalSetStatuses
  /\ spent \in Nat
  /\ starter \in {"start", "compensate", "done"}
  /\ canceller \in {"idle", "request", "write"}
  /\ saw \in EvalSetStatuses \union {"none"}
  /\ cancels \in 0..MaxCancels /\ cancelRequested \in BOOLEAN
  /\ write \in [{"set", "api"} -> Writes \union {NoWrite}]
  /\ late \subseteq Writes
  /\ step \in SetSteps
  /\ gate \in {"unchecked", "pass", "budget", "capacity"}
  /\ gateCause \in {"none", "budget", "capacity", "cancelled"}
  /\ owes \in BOOLEAN /\ budgetHit \in BOOLEAN /\ aggregated \in BOOLEAN
  /\ reading \in [Children \union {Self} -> Nat \union {NoRead}]
  /\ charges \in [Children -> 0..MaxCharges]

\* Whatever commits, in whatever order and however late, the status only moves
\* along the table of the domain package: a finished set is never reopened by a
\* write of the workflow, of the cancel endpoint or of a failed create.
SetMovesAlongTable == [][set' # set => EvalSetCanTransition(set, set')]_vars

\* A completed set is the whole matrix: every session was launched and settled,
\* one at least succeeded, and the result is stored.
CompletedSetIsWhole ==
  set = "completed" =>
    /\ aggregated /\ phase = "returned"
    /\ handled = Children
    /\ N > 0 => \E i \in Children : outcome[i] = "ok"

\* A set whose status says that its sessions are over has none in flight, and
\* one that ran out of budget has stored its partial results.
SettledSetHasNoSession ==
  /\ set \in {"aggregating", "completed", "budget_exceeded"} => phase = "returned"
  /\ set = "budget_exceeded" => aggregated

\* A started EvalSetWorkflow closes, whatever is refused, cancelled or fails
\* when: no exit of the loop and no error path waits for something that never
\* comes.
SetWorkflowCloses == step = "expanding" ~> step = "closed"

\* A refresh of the spend never lowers the total that is on record.
SpendNeverDecreases == [][spent' >= spent]_vars

\* A set that stops because its budget is used up, with nobody cancelling it
\* and nothing failing, ends as budget_exceeded with its partial results.
BudgetStopKeepsResults ==
  set \in EvalSetTerminal /\ gateCause = "budget" /\ cancels = 0 =>
    set = "budget_exceeded" /\ aggregated
=============================================================================
