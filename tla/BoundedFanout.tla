---------------------------- MODULE BoundedFanout ----------------------------
(***************************************************************************)
(* launchBounded: the loop in which a workflow runs N children (agents of  *)
(* a run, runs of a session, sessions of a set, scoring activities, scans) *)
(* with at most MaxInFlight of them outstanding.  The loop runs in one     *)
(* workflow thread; what is concurrent is the children, whose futures      *)
(* become ready at any time, also while the gate (beforeLaunch, which may  *)
(* wait for an activity) decides on the next launch.                       *)
(*                                                                         *)
(* The callers differ in three ways, which are constants here: whether     *)
(* there is a gate, whether launch returns a CancelFunc (adaptLaunch       *)
(* returns none) and for which outcomes onComplete returns an error.       *)
(***************************************************************************)
EXTENDS Integers, FiniteSets

CONSTANTS
  N,            \* number of children
  MaxInFlight,  \* cap the caller asks for, possibly not positive
  Gated,        \* beforeLaunch is given and may refuse
  Cancellable,  \* launch returns a CancelFunc
  Fatal         \* outcomes for which onComplete returns an error

Outcomes == {"ok", "failed", "cancelled"}

ASSUME FanoutAssumption ==
  /\ N \in Nat /\ MaxInFlight \in Int
  /\ Gated \in BOOLEAN /\ Cancellable \in BOOLEAN
  /\ Fatal \subseteq Outcomes

VARIABLES
  phase,        \* where the loop is
  nextIndex,    \* children 0 .. nextIndex - 1 are launched
  pending,      \* children launched and not yet handled
  handled,      \* children given to onComplete
  outcome,      \* how the future of a child resolved, "none" before
  asked,        \* children whose CancelFunc was called
  gateErr,      \* the gate has refused a launch
  completeErr   \* onComplete has returned an error

fanoutVars == <<phase, nextIndex, pending, handled, outcome, asked, gateErr, completeErr>>

Children == 0..(N - 1)

Width == IF MaxInFlight <= 0 THEN 1 ELSE IF MaxInFlight > N THEN N ELSE MaxInFlight

Ready == {i \in pending : outcome[i] # "none"}

FanoutInit ==
  /\ phase = IF N = 0 THEN "returned" ELSE "fill"
  /\ nextIndex = 0
  /\ pending = {} /\ handled = {} /\ asked = {}
  /\ outcome = [i \in Children |-> "none"]
  /\ gateErr = FALSE /\ completeErr = FALSE
-----------------------------------------------------------------------------
\* Variant: the loop that fills the slots compares with <=.
LaunchOneTooMany ==
  /\ phase \in {"fill", "refill"}
  /\ nextIndex < N
  /\ pending' = pending \union {nextIndex}
  /\ nextIndex' = nextIndex + 1
  /\ phase' = IF phase = "fill" /\ nextIndex' <= Width /\ nextIndex' < N THEN "fill" ELSE "wait"
  /\ UNCHANGED <<handled, outcome, asked, gateErr, completeErr>>

\* start: the gate lets the next child pass.
Launch ==
  /\ phase \in {"fill", "refill"}
  /\ pending' = pending \union {nextIndex}
  /\ nextIndex' = nextIndex + 1
  /\ phase' = IF phase = "fill" /\ nextIndex' < Width THEN "fill" ELSE "wait"
  /\ UNCHANGED <<handled, outcome, asked, gateErr, completeErr>>

\* Variant: there is nothing to call, or nobody calls it.
CancelNobody(S) == asked' = asked

CancelPending(S) == asked' = IF Cancellable THEN asked \union S ELSE asked

\* Variant: the error of the gate is not kept.
RefuseUnrecorded ==
  /\ Gated /\ phase \in {"fill", "refill"}
  /\ CancelPending(pending)
  /\ phase' = "wait"
  /\ UNCHANGED <<nextIndex, pending, handled, outcome, gateErr, completeErr>>

\* start: the gate returns an error.
Refuse ==
  /\ Gated /\ phase \in {"fill", "refill"}
  /\ gateErr' = TRUE
  /\ CancelPending(pending)
  /\ phase' = "wait"
  /\ UNCHANGED <<nextIndex, pending, handled, outcome, completeErr>>

\* The future of a child resolves.
Resolve(i, o) ==
  /\ i \in pending /\ outcome[i] = "none"
  /\ outcome' = [outcome EXCEPT ![i] = o]
  /\ UNCHANGED <<phase, nextIndex, pending, handled, asked, gateErr, completeErr>>

Handle(i) ==
  /\ pending' = pending \ {i}
  /\ handled' = handled \union {i}

\* Variants of the test for another launch after a completion.
MoreIgnoringGate == nextIndex < N
MorePastEnd == ~gateErr
MoreButLast == ~gateErr /\ nextIndex < N - 1

MoreToLaunch == ~gateErr /\ nextIndex < N

\* One turn of the loop: the futures were added in the order of their indices,
\* so Select takes the first of those that are ready.
Complete(i) ==
  /\ phase = "wait"
  /\ i \in Ready /\ \A j \in Ready : i <= j
  /\ Handle(i)
  /\ IF outcome[i] \in Fatal
       THEN /\ completeErr' = TRUE /\ phase' = "drain"
            /\ CancelPending(pending \ {i})
       ELSE /\ phase' = IF MoreToLaunch THEN "refill" ELSE "wait"
            /\ UNCHANGED <<asked, completeErr>>
  /\ UNCHANGED <<nextIndex, outcome, gateErr>>

\* Variant: only children that report their cancellation are waited for.
DrainCancelledOnly(i) ==
  /\ phase = "drain" /\ i \in Ready /\ outcome[i] = "cancelled"
  /\ Handle(i)
  /\ UNCHANGED <<phase, nextIndex, outcome, asked, gateErr, completeErr>>

\* After an error the rest is waited for, in the order of a map iteration; what
\* onComplete says of them is ignored.
Drain(i) ==
  /\ phase = "drain" /\ i \in Ready
  /\ Handle(i)
  /\ UNCHANGED <<phase, nextIndex, outcome, asked, gateErr, completeErr>>

\* Variant: an error is returned without waiting for the other children.
ReturnEarly ==
  /\ phase = "drain" \/ (phase = "wait" /\ pending = {})
  /\ phase' = "returned"
  /\ UNCHANGED <<nextIndex, pending, handled, outcome, asked, gateErr, completeErr>>

Return ==
  /\ phase \in {"wait", "drain"} /\ pending = {}
  /\ phase' = "returned"
  /\ UNCHANGED <<nextIndex, pending, handled, outcome, asked, gateErr, completeErr>>

\* The error of launchBounded: that of onComplete wins over that of the gate.
Err == IF completeErr THEN "complete" ELSE IF gateErr THEN "gate" ELSE "none"
-----------------------------------------------------------------------------
FanoutNext ==
  \/ Launch \/ Refuse \/ Return
  \/ \E i \in Children : Complete(i) \/ Drain(i) \/ \E o \in Outcomes : Resolve(i, o)

FanoutSpec == FanoutInit /\ [][FanoutNext]_fanoutVars

\* The loop's workflow task is retried until it succeeds, the gate's activity
\* has a timeout, and every child closes: activities time out, and so do the
\* children that consist of them.
FanoutFairness ==
  /\ WF_fanoutVars(Launch \/ Refuse \/ Return \/ \E i \in Children : Complete(i) \/ Drain(i))
  /\ \A i \in Children : WF_fanoutVars(\E o \in Outcomes : Resolve(i, o))

FairFanoutSpec == FanoutSpec /\ FanoutFairness
-----------------------------------------------------------------------------
(* Properties.                                                             *)

\* The variables have their types.
FanoutTypeOK ==
  /\ phase \in {"fill", "refill", "wait", "drain", "returned"}
  /\ nextIndex \in 0..N
  /\ pending \subseteq Children /\ handled \subseteq Children /\ asked \subseteq Children
  /\ outcome \in [Children -> Outcomes \union {"none"}]
  /\ gateErr \in BOOLEAN /\ completeErr \in BOOLEAN

\* However the completions interleave with the launches, no more than the
\* allowed number of children is in flight.
CapRespected == Cardinality(pending) <= Width

\* Every launched child is either still waited for or was handled, never both:
\* no completion is lost or delivered twice to onComplete, and the loop returns
\* only when nothing it launched is left, also after an error.
NoneLost ==
  /\ pending \union handled = 0..(nextIndex - 1)
  /\ pending \intersect handled = {}
  /\ phase = "returned" => pending = {}

\* launchBounded returns no error only when all N children ran and onComplete
\* accepted every one of them.
SuccessMeansAll ==
  phase = "returned" /\ Err = "none" =>
    /\ handled = Children
    /\ \A i \in Children : outcome[i] \notin Fatal

\* While it waits without an error, the loop keeps every slot busy that it has
\* a child for: a completion that arrived during a launch is not forgotten.
WorkConserving ==
  phase = "wait" /\ Err = "none" =>
    Cardinality(pending) = IF N - Cardinality(handled) < Width
                             THEN N - Cardinality(handled) ELSE Width

\* After the first error, of the gate or of a child, every child still in
\* flight has been asked to stop, where launch gave a CancelFunc.
StopReachesPending == Cancellable /\ Err # "none" => pending \subseteq asked

\* After the first error nothing is launched any more.
NoLaunchAfterError == [][Err # "none" => nextIndex' = nextIndex]_fanoutVars

\* The loop, with its phases, indices and futures, is bounded launching.
Verdict == IF Err # "none" THEN "stopped" ELSE IF phase = "returned" THEN "done" ELSE "open"

Launching == INSTANCE BoundedLaunching
  WITH Items <- Children, Cap <- Width, active <- pending, finished <- handled,
       verdict <- Verdict

ImplementsLaunching == Launching!LaunchingSpec

\* The call returns.
FanoutReturns == <>(phase = "returned")
=============================================================================
