------------------------ MODULE BoundedFanoutProofs ------------------------
(***************************************************************************)
(* launchBounded for every number of children, every cap, every kind of    *)
(* caller: the safety properties of BoundedFanout, from one inductive      *)
(* invariant.  Slots is what CapRespected lacks to be inductive: it counts *)
(* the slots in each phase of the loop.  Errors says in which phases an    *)
(* error can have happened and what it has done already.                   *)
(***************************************************************************)
EXTENDS BoundedFanout, FiniteSetTheorems, TLAPS

Slots ==
  /\ Cardinality(pending) <= Width
  /\ Cardinality(pending) + Cardinality(handled) = nextIndex
  /\ phase = "fill" => nextIndex < Width /\ handled = {}
  /\ phase = "refill" => nextIndex < N /\ Cardinality(pending) = Width - 1
  /\ phase = "wait" /\ Err = "none" => Cardinality(pending) = Width \/ nextIndex = N

Errors ==
  /\ phase # "returned" => N > 0
  /\ phase \in {"fill", "refill"} => Err = "none"
  /\ completeErr => phase \in {"drain", "returned"}
  /\ phase = "drain" => completeErr
  /\ phase = "returned" /\ Err = "none" => nextIndex = N
  /\ \A i \in handled : outcome[i] # "none" /\ (outcome[i] \in Fatal => completeErr)
  /\ StopReachesPending

FanoutInv == FanoutTypeOK /\ NoneLost /\ Slots /\ Errors

\* Sums of slots only make sense for finite sets of children.
LEMMA PendingFinite ==
  ASSUME FanoutTypeOK
  PROVE  /\ IsFiniteSet(pending) /\ Cardinality(pending) \in Nat
         /\ IsFiniteSet(handled) /\ Cardinality(handled) \in Nat
<1>1. IsFiniteSet(Children)
  BY FS_Interval, FanoutAssumption DEF FanoutAssumption, Children
<1>2. IsFiniteSet(pending) /\ IsFiniteSet(handled)
  BY <1>1, FS_Subset DEF FanoutTypeOK
<1>. QED  BY <1>2, FS_CardinalityType

\* The loop always has a slot when it has a child, and never more than children.
LEMMA WidthBounds == Width \in Int /\ Width <= N + 1 /\ (N > 0 => 1 <= Width /\ Width <= N)
BY FanoutAssumption DEF FanoutAssumption, Width

\* A loop that has just begun has launched nothing.
LEMMA FanoutInitInv == FanoutInit => FanoutInv
<1>. SUFFICES ASSUME FanoutInit PROVE FanoutInv
  OBVIOUS
<1>. USE FanoutAssumption DEF FanoutAssumption, FanoutInit
<1>1. FanoutTypeOK
  <2>1. phase \in {"fill", "refill", "wait", "drain", "returned"} /\ nextIndex \in 0..N
    OBVIOUS
  <2>2. outcome \in [Children -> Outcomes \union {"none"}]
    OBVIOUS
  <2>. QED  BY <2>1, <2>2 DEF FanoutTypeOK
<1>2. NoneLost
  BY DEF NoneLost
<1>3. Slots
  <2>1. Cardinality({}) = 0
    BY FS_EmptySet
  <2>2. Width >= 0
    BY DEF Width
  <2>. QED  BY <2>1, <2>2, WidthBounds DEF Slots
<1>4. Errors
  BY DEF Errors, StopReachesPending, Err
<1>. QED  BY <1>1, <1>2, <1>3, <1>4 DEF FanoutInv

\* A launch takes the slot that fill or refill guarantees to be free.
LEMMA LaunchInv == FanoutInv /\ Launch => FanoutInv'
<1>. SUFFICES ASSUME FanoutInv, Launch PROVE FanoutInv'
  OBVIOUS
<1>. USE FanoutAssumption DEF FanoutAssumption, FanoutInv
<1>1. /\ nextIndex \in Children /\ nextIndex \notin pending /\ nextIndex \notin handled
      /\ N > 0 /\ Err = "none"
  BY WidthBounds DEF Launch, Slots, Errors, NoneLost, FanoutTypeOK, Children
<1>2. FanoutTypeOK'
  BY <1>1 DEF Launch, FanoutTypeOK, Children
<1>3. NoneLost'
  BY <1>1 DEF Launch, NoneLost, FanoutTypeOK
<1>4. Slots'
  <2>1. Cardinality(pending') = Cardinality(pending) + 1
    BY <1>1, PendingFinite, FS_AddElement DEF Launch
  <2>2. Cardinality(handled) = 0 \/ phase = "refill"
    BY FS_EmptySet DEF Launch, Slots
  <2>. QED
    BY <1>1, <2>1, <2>2, PendingFinite, WidthBounds DEF Launch, Slots, Err, FanoutTypeOK
<1>5. Errors'
  BY <1>1 DEF Launch, Errors, Err, StopReachesPending
<1>. QED  BY <1>2, <1>3, <1>4, <1>5

\* A refusal by the gate is recorded, and everything in flight is asked to stop.
LEMMA RefuseInv == FanoutInv /\ Refuse => FanoutInv'
<1>. SUFFICES ASSUME FanoutInv, Refuse PROVE FanoutInv'
  OBVIOUS
<1>. USE DEF FanoutInv
<1>1. asked' = IF Cancellable THEN asked \union pending ELSE asked
  BY DEF Refuse, CancelPending
<1>2. FanoutTypeOK'
  BY <1>1 DEF Refuse, FanoutTypeOK
<1>3. NoneLost'
  BY DEF Refuse, NoneLost
<1>4. Slots'
  BY DEF Refuse, Slots, Err
<1>5. Errors'
  BY <1>1 DEF Refuse, Errors, Err, StopReachesPending
<1>. QED  BY <1>2, <1>3, <1>4, <1>5

\* A future that resolves changes nothing but its outcome.
LEMMA ResolveInv ==
  ASSUME NEW i \in Children, NEW o \in Outcomes, FanoutInv, Resolve(i, o)
  PROVE  FanoutInv'
<1>. USE DEF FanoutInv
<1>1. FanoutTypeOK'
  BY DEF Resolve, FanoutTypeOK
<1>2. NoneLost'
  BY DEF Resolve, NoneLost
<1>3. Slots'
  BY DEF Resolve, Slots, Err
<1>4. Errors'
  <2>1. i \notin handled
    BY DEF Resolve, NoneLost
  <2>2. \A j \in handled : outcome'[j] = outcome[j]
    BY <2>1 DEF Resolve, FanoutTypeOK
  <2>. QED  BY <2>2 DEF Resolve, Errors, Err, StopReachesPending
<1>. QED  BY <1>1, <1>2, <1>3, <1>4

\* What Complete and Drain have in common: a child moves from pending to handled
\* and frees its slot.
LEMMA HandleCounts ==
  ASSUME NEW i \in pending, FanoutTypeOK, NoneLost, Handle(i)
  PROVE  /\ Cardinality(pending') = Cardinality(pending) - 1
         /\ Cardinality(handled') = Cardinality(handled) + 1
         /\ pending' \union handled' = pending \union handled
         /\ pending' \intersect handled' = {}
         /\ pending' \subseteq Children /\ handled' \subseteq Children
<1>1. i \notin handled
  BY DEF NoneLost
<1>2. Cardinality(pending') = Cardinality(pending) - 1
  BY PendingFinite, FS_RemoveElement DEF Handle
<1>3. Cardinality(handled') = Cardinality(handled) + 1
  BY <1>1, PendingFinite, FS_AddElement DEF Handle
<1>. QED  BY <1>2, <1>3 DEF Handle, NoneLost, FanoutTypeOK

\* A completion without an error frees a slot that refill will take, unless no
\* child is left; one with an error asks the others to stop.
LEMMA CompleteInv ==
  ASSUME NEW i \in Children, FanoutInv, Complete(i)
  PROVE  FanoutInv'
<1>. USE FanoutAssumption DEF FanoutAssumption, FanoutInv
<1>1. i \in pending /\ outcome[i] # "none" /\ Handle(i)
  BY DEF Complete, Ready
<1>2. /\ phase = "wait" /\ ~completeErr /\ N > 0
      /\ UNCHANGED <<nextIndex, outcome, gateErr>>
  BY DEF Complete, Errors
<1>3. CASE outcome[i] \in Fatal
  <2>1. /\ completeErr' /\ phase' = "drain"
        /\ asked' = IF Cancellable THEN asked \union (pending \ {i}) ELSE asked
    BY <1>3 DEF Complete, CancelPending
  <2>2. FanoutTypeOK'
    BY <1>1, <1>2, <2>1, HandleCounts DEF FanoutTypeOK, Complete
  <2>3. NoneLost'
    BY <1>1, <1>2, <2>1, HandleCounts DEF NoneLost
  <2>4. Slots'
    BY <1>1, <1>2, <2>1, HandleCounts, PendingFinite, WidthBounds DEF Slots, Err, FanoutTypeOK
  <2>5. Errors'
    BY <1>1, <1>2, <2>1 DEF Errors, Err, StopReachesPending, Handle
  <2>. QED  BY <2>2, <2>3, <2>4, <2>5
<1>4. CASE outcome[i] \notin Fatal
  <2>1. /\ phase' = IF ~gateErr /\ nextIndex < N THEN "refill" ELSE "wait"
        /\ UNCHANGED <<asked, completeErr>>
    BY <1>4 DEF Complete, MoreToLaunch
  <2>2. FanoutTypeOK'
    BY <1>1, <1>2, <2>1, HandleCounts DEF FanoutTypeOK
  <2>3. NoneLost'
    BY <1>1, <1>2, <2>1, HandleCounts DEF NoneLost
  <2>4. Slots'
    BY <1>1, <1>2, <2>1, HandleCounts, PendingFinite, WidthBounds DEF Slots, Err, FanoutTypeOK
  <2>5. Errors'
    BY <1>1, <1>2, <1>4, <2>1 DEF Errors, Err, StopReachesPending, Handle
  <2>. QED  BY <2>2, <2>3, <2>4, <2>5
<1>. QED  BY <1>3, <1>4

\* A child handled while draining frees a slot that is not used again.
LEMMA DrainInv ==
  ASSUME NEW i \in Children, FanoutInv, Drain(i)
  PROVE  FanoutInv'
<1>. USE FanoutAssumption DEF FanoutAssumption, FanoutInv
<1>1. i \in pending /\ outcome[i] # "none" /\ Handle(i)
  BY DEF Drain, Ready
<1>2. /\ phase = "drain" /\ completeErr
      /\ UNCHANGED <<phase, nextIndex, outcome, asked, gateErr, completeErr>>
  BY DEF Drain, Errors
<1>3. FanoutTypeOK'
  BY <1>1, <1>2, HandleCounts DEF FanoutTypeOK
<1>4. NoneLost'
  BY <1>1, <1>2, HandleCounts DEF NoneLost
<1>5. Slots'
  BY <1>1, <1>2, HandleCounts, PendingFinite, WidthBounds DEF Slots, Err, FanoutTypeOK
<1>6. Errors'
  BY <1>1, <1>2 DEF Errors, Err, StopReachesPending, Handle
<1>. QED  BY <1>3, <1>4, <1>5, <1>6

\* Without an error the loop ends only when no child is left to launch: with
\* one left, every slot would be in use, and there is at least one slot.
LEMMA ReturnInv == FanoutInv /\ Return => FanoutInv'
<1>. SUFFICES ASSUME FanoutInv, Return PROVE FanoutInv'
  OBVIOUS
<1>. USE DEF FanoutInv
<1>1. FanoutTypeOK' /\ NoneLost' /\ Slots'
  BY DEF Return, FanoutTypeOK, NoneLost, Slots
<1>2. Err = "none" => nextIndex = N
  <2>1. Cardinality(pending) = 0
    BY FS_EmptySet DEF Return
  <2>. QED  BY <2>1, WidthBounds DEF Return, Slots, Errors, Err
<1>3. Errors'
  BY <1>2 DEF Return, Errors, Err, StopReachesPending
<1>. QED  BY <1>1, <1>3

\* Every step of the loop and of its children keeps the invariant.
LEMMA FanoutStepInv == FanoutInv /\ [FanoutNext]_fanoutVars => FanoutInv'
<1>. SUFFICES ASSUME FanoutInv, [FanoutNext]_fanoutVars PROVE FanoutInv'
  OBVIOUS
<1>1. CASE Launch
  BY <1>1, LaunchInv
<1>2. CASE Refuse
  BY <1>2, RefuseInv
<1>3. CASE Return
  BY <1>3, ReturnInv
<1>4. ASSUME NEW i \in Children, Complete(i) PROVE FanoutInv'
  BY <1>4, CompleteInv
<1>5. ASSUME NEW i \in Children, Drain(i) PROVE FanoutInv'
  BY <1>5, DrainInv
<1>6. ASSUME NEW i \in Children, NEW o \in Outcomes, Resolve(i, o) PROVE FanoutInv'
  BY <1>6, ResolveInv
<1>7. CASE UNCHANGED fanoutVars
  BY <1>7 DEF fanoutVars, FanoutInv, FanoutTypeOK, NoneLost, Slots, Errors, Err,
             StopReachesPending
<1>. QED  BY <1>1, <1>2, <1>3, <1>4, <1>5, <1>6, <1>7 DEF FanoutNext

\* FanoutInv holds throughout, for every N, cap, gate and kind of caller.
THEOREM FanoutInvariant == FanoutSpec => []FanoutInv
BY FanoutInitInv, FanoutStepInv, PTL DEF FanoutSpec

\* The type invariant.
THEOREM FanoutTypes == FanoutSpec => []FanoutTypeOK
<1>1. FanoutInv => FanoutTypeOK
  BY DEF FanoutInv
<1>. QED  BY <1>1, FanoutInvariant, PTL

\* The cap: no more than the allowed number of children is ever in flight.
THEOREM FanoutRespectsCap == FanoutSpec => []CapRespected
<1>1. FanoutInv => CapRespected
  BY DEF FanoutInv, Slots, CapRespected
<1>. QED  BY <1>1, FanoutInvariant, PTL

\* No completion is lost or handled twice, and nothing is left behind.
THEOREM FanoutLosesNone == FanoutSpec => []NoneLost
<1>1. FanoutInv => NoneLost
  BY DEF FanoutInv
<1>. QED  BY <1>1, FanoutInvariant, PTL

\* The call succeeds only when all N children ran and were accepted.
THEOREM FanoutSuccessMeansAll == FanoutSpec => []SuccessMeansAll
<1>1. FanoutInv => SuccessMeansAll
  BY FanoutAssumption DEF FanoutAssumption, FanoutInv, FanoutTypeOK, NoneLost, Errors,
                          SuccessMeansAll, Children, Err
<1>. QED  BY <1>1, FanoutInvariant, PTL

\* A waiting loop keeps every slot busy that it has a child for.
THEOREM FanoutConservesWork == FanoutSpec => []WorkConserving
<1>1. FanoutInv => WorkConserving
  BY PendingFinite, WidthBounds, FanoutAssumption
     DEF FanoutAssumption, FanoutInv, FanoutTypeOK, Slots, WorkConserving, Err
<1>. QED  BY <1>1, FanoutInvariant, PTL

\* An error reaches every child that can be asked to stop.
THEOREM FanoutStopReachesPending == FanoutSpec => []StopReachesPending
<1>1. FanoutInv => StopReachesPending
  BY DEF FanoutInv, Errors
<1>. QED  BY <1>1, FanoutInvariant, PTL

\* After the first error nothing is launched any more.
THEOREM FanoutStopsLaunching == FanoutSpec => NoLaunchAfterError
<1>1. FanoutInv /\ [FanoutNext]_fanoutVars =>
        [Err # "none" => nextIndex' = nextIndex]_fanoutVars
  BY DEF FanoutInv, Errors, FanoutNext, fanoutVars, Launch, Refuse, Return, Complete, Drain,
         Resolve
<1>. QED  BY <1>1, FanoutInvariant, PTL DEF FanoutSpec, NoLaunchAfterError
-----------------------------------------------------------------------------
(* The loop implements BoundedLaunching, and what that promises of a stop.  *)

\* Both modules count the same way.
LEMMA SameCount == \A S : Launching!Cardinality(S) = Cardinality(S)
BY DEF Launching!Cardinality, Cardinality, Launching!IsFiniteSet, IsFiniteSet

\* A loop that has just begun has everything left to launch.
LEMMA FanoutInitLaunching == FanoutInit => Launching!LaunchingInit
BY FanoutAssumption DEF FanoutAssumption, FanoutInit, Launching!LaunchingInit, Verdict, Err,
                        Children

\* Each move of the loop is a turn, a stop or the settling of a child.
LEMMA FanoutStepLaunching ==
  ASSUME FanoutInv, [FanoutNext]_fanoutVars
  PROVE  [Launching!LaunchingNext]_Launching!launchingVars
<1>. USE DEF Launching!LaunchingNext, Launching!launchingVars
<1>0. FanoutInv' /\ Width' = Width /\ Children' = Children
  BY FanoutStepInv DEF Width, Children
<1>i. \A Over \in SUBSET pending, New \in SUBSET (Children \ (pending \union handled)) :
        Launching!Turn(Over, New) \/ Launching!Stop(Over) \/ Launching!Settle(Over)
          => Launching!LaunchingNext
  OBVIOUS
<1>. HIDE DEF Launching!LaunchingNext
<1>1. CASE Launch
  <2>1. nextIndex \in Children \ (pending \union handled) /\ Err = "none"
    BY <1>1, WidthBounds, FanoutAssumption
       DEF Launch, FanoutInv, FanoutTypeOK, Slots, Errors, NoneLost, Children, FanoutAssumption
  <2>2. Cardinality(pending') <= Width
    BY <1>0 DEF FanoutInv, Slots
  <2>3. Launching!Turn({}, {nextIndex})
    BY <1>1, <2>1, <2>2, SameCount DEF Launch, Launching!Turn, Verdict, Err
  <2>4. {} \in SUBSET pending /\ {nextIndex} \in SUBSET (Children \ (pending \union handled))
    BY <2>1
  <2>. QED  BY <1>i, <2>3, <2>4
<1>2. CASE Refuse
  <2>1. Launching!Stop({})
    BY <1>2 DEF Refuse, Launching!Stop, Verdict, Err, FanoutInv, Errors
  <2>. QED  BY <1>i, <2>1
<1>3. CASE Return
  <2>1. CASE Err = "none"
    <3>1. handled = Children
      BY <1>0, <1>3, <2>1, FanoutAssumption
         DEF Return, FanoutInv, FanoutTypeOK, NoneLost, Errors, Err, Children, FanoutAssumption
    <3>2. Cardinality(pending') <= Width
      BY <1>0 DEF FanoutInv, Slots
    <3>3. Launching!Turn({}, {})
      BY <1>3, <2>1, <3>1, <3>2, SameCount DEF Return, Launching!Turn, Verdict, Err
    <3>. QED  BY <1>i, <3>3
  <2>2. CASE Err # "none"
    BY <1>3, <2>2 DEF Return, Verdict, Err
  <2>. QED  BY <2>1, <2>2
<1>4. ASSUME NEW i \in Children, Complete(i)
      PROVE  Launching!LaunchingNext
  <2>1. /\ i \in pending /\ phase = "wait" /\ ~completeErr
        /\ pending' = pending \ {i} /\ handled' = handled \union {i} /\ UNCHANGED gateErr
    BY <1>4 DEF Complete, Ready, Handle, FanoutInv, Errors
  <2>2. Cardinality(pending') <= Width
    BY <1>0 DEF FanoutInv, Slots
  <2>3. CASE Err' = "none"
    <3>1. Verdict = "open" /\ Verdict' = "open"
      BY <1>4, <2>1, <2>3 DEF Complete, Verdict, Err
    <3>2. Launching!Turn({i}, {})
      BY <2>1, <2>2, <3>1, SameCount DEF Launching!Turn
    <3>3. {i} \in SUBSET pending /\ {} \in SUBSET (Children \ (pending \union handled))
      BY <2>1
    <3>. QED  BY <1>i, <3>2, <3>3
  <2>4. CASE Err' # "none" /\ Err = "none"
    <3>1. Launching!Stop({i})
      BY <2>1, <2>4 DEF Launching!Stop, Verdict, Err
    <3>. QED  BY <1>i, <2>1, <3>1
  <2>5. CASE Err # "none"
    <3>1. Err' # "none"
      BY <2>1, <2>5, <1>4 DEF Err
    <3>2. Launching!Settle({i})
      BY <2>1, <2>5, <3>1 DEF Launching!Settle, Verdict
    <3>. QED  BY <1>i, <2>1, <3>2
  <2>. QED  BY <2>3, <2>4, <2>5
<1>5. ASSUME NEW i \in Children, Drain(i)
      PROVE  Launching!LaunchingNext
  <2>1. /\ i \in pending /\ Err = "complete" /\ Err' = "complete"
        /\ pending' = pending \ {i} /\ handled' = handled \union {i}
    BY <1>5 DEF Drain, Ready, Handle, FanoutInv, Errors, Err
  <2>2. Launching!Settle({i})
    BY <2>1 DEF Launching!Settle, Verdict
  <2>. QED  BY <1>i, <2>1, <2>2
<1>6. ASSUME NEW i \in Children, NEW o \in Outcomes, Resolve(i, o)
      PROVE  UNCHANGED Launching!launchingVars
  BY <1>6 DEF Resolve, Verdict, Err
<1>7. CASE UNCHANGED fanoutVars
  BY <1>7 DEF fanoutVars, Verdict, Err
<1>. QED  BY <1>1, <1>2, <1>3, <1>4, <1>5, <1>6, <1>7 DEF FanoutNext

\* The loop of launchBounded is bounded launching, for every number of children,
\* cap, gate and kind of caller.
THEOREM FanoutImplementsLaunching == FanoutSpec => ImplementsLaunching
<1>1. FanoutInv /\ [FanoutNext]_fanoutVars => [Launching!LaunchingNext]_Launching!launchingVars
  BY FanoutStepLaunching
<1>. QED  BY FanoutInitLaunching, <1>1, FanoutInvariant, PTL
          DEF FanoutSpec, ImplementsLaunching, Launching!LaunchingSpec
-----------------------------------------------------------------------------
(* The number of moves that the loop and its children have left.           *)

PhaseRank == IF phase = "returned" THEN 0 ELSE IF phase \in {"wait", "drain"} THEN 1 ELSE 2

FanoutWork ==
  4 * (N - nextIndex) + 2 * Cardinality(pending) + Cardinality(pending \ Ready) + PhaseRank

\* A loop with N children moves at most 4N + 2 times, its children included, and
\* nothing ever gives it back what it has done: a launch, a refusal, a completion
\* and a return all bring it closer to the end.
FanoutWinds ==
  /\ [](FanoutWork \in 0..(4 * N + 2))
  /\ [][FanoutWork' < FanoutWork]_fanoutVars

\* Any set of children can be counted.
LEMMA ChildrenFinite == \A S \in SUBSET Children : IsFiniteSet(S) /\ Cardinality(S) \in Nat
<1>1. IsFiniteSet(Children)
  BY FS_Interval, FanoutAssumption DEF FanoutAssumption, Children
<1>. QED  BY <1>1, FS_Subset, FS_CardinalityType

\* The children in flight are finitely many, resolved or not.
LEMMA OpenFinite ==
  ASSUME FanoutTypeOK
  PROVE  IsFiniteSet(pending \ Ready) /\ Cardinality(pending \ Ready) \in Nat
BY ChildrenFinite DEF FanoutTypeOK

\* The work left is a number, and never more than 4N + 2.
LEMMA WorkBounds == FanoutInv => FanoutWork \in 0..(4 * N + 2)
<1>. SUFFICES ASSUME FanoutInv PROVE FanoutWork \in 0..(4 * N + 2)
  OBVIOUS
<1>1. Cardinality(pending \ Ready) <= Cardinality(pending)
  BY PendingFinite, FS_Subset DEF FanoutInv
<1>. QED
  BY <1>1, PendingFinite, OpenFinite, FanoutAssumption
     DEF FanoutAssumption, FanoutInv, FanoutTypeOK, Slots, FanoutWork, PhaseRank

\* Every step of the loop or of a child leaves less to do.
LEMMA FanoutStepWork ==
  ASSUME FanoutInv, FanoutNext
  PROVE  FanoutWork' < FanoutWork
<1>. USE FanoutAssumption DEF FanoutAssumption, FanoutInv
<1>0. FanoutInv'
  BY FanoutStepInv
<1>n. /\ Cardinality(pending) \in Nat /\ Cardinality(pending \ Ready) \in Nat
      /\ Cardinality(pending') \in Nat /\ Cardinality((pending \ Ready)') \in Nat
      /\ nextIndex \in Int /\ nextIndex' \in Int
  <2>1. /\ pending \in SUBSET Children /\ pending' \in SUBSET Children
        /\ nextIndex \in Int /\ nextIndex' \in Int
    BY <1>0 DEF FanoutTypeOK, Children
  <2>2. pending \ Ready \in SUBSET Children /\ pending' \ Ready' \in SUBSET Children
    BY <2>1
  <2>. QED  BY <2>1, <2>2, ChildrenFinite
<1>1. CASE Launch
  <2>1. nextIndex \notin pending /\ nextIndex' = nextIndex + 1 /\ UNCHANGED outcome
    BY <1>1 DEF Launch, NoneLost, FanoutTypeOK
  <2>2. Cardinality(pending') = Cardinality(pending) + 1
    BY <1>1, <2>1, PendingFinite, FS_AddElement DEF Launch
  <2>3. (pending \ Ready)' \subseteq (pending \ Ready) \union {nextIndex}
    BY <1>1, <2>1 DEF Launch, Ready
  <2>4. Cardinality((pending \ Ready)') <= Cardinality(pending \ Ready) + 1
    <3>1. /\ IsFiniteSet((pending \ Ready) \union {nextIndex})
          /\ Cardinality((pending \ Ready) \union {nextIndex}) <= Cardinality(pending \ Ready) + 1
      BY OpenFinite, FS_AddElement
    <3>. QED  BY <2>3, <3>1, <1>n, FS_Subset, FS_CardinalityType
  <2>5. PhaseRank' <= PhaseRank /\ PhaseRank \in Int /\ PhaseRank' \in Int
    BY <1>1 DEF Launch, PhaseRank
  <2>. QED  BY <1>n, <2>1, <2>2, <2>4, <2>5 DEF FanoutWork
<1>2. CASE Refuse
  BY <1>2, <1>n DEF Refuse, FanoutWork, PhaseRank, Ready
<1>3. CASE Return
  BY <1>3, <1>n DEF Return, FanoutWork, PhaseRank, Ready
<1>4. ASSUME NEW i \in Children, Complete(i) \/ Drain(i) PROVE FanoutWork' < FanoutWork
  <2>1. i \in Ready /\ i \in pending /\ Handle(i) /\ UNCHANGED <<outcome, nextIndex>>
    BY <1>4 DEF Complete, Drain, Ready
  <2>2. Cardinality(pending') = Cardinality(pending) - 1
    BY <2>1, HandleCounts
  <2>3. Cardinality((pending \ Ready)') = Cardinality(pending \ Ready)
    <3>1. (pending \ Ready)' = pending \ Ready
      BY <2>1 DEF Handle, Ready
    <3>. QED  BY <3>1
  <2>4. PhaseRank' <= PhaseRank + 1 /\ PhaseRank \in Int /\ PhaseRank' \in Int
    BY <1>4 DEF Complete, Drain, PhaseRank
  <2>. QED  BY <1>n, <2>1, <2>2, <2>3, <2>4 DEF FanoutWork
<1>5. ASSUME NEW i \in Children, NEW o \in Outcomes, Resolve(i, o)
      PROVE  FanoutWork' < FanoutWork
  <2>1. i \in pending \ Ready /\ (pending \ Ready)' = (pending \ Ready) \ {i}
    BY <1>5 DEF Resolve, Ready, FanoutTypeOK, Outcomes
  <2>2. Cardinality((pending \ Ready)') = Cardinality(pending \ Ready) - 1
    BY <2>1, OpenFinite, FS_RemoveElement
  <2>. QED  BY <1>5, <1>n, <2>2 DEF Resolve, FanoutWork, PhaseRank
<1>. QED  BY <1>1, <1>2, <1>3, <1>4, <1>5 DEF FanoutNext

\* The loop winds down, whatever the gate and its children do.
THEOREM FanoutWindsDown == FanoutSpec => FanoutWinds
<1>1. FanoutInv => FanoutWork \in 0..(4 * N + 2)
  BY WorkBounds
<1>2. FanoutInv /\ [FanoutNext]_fanoutVars => [FanoutWork' < FanoutWork]_fanoutVars
  BY FanoutStepWork
<1>. QED  BY <1>1, <1>2, FanoutInvariant, PTL DEF FanoutSpec, FanoutWinds
=============================================================================
