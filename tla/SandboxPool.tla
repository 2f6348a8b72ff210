----------------------------- MODULE SandboxPool -----------------------------
(***************************************************************************)
(* The sandboxes of a worker: WarmPool over CapacityProvider over the      *)
(* provider that runs them.                                                *)
(*                                                                         *)
(* A job is a call of WarmPool.Create with the use of the session that     *)
(* follows, or the goroutine that the call starts to refill the pool; one  *)
(* more refill is EnsureWarm at startup.  Both create sandboxes through    *)
(* the capacity decorator: a slot of the budget is leased first, and is    *)
(* released when Create fails or when Destroy succeeds.                    *)
(*                                                                         *)
(* There is a pool per key, and all pools share the budget.  The labels of *)
(* a request are part of its key, and NativeExecutor labels its sandboxes  *)
(* with the run agent: callers share a key when they run cases of one run  *)
(* agent, and the sandboxes of EnsureWarm fit nobody.                      *)
(*                                                                         *)
(* What fails may leave something behind that nobody in the worker knows:  *)
(* a Create that has failed a sandbox, and an acquire or release that      *)
(* Redis has not answered a slot.  A lease of the Redis budget may also    *)
(* lapse while its sandbox lives.                                          *)
(*                                                                         *)
(* E2B and Kubernetes give every sandbox a name of its own.  Docker names  *)
(* a container after the run agent of the request, and removes the one     *)
(* that has the name already.                                              *)
(***************************************************************************)
EXTENDS Naturals, Sequences, FiniteSets, Functions

CONSTANTS
  Callers,     \* users of a sandbox
  Boot,        \* the refill at startup
  Lineups,     \* which of them take part: one of these sets
  KeyOf,       \* the key of the requests of a caller, or of Boot
  Size,        \* sandboxes a pool keeps
  MaxLive,     \* MaxConcurrent of the budget
  Sandboxes,   \* names for sandboxes and their leases
  MadeFor,     \* the key of the requests that a name is for
  None,        \* no sandbox
  MaxMishaps   \* bound: leases that lapse, slots and sandboxes that are left behind

ASSUME PoolAssumption ==
  /\ Size \in Nat \ {0} /\ MaxLive \in Nat \ {0} /\ MaxMishaps \in Nat
  /\ IsFiniteSet(Sandboxes) /\ None \notin Sandboxes
  /\ Boot \notin Callers /\ Lineups \subseteq SUBSET (Callers \union {Boot})

Calls == {"call"} \X Callers
Fills == {"fill"} \X (Callers \union {Boot})
Jobs  == Calls \union Fills

FillOf(c) == <<"fill", c[2]>>

Keys   == {KeyOf[u] : u \in Callers \union {Boot}}
Key(j) == KeyOf[j[2]]

VARIABLES
  pool,     \* per key: the warm sandboxes, oldest first
  aged,     \* per key: how many of them, from the head, are past their TTL
  doomed,   \* sandboxes that goroutines of the pool are about to destroy
  job,      \* per job: position and sandbox
  stopped,  \* Close has been called
  closed,   \* closeDone
  unclean,  \* cleanupErr, or an error of Close's own destroys
  slots,    \* leases in the budget
  orphans,  \* how many more there are that nobody knows
  lapses,   \* how many have lapsed while their owners held them
  live,     \* sandboxes that may run at the provider
  strays,   \* those that a failed Create may have left behind
  named     \* the provider names sandboxes after run agents

poolVars   == <<pool, aged>>
budgetVars == <<slots, orphans, lapses>>
provider   == <<live, strays, named>>
vars == <<poolVars, doomed, job, stopped, closed, unclean, budgetVars, provider>>

At(j, at)        == job[j].at = at
Move(j, at)      == [job EXCEPT ![j].at = at]
Become(j, at, s) == [job EXCEPT ![j] = [at |-> at, sandbox |-> s]]

Init ==
  /\ pool = [k \in Keys |-> <<>>] /\ aged = [k \in Keys |-> 0] /\ doomed = {}
  /\ named \in BOOLEAN
  /\ \E users \in Lineups :
       /\ Boot \in users => ~named
       /\ job = [j \in Jobs |-> [at |-> IF j[2] \notin users THEN "over"
                                        ELSE IF j = <<"fill", Boot>> THEN "check"
                                        ELSE "off",
                                 sandbox |-> None]]
  /\ stopped = FALSE /\ closed = FALSE /\ unclean = FALSE
  /\ slots = {} /\ orphans = 0 /\ lapses = 0 /\ live = {} /\ strays = {}

-----------------------------------------------------------------------------
(* CapacityProvider and its budget *)

\* Names nobody uses; which one a new sandbox gets does not matter.
Warm == UNION {Range(pool[k]) : k \in Keys}
Held == {job[j].sandbox : j \in Jobs} \union doomed \union Warm
Free(k) == {s \in Sandboxes \ (slots \union live \union strays \union Held) : MadeFor[s] = k}
NewName(k) == CHOOSE s \in Free(k) : TRUE

HasRoom == Cardinality(slots) + orphans < MaxLive

Acquire(j) ==
  /\ At(j, "acquire") /\ HasRoom /\ Free(Key(j)) # {}
  /\ slots' = slots \union {NewName(Key(j))}
  /\ job' = Become(j, "create", NewName(Key(j)))
  /\ UNCHANGED <<poolVars, doomed, stopped, closed, unclean, orphans, lapses, provider>>

\* The answer of the script may be lost after it has taken a slot.
GiveUpWhen(j, may) ==
  /\ At(j, "acquire") /\ may
  /\ job' = Move(j, "off")
  /\ \/ UNCHANGED orphans
     \/ HasRoom /\ orphans' = orphans + 1
  /\ UNCHANGED <<poolVars, doomed, stopped, closed, unclean, slots, lapses, provider>>

\* Variant: a refill waits as long as it takes.
GiveUpCallsOnly(j) == GiveUpWhen(j, j \in Calls)

\* The wait for a slot times out, is cancelled, or ends with an error of Redis.
GiveUp(j) == GiveUpWhen(j, TRUE)

\* The release of a slot is tried once, and its error is dropped.
Release(s) ==
  /\ slots' = slots \ {s}
  /\ \/ UNCHANGED orphans
     \/ s \in slots /\ orphans' = orphans + 1

\* Docker: containers that hold the name of the one that job j creates.
Conflicts(j) == IF named THEN {s \in live : MadeFor[s] = Key(j)} ELSE {}

Created(j) ==
  /\ At(j, "create")
  /\ live' = (live \ Conflicts(j)) \union {job[j].sandbox}
  /\ job' = Move(j, IF j \in Calls THEN "schedule" ELSE "insert")
  /\ UNCHANGED <<poolVars, doomed, stopped, closed, unclean, budgetVars, strays, named>>

\* The slot is released after every error.  The sandbox may run all the same: the
\* answer of the provider was lost, or the attempt to destroy it has failed.
CreateFails(j) ==
  /\ At(j, "create")
  /\ \/ live' \in {live, live \ Conflicts(j)} /\ UNCHANGED strays
     \/ /\ live' = (live \ Conflicts(j)) \union {job[j].sandbox}
        /\ strays' = strays \union {job[j].sandbox}
  /\ Release(job[j].sandbox)
  /\ job' = Become(j, "off", None)
  /\ UNCHANGED <<poolVars, doomed, stopped, closed, unclean, lapses, named>>

\* Variant: the slot is released whatever the provider answers.
DestroyReleasing(s, outcome) ==
  /\ Release(s)
  /\ live' = IF outcome = "failed" THEN live ELSE live \ {s}

Outcomes == {"done", "gone", "failed"}

\* leasedSession.Destroy.  The slot is released when the provider has destroyed
\* the sandbox, or answers that it is gone; after any other error the sandbox may
\* run, and the slot stays taken.
Destroy(s, outcome) ==
  IF outcome \in {"done", "gone"}
  THEN live' = live \ {s} /\ Release(s)
  ELSE UNCHANGED <<live, slots, orphans>>

\* Redis: a lease expires.  That of an owner does when a renewal has failed, which
\* ends the heartbeat; nobody renews an orphan.
Lapse ==
  /\ \/ \E s \in slots : slots' = slots \ {s} /\ lapses' = lapses + 1 /\ UNCHANGED orphans
     \/ orphans > 0 /\ orphans' = orphans - 1 /\ UNCHANGED <<slots, lapses>>
  /\ UNCHANGED <<poolVars, doomed, job, stopped, closed, unclean, provider>>

-----------------------------------------------------------------------------
(* WarmPool *)

Begin(c) ==
  /\ At(c, "off") /\ ~stopped
  /\ job' = Move(c, "checkout")
  /\ UNCHANGED <<poolVars, doomed, stopped, closed, unclean, budgetVars, provider>>

Expired(k) == Range(SubSeq(pool[k], 1, aged[k]))
Fresh(k)   == SubSeq(pool[k], aged[k] + 1, Len(pool[k]))

\* Leave rest in the pool of the caller, who takes the first of found, if any.
Take(c, found, rest) ==
  /\ At(c, "checkout")
  /\ pool' = [pool EXCEPT ![Key(c)] = rest]
  /\ job' = IF found = <<>> THEN Move(c, "acquire") ELSE Become(c, "schedule", Head(found))
  /\ UNCHANGED <<stopped, closed, unclean, budgetVars, provider>>

Discard(k) ==
  /\ doomed' = doomed \union Expired(k)
  /\ aged' = [aged EXCEPT ![k] = 0]

RestOf(s) == IF s = <<>> THEN s ELSE Tail(s)

\* Variants: the TTL is not looked at; the sandbox stays in the pool.
CheckoutStale(c) ==
  Take(c, pool[Key(c)], RestOf(pool[Key(c)])) /\ UNCHANGED <<aged, doomed>>

CheckoutKeeping(c) == Take(c, Fresh(Key(c)), Fresh(Key(c))) /\ Discard(Key(c))

\* Sandboxes past their TTL are thrown away until one is found that is not.
Checkout(c) == Take(c, Fresh(Key(c)), RestOf(Fresh(Key(c)))) /\ Discard(Key(c))

\* scheduleFill, and Create returns its session.
ScheduleFill(c) ==
  /\ At(c, "schedule")
  /\ job' = IF stopped THEN Move(c, "use")
            ELSE [Move(c, "use") EXCEPT ![FillOf(c)].at = "check"]
  /\ UNCHANGED <<poolVars, doomed, stopped, closed, unclean, budgetVars, provider>>

\* The executor destroys its session, and does not try again.
Finish(c) ==
  /\ At(c, "use")
  /\ \E outcome \in Outcomes :
       /\ Destroy(job[c].sandbox, outcome)
       /\ job' = IF outcome = "failed" THEN Move(c, "over") ELSE Become(c, "over", None)
  /\ UNCHANGED <<poolVars, doomed, stopped, closed, unclean, lapses, strays, named>>

FillCheck(f) ==
  /\ At(f, "check")
  /\ job' = Move(f, IF Len(pool[Key(f)]) < Size /\ ~stopped THEN "acquire" ELSE "off")
  /\ UNCHANGED <<poolVars, doomed, stopped, closed, unclean, budgetVars, provider>>

\* Insert the sandbox of a refill, or throw it away.
Insert(f, refused) ==
  /\ At(f, "insert")
  /\ IF refused
     THEN /\ doomed' = doomed \union {job[f].sandbox}
          /\ job' = Become(f, "off", None)
          /\ UNCHANGED pool
     ELSE /\ pool' = [pool EXCEPT ![Key(f)] = Append(@, job[f].sandbox)]
          /\ job' = Become(f, "check", None)
          /\ UNCHANGED doomed
  /\ UNCHANGED <<aged, stopped, closed, unclean, budgetVars, provider>>

\* Variants: the pool is not looked at again after Create; only half of it is.
FillInsertUnchecked(f) == Insert(f, stopped)
FillInsertLate(f)      == Insert(f, Len(pool[Key(f)]) >= Size)

\* The end of fillOne: the pool may have been closed or filled in the meantime.
FillInsert(f) == Insert(f, stopped \/ Len(pool[Key(f)]) >= Size)

\* The oldest sandbox that is not past its TTL gets past it.
Age(k) ==
  /\ aged[k] < Len(pool[k])
  /\ aged' = [aged EXCEPT ![k] = @ + 1]
  /\ UNCHANGED <<pool, doomed, job, stopped, closed, unclean, budgetVars, provider>>

\* Variant: what has expired stays in the list.
ExpireKeeping ==
  /\ \E k \in Keys : aged[k] > 0
  /\ doomed' = doomed \union UNION {Expired(k) : k \in Keys}
  /\ aged' = [k \in Keys |-> 0]
  /\ UNCHANGED <<pool, job, stopped, closed, unclean, budgetVars, provider>>

ExpireIdle ==
  /\ \E k \in Keys : aged[k] > 0
  /\ doomed' = doomed \union UNION {Expired(k) : k \in Keys}
  /\ pool' = [k \in Keys |-> Fresh(k)]
  /\ aged' = [k \in Keys |-> 0]
  /\ UNCHANGED <<job, stopped, closed, unclean, budgetVars, provider>>

\* destroyQuiet, and the destroys of Close.  Here a sandbox that is gone is an
\* error as well.
DestroyQuiet(s) ==
  /\ s \in doomed
  /\ \E outcome \in Outcomes :
       /\ Destroy(s, outcome)
       /\ unclean' = (unclean \/ outcome # "done")
  /\ doomed' = doomed \ {s}
  /\ UNCHANGED <<poolVars, job, stopped, closed, lapses, strays, named>>

Close ==
  /\ ~stopped
  /\ stopped' = TRUE
  /\ doomed' = doomed \union Warm
  /\ pool' = [k \in Keys |-> <<>>] /\ aged' = [k \in Keys |-> 0]
  /\ UNCHANGED <<job, closed, unclean, budgetVars, provider>>

\* What the wait group of the pool counts: the refills, and the calls of Create.
Tracked == {j \in Jobs : job[j].at \notin {"off", "use", "over"}}

CloseDone ==
  /\ stopped /\ ~closed
  /\ doomed = {} /\ Tracked = {}
  /\ closed' = TRUE
  /\ UNCHANGED <<poolVars, doomed, job, stopped, unclean, budgetVars, provider>>

-----------------------------------------------------------------------------
Create(j) == Created(j) \/ CreateFails(j)

\* The step of a call of Create, or of a refill, that is on its way.
Step(j) ==
  \/ Acquire(j) \/ GiveUp(j) \/ Create(j)
  \/ j \in Calls /\ (Checkout(j) \/ ScheduleFill(j))
  \/ j \in Fills /\ (FillCheck(j) \/ FillInsert(j))

\* The steps that a goroutine of the pool takes when it is scheduled.
Progress ==
  \/ \E j \in Jobs : Step(j)
  \/ \E s \in Sandboxes : DestroyQuiet(s)
  \/ CloseDone

Mishaps == lapses + orphans + Cardinality(strays)

Next ==
  /\ \/ Progress
     \/ \E c \in Calls : Begin(c) \/ Finish(c)
     \/ \E k \in Keys : Age(k)
     \/ Lapse \/ ExpireIdle \/ Close
  /\ Mishaps' <= MaxMishaps

Spec == Init /\ [][Next]_vars

\* While a goroutine of the pool can go on, one does: the wait for a slot has a
\* deadline, and every request to the provider has one.
Fairness == WF_vars(Progress)

FairSpec == Spec /\ Fairness

-----------------------------------------------------------------------------
(* Properties *)

Positions == {"off", "checkout", "check", "acquire", "create", "schedule", "insert",
              "use", "over"}

\* The state of the pool, its jobs and the budget has its type.
PoolTypeOK ==
  /\ pool \in [Keys -> Seq(Sandboxes)]
  /\ aged \in [Keys -> Nat] /\ \A k \in Keys : aged[k] <= Len(pool[k])
  /\ doomed \subseteq Sandboxes /\ live \subseteq Sandboxes /\ slots \subseteq Sandboxes
  /\ job \in [Jobs -> [at : Positions, sandbox : Sandboxes \union {None}]]
  /\ stopped \in BOOLEAN /\ closed \in BOOLEAN /\ unclean \in BOOLEAN
  /\ orphans \in Nat /\ lapses \in Nat /\ strays \subseteq Sandboxes /\ named \in BOOLEAN

\* However many refills run, a pool is never larger than it should be.
PoolBounded == \A k \in Keys : Len(pool[k]) <= Size

\* Never more sandboxes run than the budget allows and leases have lapsed, also
\* when Destroy fails; not counted are those that a failed Create has left behind.
LiveWithinBudget == Cardinality(live \ strays) <= MaxLive + lapses

\* Every slot that is taken is that of somebody who has or creates a sandbox, or
\* an orphan, unless a Destroy has failed.
SlotsAccountedFor == slots \subseteq Held \/ unclean

\* Slots and sandboxes correspond in both directions.
BudgetIsExact == LiveWithinBudget /\ SlotsAccountedFor

\* A sandbox belongs to one user, one refill, one place of one pool or one
\* goroutine that destroys it: the worker never hands it out twice, and never
\* destroys what it has handed out.
OneOwner ==
  /\ \A k, l \in Keys : \A m \in DOMAIN pool[k], n \in DOMAIN pool[l] :
       pool[k][m] = pool[l][n] => k = l /\ m = n
  /\ Warm \intersect doomed = {}
  /\ \A j \in Jobs :
       /\ job[j].sandbox \notin Warm \union doomed
       /\ \A k \in Jobs : job[j].sandbox = job[k].sandbox => j = k \/ job[j].sandbox = None

\* Jobs that have a sandbox to insert or to use.
Owners == {j \in Jobs : job[j].at \in {"insert", "schedule", "use"}}

\* No sandbox disappears while it waits in the pool or is in use, whoever creates
\* or destroys others at that time, if the provider gives each its own name.
OwnedSandboxRuns == named \/ Warm \union {job[j].sandbox : j \in Owners} \subseteq live

\* When Close has returned without an error, no sandbox runs that the pool has
\* created and not handed out, and the pool does nothing any more.  What a failed
\* Create has left behind is unknown to the pool.
CloseLeavesNothing ==
  closed => /\ live \subseteq {job[c].sandbox : c \in Calls} \union strays \/ unclean
            /\ Warm = {} /\ Tracked = {} /\ doomed = {}

\* Close returns, although refills and callers may be waiting for a slot that is
\* never released.
CloseReturns == stopped ~> closed
=============================================================================
