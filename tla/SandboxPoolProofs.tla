-------------------------- MODULE SandboxPoolProofs --------------------------
(***************************************************************************)
(* The safety of SandboxPool for every set of callers, every assignment of *)
(* keys, every pool size, budget and number of mishaps.                    *)
(*                                                                         *)
(* The jobs, the pools and the destroying goroutines own sandboxes; Owners *)
(* says that nobody shares one.  Books relates what is owned to the two    *)
(* ledgers, the slots of the budget and the sandboxes at the provider.     *)
(* Orphans and strays aside, every entry has an owner unless a destroy has *)
(* failed, and only lapsed leases make sandboxes without a slot.  Runs     *)
(* says that what is owned is there.                                       *)
(*                                                                         *)
(* At the end: what Close waits for only becomes less (ClosingWinds).      *)
(***************************************************************************)
EXTENDS SandboxPool, FiniteSetTheorems, SequenceTheorems, TLAPS

USE PoolAssumption DEF PoolAssumption

JobType == [at : Positions, sandbox : Sandboxes \union {None}]

\* What a job holds at its position, and when its refill can be under way.
Shape(j) ==
  /\ job[j].at \in {"off", "checkout", "check", "acquire"} => job[j].sandbox = None
  /\ job[j].at \in {"create", "schedule", "insert", "use"} => job[j].sandbox \in Sandboxes
  /\ j \in Calls => job[j].at \notin {"check", "insert"}
  /\ j \in Fills => job[j].at \notin {"checkout", "schedule", "use"}
  /\ j \in Fills /\ job[j].at = "over" => job[j].sandbox = None
  /\ j \in Calls /\ job[j].at \notin {"use", "over"} => job[FillOf(j)].at = "off"

\* No sandbox is at two places of the pools, and no two owners share one.
OnePlace ==
  \A k, l \in Keys : \A m \in 1..Len(pool[k]), n \in 1..Len(pool[l]) :
    pool[k][m] = pool[l][n] => k = l /\ m = n

Apart ==
  /\ Warm \intersect doomed = {}
  /\ \A j \in Jobs : job[j].sandbox \notin Warm \union doomed
  /\ \A i, j \in Jobs : job[i].sandbox = job[j].sandbox => i = j \/ job[i].sandbox = None

\* Sandboxes that run or are about to.
Coming == {job[j].sandbox : j \in {i \in Jobs : At(i, "create")}}
Living == live \union Coming

\* Those that have no slot, although no Create has failed to tell of them.
Unleased == (Living \ strays) \ slots

Books ==
  /\ Cardinality(slots) <= MaxLive
  /\ Cardinality(Unleased) <= lapses
  /\ Coming \intersect (live \union strays) = {}
  /\ slots \union (live \ strays) \subseteq Held \/ unclean

\* Sandboxes that wait in a pool, and those that a job inserts or uses, are there.
Owning(j) == job[j].at \in {"insert", "schedule", "use"}

Runs ==
  \/ named
  \/ Warm \subseteq live /\ \A j \in Jobs : Owning(j) => job[j].sandbox \in live

Stops ==
  /\ stopped => Warm = {}
  /\ closed => stopped /\ doomed = {} /\ Tracked = {}

PoolInv ==
  /\ PoolTypeOK
  /\ \A j \in Jobs : Shape(j)
  /\ OnePlace
  /\ Apart
  /\ Books
  /\ Runs
  /\ Stops
  /\ PoolBounded

-----------------------------------------------------------------------------
(* Jobs *)

\* Calls and refills are different jobs, and the refill of a call is a job.
LEMMA JobsDiffer ==
  /\ Calls \intersect Fills = {}
  /\ \A c \in Calls : FillOf(c) \in Fills
  /\ \A c, d \in Calls : FillOf(c) = FillOf(d) => c = d
  /\ \A j \in Jobs : Key(j) \in Keys
  BY DEF Calls, Fills, FillOf, Jobs, Key, Keys

\* What the updates of a job change.
LEMMA MoveJob ==
  ASSUME job \in [Jobs -> JobType], NEW j \in Jobs, NEW at \in Positions,
         job' = Move(j, at)
  PROVE  /\ job' \in [Jobs -> JobType]
         /\ job'[j].at = at /\ job'[j].sandbox = job[j].sandbox
         /\ \A i \in Jobs : i # j => job'[i] = job[i]
<1>1. job[j] \in JobType /\ [job[j] EXCEPT !.at = at] \in JobType
      /\ [job[j] EXCEPT !.at = at].at = at
      /\ [job[j] EXCEPT !.at = at].sandbox = job[j].sandbox
  BY DEF JobType
<1>. QED  BY <1>1 DEF Move

\* The same when it comes to hold a sandbox, or gives it away.
LEMMA BecomeJob ==
  ASSUME job \in [Jobs -> JobType], NEW j \in Jobs, NEW at \in Positions,
         NEW s \in Sandboxes \union {None}, job' = Become(j, at, s)
  PROVE  /\ job' \in [Jobs -> JobType]
         /\ job'[j].at = at /\ job'[j].sandbox = s
         /\ \A i \in Jobs : i # j => job'[i] = job[i]
  BY DEF Become, JobType

\* A caller that has its sandbox and starts its refill.
LEMMA ScheduleJob ==
  ASSUME job \in [Jobs -> JobType], NEW c \in Calls,
         job' = [Move(c, "use") EXCEPT ![FillOf(c)].at = "check"]
  PROVE  /\ job' \in [Jobs -> JobType]
         /\ job'[c].at = "use" /\ job'[FillOf(c)].at = "check"
         /\ \A i \in Jobs : job'[i].sandbox = job[i].sandbox
         /\ \A i \in Jobs : i # c /\ i # FillOf(c) => job'[i] = job[i]
<1>. DEFINE mid == [job EXCEPT ![c].at = "use"]
<1>1. c \in Jobs /\ FillOf(c) \in Jobs /\ c # FillOf(c)
  BY JobsDiffer DEF Jobs
<1>2. /\ mid \in [Jobs -> JobType] /\ mid[c].at = "use" /\ mid[c].sandbox = job[c].sandbox
      /\ \A i \in Jobs : i # c => mid[i] = job[i]
  <2>1. [job[c] EXCEPT !.at = "use"] \in JobType /\ [job[c] EXCEPT !.at = "use"].at = "use"
        /\ [job[c] EXCEPT !.at = "use"].sandbox = job[c].sandbox
    BY <1>1 DEF JobType, Positions
  <2>. QED  BY <1>1, <2>1
<1>3. job' = [mid EXCEPT ![FillOf(c)].at = "check"]
  BY DEF Move
<1>4. [mid[FillOf(c)] EXCEPT !.at = "check"] \in JobType
      /\ [mid[FillOf(c)] EXCEPT !.at = "check"].at = "check"
      /\ [mid[FillOf(c)] EXCEPT !.at = "check"].sandbox = mid[FillOf(c)].sandbox
  BY <1>1, <1>2 DEF JobType, Positions
<1>. HIDE DEF mid
<1>. QED  BY <1>1, <1>2, <1>3, <1>4

-----------------------------------------------------------------------------
(* Pools *)

\* The sandboxes of the pools by their places.
LEMMA WarmPlaces ==
  ASSUME pool \in [Keys -> Seq(Sandboxes)]
  PROVE  \A s : s \in Warm <=> \E k \in Keys : \E m \in 1..Len(pool[k]) : s = pool[k][m]
  BY DEF Warm, Range

\* All of them are sandboxes.
LEMMA WarmType == PoolTypeOK => Warm \subseteq Sandboxes
<1>. SUFFICES ASSUME PoolTypeOK, NEW s \in Warm PROVE s \in Sandboxes
  OBVIOUS
<1>0. pool \in [Keys -> Seq(Sandboxes)]
  BY DEF PoolTypeOK
<1>1. PICK k \in Keys : \E m \in 1..Len(pool[k]) : s = pool[k][m]
  BY <1>0, WarmPlaces
<1>2. pool[k] \in Seq(Sandboxes)
  BY <1>0
<1>. QED  BY <1>1, <1>2, ElementOfSeq

\* The ones past their TTL.
LEMMA ExpiredPlaces ==
  ASSUME PoolTypeOK, NEW k \in Keys
  PROVE  /\ \A s : s \in Expired(k) <=> \E m \in 1..aged[k] : s = pool[k][m]
         /\ Fresh(k) \in Seq(Sandboxes) /\ Len(Fresh(k)) = Len(pool[k]) - aged[k]
         /\ \A m \in 1..Len(Fresh(k)) : Fresh(k)[m] = pool[k][aged[k] + m]
<1>1. pool[k] \in Seq(Sandboxes) /\ aged[k] \in Nat /\ aged[k] <= Len(pool[k])
  BY DEF PoolTypeOK
<1>2. Len(pool[k]) \in Nat
  BY <1>1
<1>3. /\ SubSeq(pool[k], 1, aged[k]) \in Seq(Sandboxes)
      /\ Len(SubSeq(pool[k], 1, aged[k])) = aged[k]
      /\ \A m \in 1..aged[k] : SubSeq(pool[k], 1, aged[k])[m] = pool[k][m]
  BY <1>1, <1>2, SubSeqProperties
<1>4. /\ Fresh(k) \in Seq(Sandboxes) /\ Len(Fresh(k)) = Len(pool[k]) - aged[k]
      /\ \A m \in 1..Len(Fresh(k)) : Fresh(k)[m] = pool[k][aged[k] + m]
  <2>1. aged[k] + 1 \in 1..(Len(pool[k]) + 1) /\ Len(pool[k]) \in aged[k]..Len(pool[k])
    BY <1>1, <1>2
  <2>2. Fresh(k) = SubSeq(pool[k], aged[k] + 1, Len(pool[k]))
    BY DEF Fresh
  <2>. QED  BY <1>1, <1>2, <2>1, <2>2, SubSeqProperties
<1>5. \A s : s \in Expired(k) <=> \E m \in 1..aged[k] : s = pool[k][m]
  BY <1>3 DEF Expired, Range
<1>. QED  BY <1>4, <1>5

\* The places of a tail.
LEMMA TailPlaces ==
  ASSUME NEW S, NEW q \in Seq(S), q # <<>>
  PROVE  /\ Tail(q) \in Seq(S) /\ Len(q) \in Nat \ {0} /\ Len(Tail(q)) = Len(q) - 1
         /\ \A m \in 1..Len(Tail(q)) : m + 1 \in 1..Len(q) /\ Tail(q)[m] = q[m + 1]
<1>1. /\ Tail(q) \in Seq(S) /\ Len(Tail(q)) = Len(q) - 1
      /\ \A m \in 1..Len(Tail(q)) : Tail(q)[m] = q[m + 1]
  BY HeadTailProperties
<1>2. Len(q) \in Nat \ {0}
  BY EmptySeq
<1>3. PICK n \in Nat : Len(q) = n + 1
  BY <1>2
<1>4. Len(Tail(q)) = n
  BY <1>1, <1>3
<1>5. \A m \in 1..n : m + 1 \in 1..(n + 1)
  OBVIOUS
<1>. QED  BY <1>1, <1>2, <1>3, <1>4, <1>5

\* Every pool loses the first few of its sandboxes.
Trimmed(off) ==
  /\ pool' \in [Keys -> Seq(Sandboxes)]
  /\ \A k \in Keys :
       /\ off[k] \in Nat /\ off[k] <= Len(pool[k])
       /\ Len(pool'[k]) = Len(pool[k]) - off[k]
       /\ \A m \in 1..Len(pool'[k]) : pool'[k][m] = pool[k][off[k] + m]

\* The sandboxes that are lost are the first ones, and no others.
LEMMA TrimPool ==
  ASSUME pool \in [Keys -> Seq(Sandboxes)], OnePlace, NEW off, Trimmed(off)
  PROVE  /\ OnePlace'
         /\ \A s : s \in Warm' =>
              s \in Warm /\ ~ \E k \in Keys : \E m \in 1..off[k] : s = pool[k][m]
         /\ \A s : s \in Warm =>
              s \in Warm' \/ \E k \in Keys : \E m \in 1..off[k] : s = pool[k][m]
<1>0. /\ \A k \in Keys : Len(pool[k]) \in Nat /\ Len(pool'[k]) \in Nat
      /\ \A k \in Keys : off[k] \in Nat /\ off[k] <= Len(pool[k])
      /\ \A k \in Keys : Len(pool'[k]) = Len(pool[k]) - off[k]
      /\ pool' \in [Keys -> Seq(Sandboxes)]
  BY DEF Trimmed
<1>1. ASSUME NEW k \in Keys, NEW m \in 1..Len(pool'[k])
      PROVE  off[k] + m \in 1..Len(pool[k]) /\ off[k] + m \notin 1..off[k]
             /\ pool'[k][m] = pool[k][off[k] + m]
  BY <1>0 DEF Trimmed
<1>2. \A s : s \in Warm' <=> \E k \in Keys : \E m \in 1..Len(pool'[k]) : s = pool'[k][m]
  BY <1>0, WarmPlaces DEF Warm, Range
<1>3. OnePlace'
  <2>. SUFFICES ASSUME NEW k \in Keys, NEW l \in Keys, NEW m \in 1..Len(pool'[k]),
                       NEW n \in 1..Len(pool'[l]), pool'[k][m] = pool'[l][n]
                PROVE  k = l /\ m = n
    BY DEF OnePlace
  <2>1. pool[k][off[k] + m] = pool[l][off[l] + n]
        /\ off[k] + m \in 1..Len(pool[k]) /\ off[l] + n \in 1..Len(pool[l])
    BY <1>1
  <2>2. k = l /\ off[k] + m = off[l] + n
    BY <2>1 DEF OnePlace
  <2>. QED  BY <1>0, <2>2
<1>4. ASSUME NEW s, s \in Warm'
      PROVE  s \in Warm /\ ~ \E k \in Keys : \E m \in 1..off[k] : s = pool[k][m]
  <2>0. PICK k \in Keys : \E m \in 1..Len(pool'[k]) : s = pool'[k][m]
    BY <1>2, <1>4
  <2>1. PICK m \in 1..Len(pool'[k]) : s = pool'[k][m]
    BY <2>0
  <2>2. s = pool[k][off[k] + m] /\ off[k] + m \in 1..Len(pool[k])
    BY <1>1, <2>1
  <2>3. ASSUME NEW l \in Keys, NEW n \in 1..off[l], s = pool[l][n] PROVE FALSE
    <3>1. n \in 1..Len(pool[l])
      BY <1>0
    <3>2. PICK p \in 1..Len(pool[k]) : p = off[k] + m /\ s = pool[k][p]
      BY <2>2
    <3>3. \A i \in 1..Len(pool[k]), h \in 1..Len(pool[l]) :
            pool[k][i] = pool[l][h] => k = l /\ i = h
      BY DEF OnePlace
    <3>4. k = l /\ p = n
      BY <2>3, <3>1, <3>2, <3>3
    <3>. QED  BY <1>0, <3>2, <3>4
  <2>. QED  BY <2>2, <2>3, WarmPlaces
<1>5. ASSUME NEW s, s \in Warm
      PROVE  s \in Warm' \/ \E k \in Keys : \E m \in 1..off[k] : s = pool[k][m]
  <2>0. PICK k \in Keys : \E m \in 1..Len(pool[k]) : s = pool[k][m]
    BY <1>5, WarmPlaces
  <2>1. PICK m \in 1..Len(pool[k]) : s = pool[k][m]
    BY <2>0
  <2>2. CASE m \notin 1..off[k]
    <3>1. m - off[k] \in 1..Len(pool'[k]) /\ off[k] + (m - off[k]) = m
      BY <1>0, <2>2
    <3>2. pool'[k][m - off[k]] = s
      BY <2>1, <3>1 DEF Trimmed
    <3>. QED  BY <1>2, <3>1, <3>2
  <2>. QED  BY <2>1, <2>2
<1>. QED  BY <1>3, <1>4, <1>5
-----------------------------------------------------------------------------
(* The ledgers *)

\* Sets of sandboxes are finite, and taking one out, or adding one, changes their
\* cardinality by at most one.
LEMMA Counting ==
  ASSUME NEW S \in SUBSET Sandboxes
  PROVE  /\ Cardinality(S) \in Nat
         /\ \A T \in SUBSET S : Cardinality(T) <= Cardinality(S)
         /\ \A x \in Sandboxes : Cardinality(S \union {x}) <= Cardinality(S) + 1
<1>1. IsFiniteSet(S) /\ Cardinality(S) \in Nat
  BY FS_Subset, FS_CardinalityType
<1>2. \A T \in SUBSET S : Cardinality(T) <= Cardinality(S)
  BY <1>1, FS_Subset
<1>3. \A x \in Sandboxes : Cardinality(S \union {x}) <= Cardinality(S) + 1
  <2>. SUFFICES ASSUME NEW x \in Sandboxes PROVE Cardinality(S \union {x}) <= Cardinality(S) + 1
    OBVIOUS
  <2>1. CASE x \in S
    <3>1. Cardinality(S \union {x}) = Cardinality(S)
      BY <1>1, <2>1, FS_AddElement
    <3>. QED  BY <1>1, <3>1
  <2>2. CASE x \notin S
    <3>1. Cardinality(S \union {x}) = Cardinality(S) + 1
      BY <1>1, <2>2, FS_AddElement
    <3>. QED  BY <1>1, <3>1
  <2>. QED  BY <2>1, <2>2
<1>. QED  BY <1>1, <1>2, <1>3

\* The books stay right when slots and sandboxes without a slot do not get more,
\* and everything in them still has its owner.
LEMMA KeepBooks ==
  ASSUME PoolTypeOK, Books, slots' \subseteq slots, lapses' = lapses,
         Unleased' \subseteq Unleased, Coming \subseteq Sandboxes,
         Coming' \intersect (live' \union strays') = {},
         slots' \union (live' \ strays') \subseteq Held' \/ unclean'
  PROVE  Books'
<1>1. slots \in SUBSET Sandboxes /\ Unleased \in SUBSET Sandboxes /\ lapses \in Nat
  BY DEF PoolTypeOK, Living, Unleased
<1>2. /\ Cardinality(slots) \in Nat /\ Cardinality(slots') \in Nat
      /\ Cardinality(slots') <= Cardinality(slots)
  BY <1>1, Counting
<1>3. /\ Cardinality(Unleased) \in Nat /\ Cardinality(Unleased') \in Nat
      /\ Cardinality(Unleased') <= Cardinality(Unleased)
  BY <1>1, Counting
<1>4. Cardinality(slots') <= MaxLive /\ Cardinality(Unleased') <= lapses'
  BY <1>1, <1>2, <1>3 DEF Books
<1>. QED  BY <1>4 DEF Books

\* Jobs that create a sandbox hold one.
LEMMA ComingType == PoolTypeOK /\ (\A j \in Jobs : Shape(j)) => Coming \subseteq Sandboxes
  BY DEF Coming, Shape, At

-----------------------------------------------------------------------------
(* Steps *)

\* Steps of jobs that hold on to what they have.
LEMMA Walk ==
  ASSUME PoolInv, UNCHANGED <<pool, aged, doomed, stopped, closed, unclean, slots, lapses, live,
                             strays, named>>,
         orphans' \in Nat, job' \in [Jobs -> JobType],
         \A i \in Jobs : /\ job'[i].sandbox = job[i].sandbox /\ Shape(i)'
                         /\ job'[i].at = "create" <=> job[i].at = "create"
                         /\ Owning(i)' => Owning(i),
         closed => Tracked' = {}
  PROVE  PoolInv'
<1>1. PoolTypeOK'
  BY DEF PoolInv, PoolTypeOK, JobType
<1>2. /\ Warm' = Warm /\ Coming' = Coming /\ Living' = Living /\ Held' = Held
      /\ Unleased' = Unleased
  BY DEF Warm, Coming, Living, Unleased, Held, At
<1>3. Apart' /\ OnePlace' /\ Books' /\ Stops' /\ PoolBounded'
  BY <1>2 DEF PoolInv, Apart, OnePlace, Books, Stops, PoolBounded
<1>4. Runs'
  BY <1>2 DEF PoolInv, Runs
<1>. QED  BY <1>1, <1>3, <1>4 DEF PoolInv

\* A call or refill that stops waiting for a slot owns nothing (capacity.go:158).
LEMMA GiveUpInv == ASSUME PoolInv, NEW j \in Jobs, GiveUp(j) PROVE PoolInv'
<1>1. /\ job \in [Jobs -> JobType] /\ job[j].at = "acquire" /\ job' = Move(j, "off")
      /\ UNCHANGED <<pool, aged, doomed, stopped, closed, unclean, slots, lapses, live, strays,
                     named>>
      /\ orphans' \in Nat
  BY DEF PoolInv, PoolTypeOK, JobType, GiveUp, GiveUpWhen, At, poolVars, provider
<1>2. /\ job' \in [Jobs -> JobType] /\ job'[j].at = "off" /\ job'[j].sandbox = job[j].sandbox
      /\ \A i \in Jobs : i # j => job'[i] = job[i]
  BY <1>1, MoveJob DEF Positions
<1>3. \A i \in Jobs : Shape(i)'
  BY <1>1, <1>2, JobsDiffer DEF PoolInv, Shape, Jobs
<1>4. closed => Tracked' = {}
  BY <1>1, <1>2 DEF PoolInv, Stops, Tracked
<1>. QED  BY <1>1, <1>2, <1>3, <1>4, Walk DEF Owning

\* A caller that begins owns nothing yet (warm_pool.go:241).
LEMMA BeginInv == ASSUME PoolInv, NEW c \in Calls, Begin(c) PROVE PoolInv'
<1>1. /\ job \in [Jobs -> JobType] /\ job[c].at = "off" /\ job' = Move(c, "checkout")
      /\ c \in Jobs /\ ~stopped
      /\ UNCHANGED <<pool, aged, doomed, stopped, closed, unclean, slots, orphans, lapses, live,
                     strays, named>>
  BY DEF PoolInv, PoolTypeOK, JobType, Begin, At, poolVars, budgetVars, provider, Jobs
<1>2. /\ job' \in [Jobs -> JobType] /\ job'[c].at = "checkout"
      /\ job'[c].sandbox = job[c].sandbox
      /\ \A i \in Jobs : i # c => job'[i] = job[i]
  BY <1>1, MoveJob DEF Positions
<1>3. \A i \in Jobs : Shape(i)'
  BY <1>1, <1>2, JobsDiffer DEF PoolInv, Shape, Jobs
<1>4. ~closed
  BY <1>1 DEF PoolInv, Stops
<1>5. orphans' \in Nat
  BY <1>1 DEF PoolInv, PoolTypeOK
<1>. QED  BY <1>1, <1>2, <1>3, <1>4, <1>5, Walk DEF Owning

\* A refill that looks at the pool changes only its own position (warm_pool.go:274).
LEMMA FillCheckInv == ASSUME PoolInv, NEW f \in Fills, FillCheck(f) PROVE PoolInv'
<1>. DEFINE at == IF Len(pool[Key(f)]) < Size /\ ~stopped THEN "acquire" ELSE "off"
<1>1. /\ job \in [Jobs -> JobType] /\ job[f].at = "check" /\ job' = Move(f, at)
      /\ f \in Jobs /\ at \in {"acquire", "off"} /\ at \in Positions
      /\ UNCHANGED <<pool, aged, doomed, stopped, closed, unclean, slots, orphans, lapses, live,
                     strays, named>>
  BY DEF PoolInv, PoolTypeOK, JobType, FillCheck, At, poolVars, budgetVars, provider, Jobs, Positions
<1>. HIDE DEF at
<1>2. /\ job' \in [Jobs -> JobType] /\ job'[f].at = at /\ job'[f].sandbox = job[f].sandbox
      /\ \A i \in Jobs : i # f => job'[i] = job[i]
  BY <1>1, MoveJob
<1>3. \A i \in Jobs : Shape(i)'
  <2>1. \A c \in Calls : job[c].at \notin {"use", "over"} => FillOf(c) # f
    BY <1>1 DEF PoolInv, Shape, Jobs
  <2>. QED  BY <1>1, <1>2, <2>1, JobsDiffer DEF PoolInv, Shape, Jobs
<1>4. ~closed
  BY <1>1 DEF PoolInv, Stops, Tracked
<1>5. orphans' \in Nat
  BY <1>1 DEF PoolInv, PoolTypeOK
<1>. QED  BY <1>1, <1>2, <1>3, <1>4, <1>5, Walk DEF Owning

\* Scheduling a refill starts it empty-handed (warm_pool.go:194).
LEMMA ScheduleFillInv == ASSUME PoolInv, NEW c \in Calls, ScheduleFill(c) PROVE PoolInv'
<1>1. /\ job \in [Jobs -> JobType] /\ job[c].at = "schedule" /\ c \in Jobs
      /\ UNCHANGED <<pool, aged, doomed, stopped, closed, unclean, slots, orphans, lapses, live,
                     strays, named>>
  BY DEF PoolInv, PoolTypeOK, JobType, ScheduleFill, At, poolVars, budgetVars, provider, Jobs
<1>2. ~closed
  BY <1>1 DEF PoolInv, Stops, Tracked
<1>5. orphans' \in Nat
  BY <1>1 DEF PoolInv, PoolTypeOK
<1>3. CASE stopped
  <2>1. /\ job' \in [Jobs -> JobType] /\ job'[c].at = "use" /\ job'[c].sandbox = job[c].sandbox
        /\ \A i \in Jobs : i # c => job'[i] = job[i]
    BY <1>1, <1>3, MoveJob DEF Positions, ScheduleFill
  <2>2. \A i \in Jobs : Shape(i)'
    BY <1>1, <2>1, JobsDiffer DEF PoolInv, Shape, Jobs
  <2>. QED  BY <1>1, <1>2, <1>5, <2>1, <2>2, Walk DEF Owning
<1>4. CASE ~stopped
  <2>1. /\ job' \in [Jobs -> JobType]
        /\ job'[c].at = "use" /\ job'[FillOf(c)].at = "check"
        /\ \A i \in Jobs : job'[i].sandbox = job[i].sandbox
        /\ \A i \in Jobs : i # c /\ i # FillOf(c) => job'[i] = job[i]
    BY <1>1, <1>4, ScheduleJob DEF ScheduleFill
  <2>2. job[FillOf(c)].at = "off" /\ FillOf(c) \in Fills
    BY <1>1, JobsDiffer DEF PoolInv, Shape
  <2>3. \A i \in Jobs : Shape(i)'
    BY <1>1, <2>1, <2>2, JobsDiffer DEF PoolInv, Shape, Jobs
  <2>4. \A i \in Jobs : job'[i].at = "create" <=> job[i].at = "create"
    BY <1>1, <2>1, <2>2
  <2>5. \A i \in Jobs : Owning(i)' => Owning(i)
    BY <1>1, <2>1, <2>2 DEF Owning
  <2>. QED  BY <1>1, <1>2, <1>5, <2>1, <2>3, <2>4, <2>5, Walk
<1>. QED  BY <1>3, <1>4

\* Getting old moves no sandbox (warm_pool.go:257).
LEMMA AgeInv == ASSUME PoolInv, NEW k \in Keys, Age(k) PROVE PoolInv'
<1>1. /\ aged[k] < Len(pool[k]) /\ aged' = [aged EXCEPT ![k] = @ + 1]
      /\ UNCHANGED <<pool, doomed, job, stopped, closed, unclean, slots, orphans, lapses, live,
                     strays, named>>
  BY DEF Age, budgetVars, provider
<1>2. PoolTypeOK'
  <2>1. aged \in [Keys -> Nat] /\ (\A l \in Keys : aged[l] <= Len(pool[l]))
        /\ pool \in [Keys -> Seq(Sandboxes)]
    BY DEF PoolInv, PoolTypeOK
  <2>2. aged' \in [Keys -> Nat] /\ \A l \in Keys : aged'[l] <= Len(pool'[l])
    BY <1>1, <2>1
  <2>. QED  BY <1>1, <2>2 DEF PoolInv, PoolTypeOK
<1>3. /\ Warm' = Warm /\ Coming' = Coming /\ Unleased' = Unleased /\ Held' = Held
      /\ Tracked' = Tracked /\ \A j \in Jobs : Owning(j)' = Owning(j)
  BY <1>1 DEF Warm, Coming, Living, Unleased, Held, At, Tracked, Owning
<1>4. \A j \in Jobs : Shape(j)'
  BY <1>1 DEF PoolInv, Shape
<1>5. Apart' /\ OnePlace' /\ Books' /\ Runs' /\ Stops' /\ PoolBounded'
  BY <1>1, <1>3 DEF PoolInv, Apart, OnePlace, Books, Runs, Stops, PoolBounded
<1>. QED  BY <1>2, <1>4, <1>5 DEF PoolInv

\* A lease that lapses gives back a slot: its sandbox lives on, or nobody has known of
\* it (budget.go:193).
LEMMA LapseInv == ASSUME PoolInv, Lapse PROVE PoolInv'
<1>1. /\ UNCHANGED <<pool, aged, doomed, job, stopped, closed, unclean, live, strays, named>>
      /\ slots' \subseteq slots
      /\ \/ \E s \in slots : slots' = slots \ {s} /\ lapses' = lapses + 1
         \/ UNCHANGED <<slots, lapses>>
      /\ orphans' \in Nat /\ lapses' \in Nat
  BY DEF Lapse, poolVars, provider, PoolInv, PoolTypeOK
<1>2. PoolTypeOK' /\ lapses \in Nat
  BY <1>1 DEF PoolInv, PoolTypeOK
<1>3. /\ Warm' = Warm /\ Coming' = Coming /\ Living' = Living /\ Held' = Held
      /\ Tracked' = Tracked /\ \A j \in Jobs : Owning(j)' = Owning(j)
  BY <1>1 DEF Warm, Coming, Living, Held, At, Tracked, Owning
<1>4. \A j \in Jobs : Shape(j)'
  BY <1>1 DEF PoolInv, Shape
<1>5. Apart' /\ OnePlace' /\ Runs' /\ Stops' /\ PoolBounded'
  BY <1>1, <1>3 DEF PoolInv, Apart, OnePlace, Runs, Stops, PoolBounded
<1>6. Books'
  <2>1. slots \in SUBSET Sandboxes /\ Unleased \in SUBSET Sandboxes
    BY ComingType DEF PoolInv, PoolTypeOK, Living, Unleased
  <2>2. Cardinality(slots') <= MaxLive
    <3>1. Cardinality(slots) \in Nat /\ Cardinality(slots') \in Nat
          /\ Cardinality(slots') <= Cardinality(slots)
      BY <1>1, <2>1, Counting
    <3>. QED  BY <3>1 DEF PoolInv, Books
  <2>3. Cardinality(Unleased') <= lapses'
    <3>1. CASE UNCHANGED <<slots, lapses>>
      BY <1>1, <1>3, <3>1 DEF PoolInv, Books, Unleased
    <3>2. ASSUME NEW s \in slots, slots' = slots \ {s}, lapses' = lapses + 1
          PROVE  Cardinality(Unleased') <= lapses'
      <4>1. Unleased' \in SUBSET (Unleased \union {s}) /\ s \in Sandboxes
        BY <1>1, <1>3, <2>1, <3>2 DEF Unleased
      <4>2. Unleased \union {s} \in SUBSET Sandboxes /\ Unleased' \in SUBSET Sandboxes
        BY <2>1, <4>1
      <4>3. Cardinality(Unleased') <= Cardinality(Unleased \union {s})
        BY <4>1, <4>2, Counting
      <4>4. Cardinality(Unleased \union {s}) <= Cardinality(Unleased) + 1
        BY <2>1, <4>1, Counting
      <4>5. /\ Cardinality(Unleased') \in Nat /\ Cardinality(Unleased) \in Nat
            /\ Cardinality(Unleased \union {s}) \in Nat
        BY <2>1, <4>2, Counting
      <4>. QED  BY <1>2, <3>2, <4>3, <4>4, <4>5 DEF PoolInv, Books
    <3>. QED  BY <1>1, <3>1, <3>2
  <2>. QED  BY <1>1, <1>3, <2>2, <2>3 DEF PoolInv, Books
<1>. QED  BY <1>2, <1>4, <1>5, <1>6 DEF PoolInv

\* A slot that is acquired belongs to a new name (capacity.go:102).
LEMMA AcquireInv == ASSUME PoolInv, NEW j \in Jobs, Acquire(j) PROVE PoolInv'
<1>. DEFINE s == NewName(Key(j))
<1>0. s \in Free(Key(j))
  BY DEF Acquire, NewName
<1>1. /\ s \in Sandboxes /\ s \notin slots /\ s \notin live \union strays /\ s \notin Held
      /\ job \in [Jobs -> JobType] /\ job[j].at = "acquire" /\ job' = Become(j, "create", s)
      /\ Cardinality(slots) + orphans < MaxLive /\ orphans \in Nat /\ slots' = slots \union {s}
      /\ UNCHANGED <<pool, aged, doomed, stopped, closed, unclean, orphans, lapses, live, strays,
                     named>>
  BY <1>0 DEF PoolInv, PoolTypeOK, JobType, Acquire, HasRoom, At, poolVars, provider, Free
<1>. HIDE DEF s
<1>2. /\ job' \in [Jobs -> JobType] /\ job'[j].at = "create" /\ job'[j].sandbox = s
      /\ \A i \in Jobs : i # j => job'[i] = job[i]
  BY <1>1, BecomeJob DEF Positions
<1>3. PoolTypeOK'
  BY <1>1, <1>2 DEF PoolInv, PoolTypeOK, JobType
<1>4. \A i \in Jobs : Shape(i)'
  BY <1>1, <1>2, JobsDiffer DEF PoolInv, Shape, Jobs
<1>5. Warm' = Warm /\ OnePlace' /\ PoolBounded'
  BY <1>1 DEF PoolInv, Warm, OnePlace, PoolBounded
<1>6. job[j].sandbox = None /\ s # None
  BY <1>1 DEF PoolInv, Shape
<1>7. Apart'
  <2>1. s \notin Warm /\ s \notin doomed /\ \A i \in Jobs : job[i].sandbox # s
    BY <1>1 DEF Held
  <2>. QED  BY <1>1, <1>2, <1>5, <2>1 DEF PoolInv, Apart
<1>8. Stops'
  <2>1. ~closed
    BY <1>1 DEF PoolInv, Stops, Tracked
  <2>. QED  BY <1>1, <1>5, <2>1 DEF PoolInv, Stops
<1>9. Books'
  <2>1. Coming' = Coming \union {s} /\ s \notin Coming
    BY <1>1, <1>2 DEF Coming, At, Held
  <2>2. Coming' \intersect (live' \union strays') = {} /\ Unleased' = Unleased
    BY <1>1, <2>1 DEF PoolInv, Books, Living, Unleased
  <2>3. slots \in SUBSET Sandboxes
    BY DEF PoolInv, PoolTypeOK
  <2>4. /\ Cardinality(slots) \in Nat /\ Cardinality(slots \union {s}) <= Cardinality(slots) + 1
        /\ slots \union {s} \in SUBSET Sandboxes
    BY <1>1, <2>3, Counting
  <2>5. Cardinality(slots \union {s}) \in Nat
    BY <2>4, Counting
  <2>6. Cardinality(slots') <= MaxLive
    BY <1>1, <2>3, <2>4, <2>5, Counting
  <2>7. slots' \union (live' \ strays') \subseteq Held' \/ unclean'
    <3>1. \A x \in Held : x # None => x \in Held'
      BY <1>1, <1>2, <1>5, <1>6 DEF Held
    <3>2. s \in Held' /\ None \notin slots \union live
      BY <1>2 DEF Held, PoolInv, PoolTypeOK
    <3>. QED  BY <1>1, <3>1, <3>2 DEF PoolInv, Books
  <2>. QED  BY <1>1, <2>2, <2>6, <2>7 DEF PoolInv, Books
<1>10. Runs'
  BY <1>1, <1>2, <1>5 DEF PoolInv, Runs, Owning
<1>. QED  BY <1>3, <1>4, <1>5, <1>7, <1>8, <1>9, <1>10 DEF PoolInv

\* A sandbox that is created belongs to the job that asked for it (capacity.go:167).
LEMMA CreatedInv == ASSUME PoolInv, NEW j \in Jobs, Created(j) PROVE PoolInv'
<1>. DEFINE s == job[j].sandbox
            at == IF j \in Calls THEN "schedule" ELSE "insert"
<1>1. /\ job \in [Jobs -> JobType] /\ job[j].at = "create" /\ job' = Move(j, at)
      /\ at \in Positions /\ at \in {"schedule", "insert"}
      /\ live' \subseteq live \union {s} /\ s \in live' /\ (named \/ live \subseteq live')
      /\ UNCHANGED <<pool, aged, doomed, stopped, closed, unclean, slots, orphans, lapses, strays,
                     named>>
  BY DEF PoolInv, PoolTypeOK, JobType, Created, Conflicts, At, poolVars, budgetVars, Positions
<1>2. /\ job' \in [Jobs -> JobType] /\ job'[j].at = at /\ job'[j].sandbox = s
      /\ \A i \in Jobs : i # j => job'[i] = job[i]
  <2>. HIDE DEF at
  <2>. QED  BY <1>1, MoveJob
<1>3. s \in Sandboxes
  BY <1>1 DEF PoolInv, Shape
<1>4. PoolTypeOK'
  BY <1>1, <1>2, <1>3 DEF PoolInv, PoolTypeOK, JobType
<1>5. \A i \in Jobs : Shape(i)'
  <2>1. j \notin Calls => j \in Fills
    BY DEF Jobs
  <2>. QED  BY <1>1, <1>2, <2>1, JobsDiffer DEF PoolInv, Shape, Jobs
<1>6. Warm' = Warm /\ Held' = Held /\ OnePlace' /\ PoolBounded'
  <2>1. \A i \in Jobs : job'[i].sandbox = job[i].sandbox
    BY <1>2
  <2>. QED  BY <1>1, <2>1 DEF PoolInv, Warm, Held, OnePlace, PoolBounded
<1>7. Apart'
  BY <1>1, <1>2, <1>6 DEF PoolInv, Apart
<1>8. Stops'
  <2>1. ~closed
    BY <1>1 DEF PoolInv, Stops, Tracked
  <2>. QED  BY <1>1, <1>6, <2>1 DEF PoolInv, Stops
<1>9. Books'
  <2>1. s \in Coming /\ Coming' = Coming \ {s}
    <3>1. \A i \in Jobs : i # j => job[i].sandbox # s
      BY <1>3 DEF PoolInv, Apart
    <3>. QED  BY <1>1, <1>2, <3>1 DEF Coming, At
  <2>2. Unleased' \subseteq Unleased /\ Coming' \intersect (live' \union strays') = {}
    BY <1>1, <2>1 DEF PoolInv, Books, Living, Unleased
  <2>3. slots' \union (live' \ strays') \subseteq Held' \/ unclean'
    <3>1. s \in Held
      BY DEF Held
    <3>. QED  BY <1>1, <1>6, <3>1 DEF PoolInv, Books
  <2>. QED  BY <1>1, <2>2, <2>3, KeepBooks, ComingType DEF PoolInv
<1>10. Runs'
  BY <1>1, <1>2, <1>6 DEF PoolInv, Runs, Owning
<1>. QED  BY <1>4, <1>5, <1>6, <1>7, <1>8, <1>9, <1>10 DEF PoolInv

\* A failed creation gives its slot back and may leave a stray (capacity.go:171).
LEMMA CreateFailsInv == ASSUME PoolInv, NEW j \in Jobs, CreateFails(j) PROVE PoolInv'
<1>. DEFINE s == job[j].sandbox
<1>1. /\ job \in [Jobs -> JobType] /\ job[j].at = "create" /\ job' = Become(j, "off", None)
      /\ slots' = slots \ {s} /\ orphans' \in Nat
      /\ \/ live' \subseteq live /\ strays' = strays
         \/ live' \subseteq live \union {s} /\ strays' = strays \union {s}
      /\ named \/ live \subseteq live'
      /\ UNCHANGED <<pool, aged, doomed, stopped, closed, unclean, lapses, named>>
  BY DEF PoolInv, PoolTypeOK, JobType, CreateFails, Release, Conflicts, At, poolVars
<1>2. /\ job' \in [Jobs -> JobType] /\ job'[j].at = "off" /\ job'[j].sandbox = None
      /\ \A i \in Jobs : i # j => job'[i] = job[i]
  BY <1>1, BecomeJob DEF Positions
<1>3. s \in Sandboxes
  BY <1>1 DEF PoolInv, Shape
<1>4. PoolTypeOK'
  BY <1>1, <1>2, <1>3 DEF PoolInv, PoolTypeOK, JobType
<1>5. \A i \in Jobs : Shape(i)'
  BY <1>1, <1>2, JobsDiffer DEF PoolInv, Shape, Jobs
<1>6. Warm' = Warm /\ OnePlace' /\ PoolBounded' /\ Warm \subseteq Sandboxes
  BY <1>1, WarmType DEF PoolInv, Warm, OnePlace, PoolBounded
<1>7. Apart'
  <2>1. None \notin Warm \union doomed
    BY <1>6 DEF PoolInv, PoolTypeOK
  <2>. QED  BY <1>1, <1>2, <1>6, <2>1 DEF PoolInv, Apart
<1>8. Stops'
  <2>1. ~closed
    BY <1>1 DEF PoolInv, Stops, Tracked
  <2>. QED  BY <1>1, <1>6, <2>1 DEF PoolInv, Stops
<1>9. Books'
  <2>1. s \in Coming /\ Coming' = Coming \ {s}
    <3>1. \A i \in Jobs : i # j => job[i].sandbox # s
      BY <1>3 DEF PoolInv, Apart
    <3>. QED  BY <1>1, <1>2, <3>1 DEF Coming, At
  <2>2. s \notin live \union strays
    BY <2>1 DEF PoolInv, Books
  <2>3. Unleased' \subseteq Unleased /\ Coming' \intersect (live' \union strays') = {}
    BY <1>1, <2>1, <2>2 DEF PoolInv, Books, Living, Unleased
  <2>4. slots' \union (live' \ strays') \subseteq Held' \/ unclean'
    <3>1. \A x \in Held : x # s => x \in Held'
      BY <1>1, <1>2, <1>6 DEF Held
    <3>2. s \notin slots' \union (live' \ strays')
          /\ slots' \union (live' \ strays') \subseteq slots \union (live \ strays)
      BY <1>1, <2>2
    <3>. QED  BY <1>1, <3>1, <3>2 DEF PoolInv, Books
  <2>. QED  BY <1>1, <2>3, <2>4, KeepBooks, ComingType DEF PoolInv
<1>10. Runs'
  BY <1>1, <1>2, <1>6 DEF PoolInv, Runs, Owning
<1>. QED  BY <1>4, <1>5, <1>6, <1>7, <1>8, <1>9, <1>10 DEF PoolInv

\* A caller that finishes hands its sandbox to Destroy (executor_sandbox.go:145).
LEMMA FinishInv == ASSUME PoolInv, NEW c \in Calls, Finish(c) PROVE PoolInv'
<1>. DEFINE s == job[c].sandbox
<1>1. /\ job \in [Jobs -> JobType] /\ job[c].at = "use" /\ c \in Jobs
      /\ UNCHANGED <<pool, aged, doomed, stopped, closed, unclean, lapses, strays, named>>
      /\ orphans' \in Nat
  BY DEF PoolInv, PoolTypeOK, JobType, Finish, Destroy, Release, At, poolVars, Jobs
<1>2. \/ /\ live' = live \ {s} /\ slots' = slots \ {s} /\ job' = Become(c, "over", None)
      \/ UNCHANGED <<live, slots>> /\ job' = Move(c, "over")
  BY DEF Finish, Destroy, Release, Outcomes
<1>3. s \in Sandboxes
  BY <1>1 DEF PoolInv, Shape
<1>4. /\ job' \in [Jobs -> JobType] /\ job'[c].at = "over" /\ job'[c].sandbox \in {s, None}
      /\ \A i \in Jobs : i # c => job'[i] = job[i]
      /\ job'[c].sandbox = None => live' = live \ {s} /\ slots' = slots \ {s}
      /\ (live' = live /\ slots' = slots) \/ (live' = live \ {s} /\ slots' = slots \ {s})
  <2>1. CASE live' = live \ {s} /\ slots' = slots \ {s} /\ job' = Become(c, "over", None)
    BY <1>1, <2>1, BecomeJob DEF Positions
  <2>2. CASE UNCHANGED <<live, slots>> /\ job' = Move(c, "over")
    BY <1>1, <1>3, <2>2, MoveJob DEF Positions
  <2>. QED  BY <1>2, <2>1, <2>2
<1>5. PoolTypeOK'
  BY <1>1, <1>3, <1>4 DEF PoolInv, PoolTypeOK, JobType
<1>6. \A i \in Jobs : Shape(i)'
  BY <1>1, <1>4, JobsDiffer DEF PoolInv, Shape, Jobs
<1>7. Warm' = Warm /\ OnePlace' /\ PoolBounded' /\ Warm \subseteq Sandboxes
  BY <1>1, WarmType DEF PoolInv, Warm, OnePlace, PoolBounded
<1>8. Apart'
  <2>1. None \notin Warm \union doomed
    BY <1>7 DEF PoolInv, PoolTypeOK
  <2>. QED  BY <1>1, <1>4, <1>7, <2>1 DEF PoolInv, Apart
<1>9. Stops'
  BY <1>1, <1>4, <1>7 DEF PoolInv, Stops, Tracked
<1>10. Books'
  <2>1. Coming' = Coming
    BY <1>1, <1>4 DEF Coming, At
  <2>2. /\ Unleased' \subseteq Unleased /\ Coming' \intersect (live' \union strays') = {}
        /\ slots' \subseteq slots
    <3>1. s \notin Coming
      BY <1>1, <1>3 DEF PoolInv, Apart, Coming, At
    <3>. QED  BY <1>1, <1>4, <2>1, <3>1 DEF PoolInv, Books, Living, Unleased
  <2>3. slots' \union (live' \ strays') \subseteq Held' \/ unclean'
    <3>1. \A x \in Held : x # s => x \in Held'
      BY <1>1, <1>4, <1>7 DEF Held
    <3>2. s \in Held' \/ s \notin slots' \union (live' \ strays')
      BY <1>1, <1>4 DEF Held
    <3>. QED  BY <1>1, <1>4, <3>1, <3>2 DEF PoolInv, Books
  <2>. QED  BY <1>1, <2>2, <2>3, KeepBooks, ComingType DEF PoolInv
<1>11. Runs'
  <2>1. s \notin Warm /\ \A i \in Jobs : i # c => job[i].sandbox # s
    BY <1>1, <1>3 DEF PoolInv, Apart
  <2>. QED  BY <1>1, <1>4, <1>7, <2>1 DEF PoolInv, Runs, Owning
<1>. QED  BY <1>5, <1>6, <1>7, <1>8, <1>9, <1>10, <1>11 DEF PoolInv

\* A discarded sandbox is destroyed or stays with its slot (warm_pool.go:363).
LEMMA DestroyQuietInv == ASSUME PoolInv, NEW s \in Sandboxes, DestroyQuiet(s) PROVE PoolInv'
<1>1. /\ s \in doomed /\ doomed' = doomed \ {s}
      /\ UNCHANGED <<pool, aged, job, stopped, closed, lapses, strays, named>>
      /\ unclean' \in BOOLEAN /\ (unclean => unclean') /\ orphans' \in Nat
      /\ \/ live' = live \ {s} /\ slots' = slots \ {s}
         \/ unclean' /\ UNCHANGED <<live, slots>>
  <2>1. /\ s \in doomed /\ doomed' = doomed \ {s} /\ orphans \in Nat /\ unclean \in BOOLEAN
        /\ UNCHANGED <<pool, aged, job, stopped, closed, lapses, strays, named>>
    BY DEF PoolInv, PoolTypeOK, DestroyQuiet, poolVars
  <2>2. PICK outcome \in Outcomes : Destroy(s, outcome) /\ unclean' = (unclean \/ outcome # "done")
    BY DEF DestroyQuiet
  <2>3. CASE outcome \in {"done", "gone"}
    <3>1. live' = live \ {s} /\ slots' = slots \ {s} /\ orphans' \in Nat
      BY <2>1, <2>2, <2>3 DEF Destroy, Release
    <3>. QED  BY <2>1, <2>2, <3>1
  <2>4. CASE outcome = "failed"
    <3>1. UNCHANGED <<live, slots, orphans>>
      BY <2>2, <2>4 DEF Destroy
    <3>2. unclean'
      BY <2>2, <2>4
    <3>. QED  BY <2>1, <3>1, <3>2
  <2>. QED  BY <2>2, <2>3, <2>4 DEF Outcomes
<1>2. PoolTypeOK'
  BY <1>1 DEF PoolInv, PoolTypeOK
<1>3. Warm' = Warm /\ Coming' = Coming /\ Tracked' = Tracked
  BY <1>1 DEF Warm, Coming, At, Tracked
<1>4. \A j \in Jobs : Shape(j)'
  BY <1>1 DEF PoolInv, Shape
<1>5. Apart' /\ OnePlace' /\ Stops' /\ PoolBounded'
  BY <1>1, <1>3 DEF PoolInv, Apart, OnePlace, Stops, PoolBounded
<1>6. Books'
  <2>1. s \notin Coming
    BY <1>1 DEF PoolInv, Apart, Coming
  <2>2. /\ Unleased' \subseteq Unleased /\ Coming' \intersect (live' \union strays') = {}
        /\ slots' \subseteq slots
    BY <1>1, <1>3, <2>1 DEF PoolInv, Books, Living, Unleased
  <2>3. slots' \union (live' \ strays') \subseteq Held' \/ unclean'
    <3>1. \A x \in Held : x # s => x \in Held'
      BY <1>1, <1>3 DEF Held
    <3>. QED  BY <1>1, <3>1 DEF PoolInv, Books
  <2>. QED  BY <1>1, <2>2, <2>3, KeepBooks, ComingType DEF PoolInv
<1>7. Runs'
  BY <1>1, <1>3 DEF PoolInv, Apart, Runs, Owning
<1>. QED  BY <1>2, <1>4, <1>5, <1>6, <1>7 DEF PoolInv

\* Close returns when no tracked refill is left (warm_pool.go:166).
LEMMA CloseDoneInv == ASSUME PoolInv, CloseDone PROVE PoolInv'
<1>1. /\ stopped /\ doomed = {} /\ Tracked = {} /\ closed' = TRUE
      /\ UNCHANGED <<pool, aged, doomed, job, stopped, unclean, slots, orphans, lapses, live,
                     strays, named>>
  BY DEF CloseDone, poolVars, budgetVars, provider
<1>2. PoolTypeOK'
  BY <1>1 DEF PoolInv, PoolTypeOK
<1>3. /\ Warm' = Warm /\ Coming' = Coming /\ Tracked' = Tracked /\ Held' = Held
      /\ Unleased' = Unleased /\ \A j \in Jobs : Owning(j)' = Owning(j)
  BY <1>1 DEF Warm, Coming, At, Tracked, Held, Living, Unleased, Owning
<1>4. \A j \in Jobs : Shape(j)'
  BY <1>1 DEF PoolInv, Shape
<1>5. Apart' /\ OnePlace' /\ Books' /\ Runs' /\ Stops' /\ PoolBounded'
  BY <1>1, <1>3 DEF PoolInv, Apart, OnePlace, Books, Runs, Stops, PoolBounded
<1>. QED  BY <1>2, <1>4, <1>5 DEF PoolInv

\* Sandboxes that change hands leave the books as they are.
LEMMA Handover ==
  ASSUME PoolInv, UNCHANGED <<slots, lapses, live, strays>>, unclean' = unclean, Coming' = Coming,
         \A x \in Held : x # None => x \in Held'
  PROVE  Books'
<1>1. None \notin slots \union live
  BY DEF PoolInv, PoolTypeOK
<1>2. Unleased' = Unleased
  BY DEF Living, Unleased
<1>. QED  BY <1>1, <1>2 DEF PoolInv, Books

\* What the pools lose goes to the goroutines that destroy.
LEMMA Discarding ==
  ASSUME PoolInv, NEW off, Trimmed(off), NEW D, doomed' = doomed \union D,
         \A s : s \in D <=> \E k \in Keys : \E m \in 1..off[k] : s = pool[k][m],
         aged' = [k \in Keys |-> 0], stopped' \in BOOLEAN, stopped' => Warm' = {},
         ~closed, UNCHANGED <<job, closed, unclean, slots, orphans, lapses, live,
                     strays, named>>
  PROVE  PoolInv'
<1>1. pool \in [Keys -> Seq(Sandboxes)] /\ OnePlace /\ Warm \subseteq Sandboxes
  BY WarmType DEF PoolInv, PoolTypeOK
<1>2. /\ OnePlace' /\ Warm' \subseteq Warm /\ Warm' \intersect D = {}
      /\ Warm \subseteq Warm' \union D
  BY <1>1, TrimPool
<1>3. D \subseteq Warm
  <2>1. \A k \in Keys : \A m \in 1..off[k] : m \in 1..Len(pool[k])
    <3>1. \A k \in Keys : off[k] \in Nat /\ off[k] <= Len(pool[k]) /\ Len(pool[k]) \in Nat
      BY <1>1 DEF Trimmed
    <3>. QED  BY <3>1
  <2>. QED  BY <1>1, <2>1, WarmPlaces
<1>4. /\ pool' \in [Keys -> Seq(Sandboxes)] /\ PoolBounded'
      /\ \A k \in Keys : aged'[k] <= Len(pool'[k])
  <2>1. \A k \in Keys : /\ Len(pool'[k]) = Len(pool[k]) - off[k] /\ off[k] \in Nat
                        /\ Len(pool[k]) \in Nat /\ Len(pool'[k]) \in Nat
    BY <1>1 DEF Trimmed
  <2>2. Size \in Nat /\ \A k \in Keys : Len(pool[k]) <= Size
    BY DEF PoolInv, PoolBounded
  <2>. QED  BY <2>1, <2>2 DEF Trimmed, PoolBounded
<1>5. PoolTypeOK'
  BY <1>1, <1>3, <1>4 DEF PoolInv, PoolTypeOK
<1>6. \A j \in Jobs : Shape(j)'
  BY DEF PoolInv, Shape
<1>7. Apart'
  BY <1>2, <1>3 DEF PoolInv, Apart
<1>8. Books'
  <2>1. Coming' = Coming
    BY DEF Coming, At
  <2>2. \A x \in Held : x # None => x \in Held'
    BY <1>2 DEF Held
  <2>. QED  BY <2>1, <2>2, Handover
<1>9. Stops'
  BY DEF Stops
<1>10. Runs'
  BY <1>2 DEF PoolInv, Runs, Owning
<1>. QED  BY <1>2, <1>4, <1>5, <1>6, <1>7, <1>8, <1>9, <1>10 DEF PoolInv

\* A pool that has been emptied has nothing past its TTL.
LEMMA AgedWarm == ASSUME PoolInv, NEW k \in Keys, aged[k] > 0 PROVE Warm # {}
<1>1. /\ pool \in [Keys -> Seq(Sandboxes)] /\ aged[k] \in Nat /\ aged[k] <= Len(pool[k])
      /\ Len(pool[k]) \in Nat
  BY DEF PoolInv, PoolTypeOK
<1>2. 1 \in 1..Len(pool[k])
  BY <1>1
<1>. QED  BY <1>1, <1>2, WarmPlaces

\* Expiry moves old sandboxes from the pool to those to be destroyed (warm_pool.go:328).
LEMMA ExpireIdleInv == ASSUME PoolInv, ExpireIdle PROVE PoolInv'
<1>. DEFINE D == UNION {Expired(k) : k \in Keys}
<1>1. /\ doomed' = doomed \union D /\ aged' = [k \in Keys |-> 0]
      /\ pool' = [k \in Keys |-> Fresh(k)]
      /\ UNCHANGED <<job, stopped, closed, unclean, slots, orphans, lapses, live,
                     strays, named>>
  BY DEF ExpireIdle, budgetVars, provider
<1>2. PoolTypeOK
  BY DEF PoolInv
<1>3. Trimmed(aged)
  BY <1>1, <1>2, ExpiredPlaces DEF Trimmed, PoolTypeOK
<1>4. \A s : s \in D <=> \E k \in Keys : \E m \in 1..aged[k] : s = pool[k][m]
  BY <1>2, ExpiredPlaces
<1>5. ~stopped /\ ~closed
  <2>1. Warm # {}
    BY AgedWarm DEF ExpireIdle
  <2>. QED  BY <2>1 DEF PoolInv, Stops
<1>6. stopped' \in BOOLEAN
  BY <1>1, <1>2 DEF PoolTypeOK
<1>. HIDE DEF D
<1>. QED  BY <1>1, <1>3, <1>4, <1>5, <1>6, Discarding

\* Close empties the pools into those to be destroyed (warm_pool.go:134).
LEMMA CloseInv == ASSUME PoolInv, Close PROVE PoolInv'
<1>. DEFINE off == [k \in Keys |-> Len(pool[k])]
<1>1. /\ ~stopped /\ stopped' = TRUE /\ doomed' = doomed \union Warm
      /\ pool' = [k \in Keys |-> <<>>] /\ aged' = [k \in Keys |-> 0]
      /\ UNCHANGED <<job, closed, unclean, slots, orphans, lapses, live,
                     strays, named>>
  BY DEF Close, budgetVars, provider
<1>2. pool \in [Keys -> Seq(Sandboxes)]
  BY DEF PoolInv, PoolTypeOK
<1>3. Trimmed(off)
  <2>1. \A k \in Keys : Len(pool[k]) \in Nat /\ Len(pool'[k]) = 0 /\ pool'[k] \in Seq(Sandboxes)
    BY <1>1, <1>2
  <2>2. pool' \in [Keys -> Seq(Sandboxes)]
    BY <1>1, <2>1
  <2>. QED  BY <2>1, <2>2 DEF Trimmed
<1>4. \A s : s \in Warm <=> \E k \in Keys : \E m \in 1..off[k] : s = pool[k][m]
  BY <1>2, WarmPlaces
<1>5. Warm' = {}
  BY <1>1 DEF Warm, Range
<1>6. ~closed
  BY <1>1 DEF PoolInv, Stops
<1>. HIDE DEF off
<1>. QED  BY <1>1, <1>3, <1>4, <1>5, <1>6, Discarding

\* What a checkout takes out of its pool: those past their TTL, and the next one.
LEMMA CheckoutPool ==
  ASSUME PoolInv, NEW c \in Calls, Checkout(c)
  PROVE  LET k == Key(c)
         IN /\ pool' \in [Keys -> Seq(Sandboxes)] /\ OnePlace' /\ PoolBounded'
            /\ Warm' \subseteq Warm /\ Expired(k) \subseteq Warm
            /\ Warm' \intersect Expired(k) = {}
            /\ Fresh(k) = <<>> => Warm \subseteq Warm' \union Expired(k)
            /\ Fresh(k) # <<>> => /\ Head(Fresh(k)) \in Warm \ (Warm' \union Expired(k))
                                  /\ Warm \subseteq Warm' \union Expired(k) \union {Head(Fresh(k))}
<1>. DEFINE k == Key(c)
            n == IF Fresh(k) = <<>> THEN aged[k] ELSE aged[k] + 1
            off == [l \in Keys |-> IF l = k THEN n ELSE 0]
<1>0. PoolTypeOK /\ k \in Keys /\ pool \in [Keys -> Seq(Sandboxes)] /\ OnePlace
      /\ aged[k] \in Nat /\ Len(pool[k]) \in Nat /\ aged[k] <= Len(pool[k])
  BY JobsDiffer DEF PoolInv, PoolTypeOK, Jobs
<1>1. pool' = [pool EXCEPT ![k] = RestOf(Fresh(k))]
  BY DEF Checkout, Take
<1>2. /\ \A s : s \in Expired(k) <=> \E m \in 1..aged[k] : s = pool[k][m]
      /\ Fresh(k) \in Seq(Sandboxes) /\ Len(Fresh(k)) = Len(pool[k]) - aged[k]
      /\ \A m \in 1..Len(Fresh(k)) : Fresh(k)[m] = pool[k][aged[k] + m]
  BY <1>0, ExpiredPlaces
<1>. HIDE DEF k
<1>3. /\ RestOf(Fresh(k)) \in Seq(Sandboxes) /\ n \in Nat /\ n <= Len(pool[k])
      /\ Len(RestOf(Fresh(k))) = Len(pool[k]) - n
      /\ \A m \in 1..Len(RestOf(Fresh(k))) : RestOf(Fresh(k))[m] = pool[k][n + m]
  <2>1. CASE Fresh(k) = <<>>
    BY <1>0, <1>2, <2>1 DEF RestOf
  <2>2. CASE Fresh(k) # <<>>
    <3>1. /\ Tail(Fresh(k)) \in Seq(Sandboxes) /\ Len(Fresh(k)) \in Nat \ {0}
          /\ Len(Tail(Fresh(k))) = Len(Fresh(k)) - 1
          /\ \A m \in 1..Len(Tail(Fresh(k))) :
               m + 1 \in 1..Len(Fresh(k)) /\ Tail(Fresh(k))[m] = Fresh(k)[m + 1]
      BY <1>2, <2>2, TailPlaces
    <3>2. \A m \in 1..Len(Tail(Fresh(k))) : Tail(Fresh(k))[m] = pool[k][aged[k] + 1 + m]
      <4>1. ASSUME NEW m \in 1..Len(Tail(Fresh(k)))
            PROVE  aged[k] + (m + 1) = aged[k] + 1 + m
        BY <1>0
      <4>. QED  BY <1>2, <3>1, <4>1
    <3>. QED  BY <1>0, <1>2, <2>2, <3>1, <3>2 DEF RestOf
  <2>. QED  BY <2>1, <2>2
<1>4. Trimmed(off)
  <2>. HIDE DEF n
  <2>1. pool' \in [Keys -> Seq(Sandboxes)]
    BY <1>0, <1>1, <1>3
  <2>2. ASSUME NEW l \in Keys
        PROVE  /\ off[l] \in Nat /\ off[l] <= Len(pool[l])
               /\ Len(pool'[l]) = Len(pool[l]) - off[l]
               /\ \A m \in 1..Len(pool'[l]) : pool'[l][m] = pool[l][off[l] + m]
    <3>1. CASE l = k
      BY <1>0, <1>1, <1>3, <3>1
    <3>2. CASE l # k
      <4>1. pool'[l] = pool[l] /\ off[l] = 0 /\ Len(pool[l]) \in Nat
        BY <1>0, <1>1, <3>2
      <4>. QED  BY <4>1
    <3>. QED  BY <3>1, <3>2
  <2>. QED  BY <2>1, <2>2 DEF Trimmed
<1>5. \A s : (\E l \in Keys : \E m \in 1..off[l] : s = pool[l][m])
             <=> \E m \in 1..n : s = pool[k][m]
  <2>. HIDE DEF n
  <2>1. off[k] = n /\ \A l \in Keys : l # k => 1..off[l] = {}
    BY <1>0
  <2>. QED  BY <1>0, <2>1
<1>6. /\ OnePlace' /\ pool' \in [Keys -> Seq(Sandboxes)]
      /\ \A s : s \in Warm' => s \in Warm /\ ~ \E m \in 1..n : s = pool[k][m]
      /\ \A s : s \in Warm => s \in Warm' \/ \E m \in 1..n : s = pool[k][m]
  <2>. HIDE DEF n, off
  <2>1. pool' \in [Keys -> Seq(Sandboxes)]
    BY <1>4 DEF Trimmed
  <2>2. /\ OnePlace'
        /\ \A s : s \in Warm' =>
             s \in Warm /\ ~ \E l \in Keys : \E m \in 1..off[l] : s = pool[l][m]
        /\ \A s : s \in Warm =>
             s \in Warm' \/ \E l \in Keys : \E m \in 1..off[l] : s = pool[l][m]
    BY <1>0, <1>4, TrimPool
  <2>3. ASSUME NEW s
        PROVE  /\ s \in Warm' => s \in Warm /\ ~ \E m \in 1..n : s = pool[k][m]
               /\ s \in Warm => s \in Warm' \/ \E m \in 1..n : s = pool[k][m]
    <3>1. (\E l \in Keys : \E m \in 1..off[l] : s = pool[l][m])
             <=> \E m \in 1..n : s = pool[k][m]
      BY <1>5
    <3>. QED  BY <2>2, <3>1
  <2>. QED  BY <2>1, <2>2, <2>3
<1>7. PoolBounded'
  <2>. HIDE DEF off
  <2>1. \A l \in Keys : /\ Len(pool'[l]) = Len(pool[l]) - off[l] /\ off[l] \in Nat
                        /\ Len(pool[l]) \in Nat
    BY <1>0, <1>4 DEF Trimmed
  <2>2. Size \in Nat /\ \A l \in Keys : Len(pool[l]) <= Size
    BY DEF PoolInv, PoolBounded
  <2>. QED  BY <2>1, <2>2 DEF PoolBounded
<1>8. Expired(k) \subseteq Warm
  <2>1. \A m \in 1..aged[k] : m \in 1..Len(pool[k])
    BY <1>0
  <2>. QED  BY <1>0, <1>2, <2>1, WarmPlaces
<1>9. Warm' \intersect Expired(k) = {}
  <2>1. \A m \in 1..aged[k] : m \in 1..n
    BY <1>0
  <2>. QED  BY <1>2, <1>6, <2>1
<1>10. CASE Fresh(k) = <<>>
  <2>1. Warm \subseteq Warm' \union Expired(k)
    BY <1>2, <1>6, <1>10
  <2>. QED  BY <1>6, <1>7, <1>8, <1>9, <1>10, <2>1 DEF k
<1>11. CASE Fresh(k) # <<>>
  <2>. DEFINE h == Head(Fresh(k))
  <2>1. Len(Fresh(k)) \in Nat \ {0} /\ h = Fresh(k)[1]
    BY <1>2, <1>11, HeadTailProperties, EmptySeq
  <2>2. 1 \in 1..Len(Fresh(k)) /\ aged[k] + 1 \in 1..Len(pool[k]) /\ aged[k] + 1 \in 1..n
    BY <1>0, <1>2, <1>11, <2>1
  <2>3. h = pool[k][aged[k] + 1]
    BY <1>2, <2>1, <2>2
  <2>4. h \in Warm /\ h \notin Warm'
    BY <1>0, <1>6, <2>2, <2>3, WarmPlaces
  <2>5. h \notin Expired(k)
    <3>. SUFFICES ASSUME NEW m \in 1..aged[k], h = pool[k][m] PROVE FALSE
      BY <1>2
    <3>1. PICK p \in 1..Len(pool[k]) : p = aged[k] + 1 /\ pool[k][p] = pool[k][m]
      BY <2>2, <2>3
    <3>2. m \in 1..Len(pool[k])
      BY <1>0
    <3>3. \A i, g \in 1..Len(pool[k]) : pool[k][i] = pool[k][g] => i = g
      BY <1>0 DEF OnePlace
    <3>4. p = m
      BY <3>1, <3>2, <3>3
    <3>. QED  BY <1>0, <3>1, <3>4
  <2>6. Warm \subseteq Warm' \union Expired(k) \union {h}
    <3>1. \A m \in 1..n : m \in 1..aged[k] \/ m = aged[k] + 1
      BY <1>0, <1>11
    <3>. QED  BY <1>2, <1>6, <2>3, <3>1
  <2>. QED  BY <1>6, <1>7, <1>8, <1>9, <1>11, <2>4, <2>5, <2>6 DEF k
<1>. QED  BY <1>10, <1>11

\* Checkout moves the newest fresh sandbox to its caller and discards older ones (warm_pool.go:251).
LEMMA CheckoutInv == ASSUME PoolInv, NEW c \in Calls, Checkout(c) PROVE PoolInv'
<1>. DEFINE k == Key(c)
<1>0. /\ PoolTypeOK /\ job \in [Jobs -> JobType] /\ c \in Jobs /\ k \in Keys
      /\ job[c].at = "checkout" /\ job[c].sandbox = None
      /\ doomed' = doomed \union Expired(k) /\ aged' = [aged EXCEPT ![k] = 0]
      /\ job' = IF Fresh(k) = <<>> THEN Move(c, "acquire")
                ELSE Become(c, "schedule", Head(Fresh(k)))
      /\ UNCHANGED <<stopped, closed, unclean, slots, orphans, lapses, live,
                     strays, named>>
  BY JobsDiffer DEF PoolInv, PoolTypeOK, JobType, Checkout, Take, Discard, At, budgetVars,
                    provider, Jobs,
                    Shape
<1>1. /\ pool' \in [Keys -> Seq(Sandboxes)] /\ OnePlace' /\ PoolBounded'
      /\ Warm' \subseteq Warm /\ Expired(k) \subseteq Warm
      /\ Warm' \intersect Expired(k) = {}
      /\ Fresh(k) = <<>> => Warm \subseteq Warm' \union Expired(k)
      /\ Fresh(k) # <<>> =>
            /\ Head(Fresh(k)) \in Warm \ (Warm' \union Expired(k))
            /\ Warm \subseteq Warm' \union Expired(k) \union {Head(Fresh(k))}
  BY CheckoutPool
<1>2. Warm \subseteq Sandboxes
  BY <1>0, WarmType
<1>. HIDE DEF k
<1>3. /\ job' \in [Jobs -> JobType]
      /\ \A i \in Jobs : i # c => job'[i] = job[i]
      /\ \/ /\ Fresh(k) = <<>> /\ job'[c].at = "acquire" /\ job'[c].sandbox = None
         \/ /\ Fresh(k) # <<>> /\ job'[c].at = "schedule" /\ job'[c].sandbox = Head(Fresh(k))
  <2>1. CASE Fresh(k) = <<>>
    <3>1. job' = Move(c, "acquire")
      BY <1>0, <2>1
    <3>. QED  BY <1>0, <2>1, <3>1, MoveJob DEF Positions
  <2>2. CASE Fresh(k) # <<>>
    <3>1. job' = Become(c, "schedule", Head(Fresh(k))) /\ Head(Fresh(k)) \in Sandboxes
      BY <1>0, <1>1, <1>2, <2>2
    <3>. QED  BY <1>0, <2>2, <3>1, BecomeJob DEF Positions
  <2>. QED  BY <2>1, <2>2
<1>. DEFINE h == job'[c].sandbox
<1>4. /\ h = None \/ h \in Warm \ (Warm' \union Expired(k))
      /\ Warm \subseteq Warm' \union Expired(k) \union {h}
      /\ h # None => job'[c].at = "schedule" /\ h \in Sandboxes
      /\ h = None => job'[c].at = "acquire"
  BY <1>1, <1>2, <1>3
<1>5. job'[c].at \in {"acquire", "schedule"}
  BY <1>3
<1>. HIDE DEF h
<1>6. PoolTypeOK'
  <2>1. aged' \in [Keys -> Nat] /\ \A l \in Keys : aged'[l] <= Len(pool'[l])
    <3>1. aged' \in [Keys -> Nat] /\ aged'[k] = 0 /\ \A l \in Keys : l # k => aged'[l] = aged[l]
      BY <1>0 DEF PoolTypeOK
    <3>2. Len(pool'[k]) \in Nat
      BY <1>0, <1>1
    <3>3. \A l \in Keys : l # k => pool'[l] = pool[l]
      BY <1>0 DEF Checkout, Take, PoolTypeOK, k
    <3>. QED  BY <1>0, <3>1, <3>2, <3>3 DEF PoolTypeOK
  <2>. QED  BY <1>0, <1>1, <1>2, <1>3, <2>1 DEF PoolTypeOK, JobType
<1>7. \A i \in Jobs : Shape(i)'
  <2>1. Shape(c)'
    BY <1>0, <1>3, <1>4, <1>5, JobsDiffer DEF PoolInv, Shape, Jobs, h
  <2>2. ASSUME NEW i \in Jobs, i # c PROVE Shape(i)'
    BY <1>0, <1>3, <2>2, JobsDiffer DEF PoolInv, Shape, Jobs
  <2>. QED  BY <2>1, <2>2
<1>8. Apart'
  <2>1. Warm' \intersect doomed' = {}
    BY <1>0, <1>1 DEF PoolInv, Apart
  <2>2. ASSUME NEW i \in Jobs PROVE job'[i].sandbox \notin Warm' \union doomed'
    <3>1. CASE i = c
      BY <1>0, <1>2, <1>1, <1>4, <3>1 DEF PoolInv, Apart, PoolTypeOK, h
    <3>2. CASE i # c
      BY <1>0, <1>1, <1>3, <3>2 DEF PoolInv, Apart
    <3>. QED  BY <3>1, <3>2
  <2>3. \A i \in Jobs : i # c => h # job'[i].sandbox \/ h = None
    BY <1>3, <1>4 DEF PoolInv, Apart
  <2>4. \A i, j \in Jobs : job'[i].sandbox = job'[j].sandbox => i = j \/ job'[i].sandbox = None
    BY <1>3, <2>3 DEF PoolInv, Apart, h
  <2>. QED  BY <2>1, <2>2, <2>4 DEF Apart
<1>9. Books'
  <2>1. Coming' = Coming
    BY <1>0, <1>3, <1>5 DEF Coming, At
  <2>2. \A x \in Held : x # None => x \in Held'
    BY <1>0, <1>3, <1>4 DEF Held, h
  <2>. QED  BY <1>0, <2>1, <2>2, Handover
<1>10. Stops'
  <2>1. ~closed
    BY <1>0 DEF PoolInv, Stops, Tracked
  <2>. QED  BY <1>0, <1>1, <2>1 DEF PoolInv, Stops
<1>11. Runs'
  BY <1>0, <1>1, <1>3 DEF PoolInv, Runs, Owning
<1>. QED  BY <1>1, <1>6, <1>7, <1>8, <1>9, <1>10, <1>11 DEF PoolInv

\* A refill that puts its sandbox at the end of its pool, or has it destroyed.
LEMMA FillInsertInv == ASSUME PoolInv, NEW f \in Fills, FillInsert(f) PROVE PoolInv'
<1>. DEFINE k == Key(f)
            s == job[f].sandbox
<1>0. /\ PoolTypeOK /\ job \in [Jobs -> JobType] /\ f \in Jobs /\ k \in Keys
      /\ job[f].at = "insert" /\ s \in Sandboxes
      /\ UNCHANGED <<aged, stopped, closed, unclean, slots, orphans, lapses, live,
                     strays, named>>
  BY JobsDiffer DEF PoolInv, PoolTypeOK, JobType, FillInsert, Insert, At, budgetVars, provider,
                    Jobs, Shape
<1>1. ~closed
  BY <1>0 DEF PoolInv, Stops, Tracked
<1>2. s \notin Warm /\ s \notin doomed /\ \A i \in Jobs : i # f => job[i].sandbox # s
  BY <1>0 DEF PoolInv, Apart
<1>3. Warm \subseteq Sandboxes /\ pool \in [Keys -> Seq(Sandboxes)]
  BY <1>0, WarmType DEF PoolTypeOK
<1>4. ASSUME NEW at \in {"off", "check"}, job' = Become(f, at, None)
      PROVE  /\ job' \in [Jobs -> JobType] /\ job'[f].at = at /\ job'[f].sandbox = None
             /\ \A i \in Jobs : i # f => job'[i] = job[i]
             /\ \A i \in Jobs : Shape(i)'
             /\ Coming' = Coming
  <2>1. /\ job' \in [Jobs -> JobType] /\ job'[f].at = at /\ job'[f].sandbox = None
        /\ \A i \in Jobs : i # f => job'[i] = job[i]
    BY <1>0, <1>4, BecomeJob DEF Positions
  <2>2. \A i \in Jobs : Shape(i)'
    <3>1. \A c \in Calls : job[c].at \notin {"use", "over"} => FillOf(c) # f
      BY <1>0 DEF PoolInv, Shape, Jobs
    <3>. QED  BY <1>0, <2>1, <3>1, JobsDiffer DEF PoolInv, Shape, Jobs
  <2>3. Coming' = Coming
    BY <1>0, <2>1 DEF Coming, At
  <2>. QED  BY <2>1, <2>2, <2>3
<1>5. CASE stopped \/ Len(pool[k]) >= Size
  <2>1. doomed' = doomed \union {s} /\ job' = Become(f, "off", None) /\ pool' = pool
    BY <1>5 DEF FillInsert, Insert
  <2>2. /\ job' \in [Jobs -> JobType] /\ job'[f].sandbox = None
        /\ \A i \in Jobs : i # f => job'[i] = job[i]
        /\ \A i \in Jobs : Shape(i)'
        /\ Coming' = Coming
    BY <1>4, <2>1
  <2>3. Warm' = Warm /\ OnePlace' /\ PoolBounded'
    BY <2>1 DEF PoolInv, Warm, OnePlace, PoolBounded
  <2>4. PoolTypeOK'
    BY <1>0, <2>1, <2>2 DEF PoolTypeOK, JobType
  <2>5. Apart'
    BY <1>0, <1>2, <1>3, <2>1, <2>2, <2>3 DEF PoolInv, Apart, PoolTypeOK
  <2>6. Books'
    <3>1. \A x \in Held : x # None => x \in Held'
      BY <2>1, <2>2, <2>3 DEF Held
    <3>. QED  BY <1>0, <2>2, <3>1, Handover
  <2>7. Stops'
    BY <1>0, <1>1, <2>3 DEF PoolInv, Stops
  <2>8. Runs'
    BY <1>0, <2>1, <2>3 DEF PoolInv, Runs, Owning, Become, JobType
  <2>. QED  BY <2>2, <2>3, <2>4, <2>5, <2>6, <2>7, <2>8 DEF PoolInv
<1>6. CASE ~stopped /\ ~(Len(pool[k]) >= Size)
  <2>1. /\ pool' = [pool EXCEPT ![k] = Append(pool[k], s)] /\ doomed' = doomed
        /\ job' = Become(f, "check", None)
    BY <1>6 DEF FillInsert, Insert
  <2>2. /\ job' \in [Jobs -> JobType] /\ job'[f].sandbox = None
        /\ \A i \in Jobs : i # f => job'[i] = job[i]
        /\ \A i \in Jobs : Shape(i)'
        /\ Coming' = Coming
    BY <1>4, <2>1
  <2>. HIDE DEF k, s
  <2>3. PICK n \in Nat : n = Len(pool[k])
    BY <1>0, <1>3
  <2>4. /\ pool' \in [Keys -> Seq(Sandboxes)] /\ Len(pool'[k]) = n + 1 /\ pool'[k][n + 1] = s
        /\ \A m \in 1..n : pool'[k][m] = pool[k][m]
        /\ \A l \in Keys : l # k => pool'[l] = pool[l]
    <3>1. /\ Append(pool[k], s) \in Seq(Sandboxes) /\ Len(Append(pool[k], s)) = n + 1
          /\ Append(pool[k], s)[n + 1] = s
          /\ \A m \in 1..n : Append(pool[k], s)[m] = pool[k][m]
      BY <1>0, <1>3, <2>3, AppendProperties
    <3>. QED  BY <1>0, <1>3, <2>1, <3>1
  <2>5. PoolBounded' /\ \A l \in Keys : aged'[l] <= Len(pool'[l])
    <3>1. aged[k] \in Nat /\ aged[k] <= n /\ n < Size /\ Size \in Nat
      BY <1>0, <1>6, <2>3 DEF PoolTypeOK
    <3>2. ASSUME NEW l \in Keys PROVE Len(pool'[l]) <= Size /\ aged'[l] <= Len(pool'[l])
      <4>1. CASE l = k
        BY <1>0, <2>4, <3>1, <4>1
      <4>2. CASE l # k
        BY <1>0, <2>4, <4>2 DEF PoolInv, PoolBounded, PoolTypeOK
      <4>. QED  BY <4>1, <4>2
    <3>. QED  BY <3>2 DEF PoolBounded
  <2>6. PoolTypeOK'
    BY <1>0, <2>1, <2>2, <2>4, <2>5 DEF PoolTypeOK, JobType
  <2>7. Warm' = Warm \union {s}
    <3>1. \A x : x \in Warm' <=> \E l \in Keys : \E m \in 1..Len(pool'[l]) : x = pool'[l][m]
      BY <2>4, WarmPlaces DEF Warm, Range
    <3>2. \A x : x \in Warm <=> \E l \in Keys : \E m \in 1..Len(pool[l]) : x = pool[l][m]
      BY <1>3, WarmPlaces
    <3>3. n + 1 \in 1..(n + 1) /\ (\A m \in 1..n : m \in 1..(n + 1))
          /\ \A m \in 1..(n + 1) : m \in 1..n \/ m = n + 1
      OBVIOUS
    <3>4. s \in Warm'
      BY <1>0, <2>4, <3>1, <3>3
    <3>5. ASSUME NEW x, x \in Warm PROVE x \in Warm'
      <4>1. PICK l \in Keys : \E m \in 1..Len(pool[l]) : x = pool[l][m]
        BY <3>2, <3>5
      <4>2. \E m \in 1..Len(pool'[l]) : x = pool'[l][m]
        BY <2>3, <2>4, <3>3, <4>1
      <4>. QED  BY <3>1, <4>2
    <3>6. ASSUME NEW x, x \in Warm', x # s PROVE x \in Warm
      <4>1. PICK l \in Keys : \E m \in 1..Len(pool'[l]) : x = pool'[l][m]
        BY <3>1, <3>6
      <4>2. \E m \in 1..Len(pool[l]) : x = pool[l][m]
        BY <2>3, <2>4, <3>3, <3>6, <4>1
      <4>. QED  BY <3>2, <4>2
    <3>. QED  BY <3>4, <3>5, <3>6
  <2>8. OnePlace'
    <3>. SUFFICES ASSUME NEW a \in Keys, NEW b \in Keys, NEW m \in 1..Len(pool'[a]),
                         NEW g \in 1..Len(pool'[b]), pool'[a][m] = pool'[b][g]
                  PROVE  a = b /\ m = g
      BY DEF OnePlace
    <3>1. ASSUME NEW l \in Keys, NEW i \in 1..Len(pool'[l])
          PROVE  \/ l = k /\ i = n + 1 /\ pool'[l][i] = s
                 \/ i \in 1..Len(pool[l]) /\ pool'[l][i] = pool[l][i] /\ pool[l][i] # s
      <4>1. CASE l = k /\ i = n + 1
        BY <2>4, <4>1
      <4>2. CASE ~(l = k /\ i = n + 1)
        <5>1. i \in 1..Len(pool[l]) /\ pool'[l][i] = pool[l][i]
          BY <2>3, <2>4, <4>2
        <5>2. pool[l][i] \in Warm
          BY <1>3, <5>1, WarmPlaces
        <5>. QED  BY <1>2, <5>1, <5>2 DEF s
      <4>. QED  BY <4>1, <4>2
    <3>2. CASE pool'[a][m] = s
      <4>1. a = k /\ m = n + 1
        BY <3>1, <3>2
      <4>2. pool'[b][g] = s
        BY <3>2
      <4>3. b = k /\ g = n + 1
        BY <3>1, <4>2
      <4>. QED  BY <4>1, <4>3
    <3>3. CASE pool'[a][m] # s
      <4>1. /\ m \in 1..Len(pool[a]) /\ pool'[a][m] = pool[a][m]
            /\ g \in 1..Len(pool[b]) /\ pool'[b][g] = pool[b][g]
        BY <3>1, <3>3
      <4>2. \A i \in 1..Len(pool[a]), j \in 1..Len(pool[b]) :
              pool[a][i] = pool[b][j] => a = b /\ i = j
        BY DEF PoolInv, OnePlace
      <4>. QED  BY <4>1, <4>2
    <3>. QED  BY <3>2, <3>3
  <2>9. Apart'
    <3>1. Warm' \intersect doomed' = {}
      BY <1>2, <2>1, <2>7 DEF PoolInv, Apart, s
    <3>2. ASSUME NEW i \in Jobs PROVE job'[i].sandbox \notin Warm' \union doomed'
      <4>1. CASE i = f
        BY <1>0, <1>3, <2>1, <2>2, <2>7, <4>1 DEF PoolTypeOK
      <4>2. CASE i # f
        BY <1>2, <2>1, <2>2, <2>7, <4>2 DEF PoolInv, Apart, s
      <4>. QED  BY <4>1, <4>2
    <3>3. \A i, j \in Jobs : job'[i].sandbox = job'[j].sandbox => i = j \/ job'[i].sandbox = None
      BY <2>2 DEF PoolInv, Apart
    <3>. QED  BY <3>1, <3>2, <3>3 DEF Apart
  <2>10. Books'
    <3>1. \A x \in Held : x # None => x \in Held'
      BY <2>1, <2>2, <2>7 DEF Held, s
    <3>. QED  BY <1>0, <2>2, <3>1, Handover
  <2>11. Stops'
    BY <1>0, <1>1, <1>6 DEF Stops
  <2>12. Runs'
    BY <1>0, <2>1, <2>7 DEF PoolInv, Runs, Owning, Become, JobType, s
  <2>. QED  BY <2>2, <2>5, <2>6, <2>8, <2>9, <2>10, <2>11, <2>12 DEF PoolInv
<1>. QED  BY <1>5, <1>6

-----------------------------------------------------------------------------
(* Results *)

\* A new provider has empty pools and one refill to do (sandbox_provider.go:131).
LEMMA InitInv == Init => PoolInv
<1>. SUFFICES ASSUME Init PROVE PoolInv
  OBVIOUS
<1>0. PICK users \in Lineups :
        job = [j \in Jobs |-> [at |-> IF j[2] \notin users THEN "over"
                                     ELSE IF j = <<"fill", Boot>> THEN "check"
                                     ELSE "off",
                              sandbox |-> None]]
  BY DEF Init
<1>1. PoolTypeOK
  <2>1. \A k \in Keys : pool[k] = <<>> /\ Len(pool[k]) = 0
    BY DEF Init
  <2>2. pool \in [Keys -> Seq(Sandboxes)]
    BY DEF Init
  <2>4. job \in [Jobs -> JobType]
    BY <1>0 DEF JobType, Positions
  <2>5. aged \in [Keys -> Nat] /\ \A k \in Keys : aged[k] <= Len(pool[k])
    BY <2>1 DEF Init
  <2>6. doomed = {} /\ live = {} /\ slots = {} /\ strays = {} /\ lapses = 0 /\ orphans = 0
    BY DEF Init
  <2>7. stopped = FALSE /\ closed = FALSE /\ unclean = FALSE /\ named \in BOOLEAN
    BY Zenon DEF Init
  <2>8. lapses \in Nat /\ orphans \in Nat
    BY <2>6
  <2>9. /\ doomed \subseteq Sandboxes /\ live \subseteq Sandboxes /\ slots \subseteq Sandboxes
        /\ strays \subseteq Sandboxes
    BY <2>6
  <2>10. stopped \in BOOLEAN /\ closed \in BOOLEAN /\ unclean \in BOOLEAN /\ named \in BOOLEAN
    BY Zenon, <2>7
  <2>11. job \in [Jobs -> [at : Positions, sandbox : Sandboxes \union {None}]]
    BY Zenon, <2>4 DEF JobType
  <2>. QED  BY Zenon, <2>2, <2>5, <2>8, <2>9, <2>10, <2>11 DEF PoolTypeOK
<1>2. Warm = {}
  BY DEF Init, Warm, Range
<1>3. /\ \A j \in Jobs : job[j].sandbox = None /\ job[j].at \in {"off", "check", "over"}
      /\ \A j \in Jobs : job[j].at = "check" => j = <<"fill", Boot>>
  BY <1>0
<1>4. \A c \in Calls : job[c].at # "check" /\ (job[c].at # "over" => job[FillOf(c)].at = "off")
  <2>1. \A c \in Calls : /\ c # <<"fill", Boot>> /\ FillOf(c) # <<"fill", Boot>>
                         /\ c[2] = FillOf(c)[2] /\ c \in Jobs /\ FillOf(c) \in Jobs
    BY JobsDiffer DEF Calls, FillOf, Jobs
  <2>. QED  BY <1>0, <2>1
<1>5. \A j \in Jobs : Shape(j)
  BY <1>3, <1>4 DEF Shape
<1>6. OnePlace /\ Apart /\ PoolBounded
  BY <1>2, <1>3 DEF Init, OnePlace, Apart, PoolBounded
<1>7. Books /\ Stops
  <2>1. Coming = {}
    BY <1>3 DEF Coming, At
  <2>2. Unleased = {} /\ slots = {}
    BY <2>1 DEF Living, Unleased, Init
  <2>3. Cardinality(slots) = 0 /\ Cardinality(Unleased) = 0
    BY <2>2, FS_EmptySet
  <2>4. Books
    BY <2>1, <2>3 DEF Books, Init
  <2>. QED  BY <1>2, <2>4 DEF Stops, Init
<1>8. Runs
  BY <1>2, <1>3 DEF Runs, Owning
<1>. QED  BY <1>1, <1>5, <1>6, <1>7, <1>8 DEF PoolInv

\* Every sandbox has one owner in the worker and is in the ledgers, whatever callers,
\* refills, failures, lapsed leases and Close do, orphans and strays aside: the inductive
\* invariant.
THEOREM PoolInvariant == Spec => []PoolInv
<1>1. PoolInv /\ UNCHANGED vars => PoolInv'
  <2>. SUFFICES ASSUME PoolInv, UNCHANGED vars PROVE PoolInv'
    OBVIOUS
  <2>1. UNCHANGED <<pool, aged, doomed, job, stopped, closed, unclean, slots, orphans, lapses, live,
                     strays, named>>
    BY DEF vars, poolVars, budgetVars, provider
  <2>. USE <2>1 DEF PoolInv
  <2>2. /\ Warm' = Warm /\ Coming' = Coming /\ Unleased' = Unleased /\ Held' = Held
        /\ Tracked' = Tracked /\ \A j \in Jobs : Owning(j)' = Owning(j)
    BY DEF Warm, Coming, Living, Unleased, Held, At, Tracked, Owning
  <2>3. PoolTypeOK' /\ (\A j \in Jobs : Shape(j)') /\ OnePlace' /\ Apart'
    BY <2>2 DEF PoolTypeOK, Shape, OnePlace, Apart
  <2>4. Books' /\ Runs' /\ Stops' /\ PoolBounded'
    BY <2>2 DEF Books, Runs, Stops, PoolBounded
  <2>. QED  BY <2>3, <2>4
<1>2. PoolInv /\ Next => PoolInv'
  BY AcquireInv, GiveUpInv, CreatedInv, CreateFailsInv, BeginInv, CheckoutInv, ScheduleFillInv,
     FinishInv, FillCheckInv, FillInsertInv, LapseInv, DestroyQuietInv, AgeInv, ExpireIdleInv,
     CloseInv, CloseDoneInv DEF Next, Progress, Step, Create
<1>. QED  BY <1>1, <1>2, InitInv, PTL DEF Spec

\* The state of the pool, its jobs and the budget always has its type.
THEOREM PoolTypes == Spec => []PoolTypeOK
<1>1. PoolInv => PoolTypeOK
  BY DEF PoolInv
<1>. QED  BY <1>1, PoolInvariant, PTL

\* The re-check of fillOne keeps every pool within its size, however many refills
\* are between their checks and their insertions.
THEOREM PoolsAreBounded == Spec => []PoolBounded
<1>1. PoolInv => PoolBounded
  BY DEF PoolInv
<1>. QED  BY <1>1, PoolInvariant, PTL

\* checkout, fillOne, expireIdle and Close never leave one sandbox with two owners in
\* the worker.
THEOREM SandboxesHaveOneOwner == Spec => []OneOwner
<1>1. PoolInv => OneOwner
  <2>. SUFFICES ASSUME PoolInv PROVE OneOwner
    OBVIOUS
  <2>1. \A k \in Keys : DOMAIN pool[k] = 1..Len(pool[k])
    BY DEF PoolInv, PoolTypeOK
  <2>2. \A k, l \in Keys : \A m \in DOMAIN pool[k], n \in DOMAIN pool[l] :
          pool[k][m] = pool[l][n] => k = l /\ m = n
    BY <2>1 DEF PoolInv, OnePlace
  <2>. QED  BY <2>2 DEF PoolInv, Apart, OneOwner
<1>. QED  BY <1>1, PoolInvariant, PTL

\* What a sandbox's owner has is there, whatever others create, destroy and throw away,
\* if the provider names every sandbox anew (WarmPool over E2B or Kubernetes).
THEOREM OwnedSandboxesRun == Spec => []OwnedSandboxRuns
<1>1. PoolInv => OwnedSandboxRuns
  BY DEF PoolInv, Runs, Owning, OwnedSandboxRuns, Owners
<1>. QED  BY <1>1, PoolInvariant, PTL

\* Slots and running sandboxes agree.  More than the limit run only after a lease has
\* lapsed or a Create has failed and left something behind; a slot whose owner is known
\* is lost only when a destroy fails (leasedSession).
THEOREM LedgersAgree == Spec => []BudgetIsExact
<1>1. PoolInv => BudgetIsExact
  <2>. SUFFICES ASSUME PoolInv PROVE BudgetIsExact
    OBVIOUS
  <2>1. SlotsAccountedFor
    BY DEF PoolInv, Books, SlotsAccountedFor
  <2>2. LiveWithinBudget
    <3>1. Coming \subseteq Sandboxes /\ live \subseteq Sandboxes /\ slots \subseteq Sandboxes
      BY ComingType DEF PoolInv, PoolTypeOK
    <3>. DEFINE out == Unleased
    <3>2. IsFiniteSet(slots) /\ IsFiniteSet(out) /\ IsFiniteSet(slots \union out)
      BY <3>1, FS_Subset DEF Living, Unleased
    <3>3. Cardinality(slots \union out)
            = Cardinality(slots) + Cardinality(out) - Cardinality(slots \intersect out)
      BY <3>2, FS_Union
    <3>4. slots \intersect out = {} /\ live \ strays \in SUBSET (slots \union out)
      BY DEF Living, Unleased
    <3>5. Cardinality(slots \intersect out) = 0
      BY <3>4, FS_EmptySet
    <3>6. Cardinality(live \ strays) <= Cardinality(slots \union out)
      BY <3>2, <3>4, FS_Subset
    <3>7. Cardinality(slots) <= MaxLive /\ Cardinality(out) <= lapses /\ lapses \in Nat
      BY DEF PoolInv, Books, PoolTypeOK
    <3>8. /\ Cardinality(slots) \in Nat /\ Cardinality(out) \in Nat /\ Cardinality(live \ strays) \in Nat
          /\ Cardinality(slots \union out) \in Nat
      BY <3>1, <3>2, FS_Subset, FS_CardinalityType
    <3>. HIDE DEF out
    <3>. QED  BY <3>3, <3>5, <3>6, <3>7, <3>8 DEF LiveWithinBudget
  <2>. QED  BY <2>1, <2>2 DEF BudgetIsExact
<1>. QED  BY <1>1, PoolInvariant, PTL

\* A Close that returns without an error leaves only sandboxes that are in use, or that
\* a failed Create has left behind.
THEOREM CloseIsClean == Spec => []CloseLeavesNothing
<1>1. PoolInv => CloseLeavesNothing
  <2>. SUFFICES ASSUME PoolInv, closed PROVE CloseLeavesNothing
    BY DEF CloseLeavesNothing
  <2>1. stopped /\ Warm = {} /\ doomed = {} /\ Tracked = {}
    BY DEF PoolInv, Stops
  <2>2. \A f \in Fills : job[f].sandbox = None
    <3>1. \A f \in Fills : job[f].at \in {"off", "over"}
      BY <2>1 DEF PoolInv, Shape, Tracked, Jobs
    <3>. QED  BY <3>1 DEF PoolInv, Shape, Jobs
  <2>3. live \subseteq {job[c].sandbox : c \in Calls} \union strays \/ unclean
    <3>1. Held \subseteq {job[c].sandbox : c \in Calls} \union {None}
      BY <2>1, <2>2 DEF Held, Jobs
    <3>2. None \notin live
      BY DEF PoolInv, PoolTypeOK
    <3>. QED  BY <3>1, <3>2 DEF PoolInv, Books
  <2>. QED  BY <2>1, <2>3 DEF CloseLeavesNothing
<1>. QED  BY <1>1, PoolInvariant, PTL
-----------------------------------------------------------------------------
(* A pool that is being closed winds down *)

\* The steps of a job that the pool waits for, counted from their end.
JobLeft(j) ==
  CASE At(j, "checkout") -> 5 [] At(j, "acquire") -> 4 [] At(j, "create") -> 3
    [] At(j, "schedule") -> 2 [] At(j, "insert") -> 2 [] At(j, "use") -> 1 [] At(j, "check") -> 1
    [] job[j].at \in {"off", "over"} -> 0

\* Once Close has been called, no sandbox enters the pool and no job that it has to
\* wait for starts; every step of a job brings it closer to its end; and the only
\* sandboxes that are destroyed in addition are those of refills under way.
ClosingWinds ==
  [][stopped => /\ stopped' /\ Warm' = {} /\ Tracked' \subseteq Tracked
                /\ \A j \in Jobs : job'[j] # job[j] => JobLeft(j)' < JobLeft(j)
                /\ doomed' \subseteq doomed \union {job[f].sandbox : f \in Tracked \intersect Fills}]_vars

\* One job that goes to a later position.
LEMMA JobGoesOn ==
  ASSUME job \in [Jobs -> JobType], NEW j \in Jobs, NEW at \in Positions, job'[j].at = at,
         \A i \in Jobs \ {j} : job'[i] = job[i],
         \/ At(j, "checkout") /\ at \in {"acquire", "schedule"}
         \/ At(j, "acquire") /\ at \in {"create", "off"}
         \/ At(j, "create") /\ at \in {"schedule", "insert", "off"}
         \/ At(j, "schedule") /\ at = "use"
         \/ At(j, "insert") /\ at = "off"
         \/ At(j, "check") /\ at = "off"
         \/ At(j, "use") /\ at = "over"
  PROVE  /\ Tracked' \subseteq Tracked
         /\ \A i \in Jobs : job'[i] # job[i] => JobLeft(i)' < JobLeft(i)
<1>1. JobLeft(j)' < JobLeft(j)
  BY DEF JobLeft, At
<1>2. Tracked' \subseteq Tracked
  BY DEF Tracked, At
<1>. QED  BY <1>1, <1>2

\* The jobs while the pool closes.
LEMMA ClosingJobs ==
  ASSUME PoolInv, stopped = TRUE, [Next]_vars
  PROVE  /\ Tracked' \subseteq Tracked
         /\ \A j \in Jobs : job'[j] # job[j] => JobLeft(j)' < JobLeft(j)
<1>0. job \in [Jobs -> JobType] /\ Calls \subseteq Jobs /\ Fills \subseteq Jobs
  BY DEF PoolInv, PoolTypeOK, JobType, Jobs
<1>1. CASE UNCHANGED job
  BY <1>1 DEF Tracked
<1>2. ASSUME NEW j \in Jobs, Acquire(j) \/ GiveUp(j) \/ Create(j)
      PROVE  \E at \in Positions :
               /\ job'[j].at = at /\ \A i \in Jobs \ {j} : job'[i] = job[i]
               /\ \/ At(j, "acquire") /\ at \in {"create", "off"}
                  \/ At(j, "create") /\ at \in {"schedule", "insert", "off"}
  <2>1. CASE Acquire(j)
    <3>1. At(j, "acquire") /\ \E s : job' = Become(j, "create", s)
      BY <2>1 DEF Acquire
    <3>. QED  BY <1>0, <3>1 DEF Become, Positions, JobType
  <2>2. CASE GiveUp(j)
    BY <1>0, <2>2 DEF GiveUp, GiveUpWhen, Move, Positions, JobType
  <2>3. CASE Created(j)
    <3>1. PICK at \in {"schedule", "insert"} : At(j, "create") /\ job' = Move(j, at)
      BY <2>3 DEF Created
    <3>. QED  BY <1>0, <3>1 DEF Move, Positions, JobType
  <2>4. CASE CreateFails(j)
    BY <1>0, <2>4 DEF CreateFails, Become, Positions, JobType
  <2>. QED  BY <1>2, <2>1, <2>2, <2>3, <2>4 DEF Create
<1>3. ASSUME NEW c \in Calls, Checkout(c) \/ ScheduleFill(c) \/ Finish(c)
      PROVE  \E at \in Positions :
               /\ job'[c].at = at /\ \A i \in Jobs \ {c} : job'[i] = job[i]
               /\ \/ At(c, "checkout") /\ at \in {"acquire", "schedule"}
                  \/ At(c, "schedule") /\ at = "use"
                  \/ At(c, "use") /\ at = "over"
  <2>1. CASE Checkout(c)
    <3>1. At(c, "checkout") /\ \/ job' = Move(c, "acquire")
                               \/ \E s : job' = Become(c, "schedule", s)
      BY <2>1 DEF Checkout, Take
    <3>. QED  BY <1>0, <3>1 DEF Move, Become, Positions, JobType
  <2>2. CASE ScheduleFill(c)
    BY <1>0, <2>2 DEF ScheduleFill, Move, Positions, JobType
  <2>3. CASE Finish(c)
    <3>1. At(c, "use") /\ (job' = Move(c, "over") \/ job' = Become(c, "over", None))
      BY <2>3 DEF Finish
    <3>. QED  BY <1>0, <3>1 DEF Move, Become, Positions, JobType
  <2>. QED  BY <1>3, <2>1, <2>2, <2>3
<1>4. ASSUME NEW f \in Fills, FillCheck(f) \/ FillInsert(f)
      PROVE  \E at \in Positions :
               /\ job'[f].at = at /\ \A i \in Jobs \ {f} : job'[i] = job[i]
               /\ \/ At(f, "insert") /\ at = "off"
                  \/ At(f, "check") /\ at = "off"
  <2>1. CASE FillCheck(f)
    BY <1>0, <2>1 DEF FillCheck, Move, Positions, JobType
  <2>2. CASE FillInsert(f)
    BY <1>0, <2>2 DEF FillInsert, Insert, Become, Positions, JobType
  <2>. QED  BY <1>4, <2>1, <2>2
<1>5. CASE \/ \E c \in Calls : Begin(c)
           \/ \E s \in Sandboxes : DestroyQuiet(s)
           \/ \E k \in Keys : Age(k)
           \/ Lapse \/ ExpireIdle \/ Close \/ CloseDone
  <2>1. UNCHANGED job
    BY <1>5 DEF Begin, Lapse, DestroyQuiet, Age, ExpireIdle, Close, CloseDone
  <2>. QED  BY <1>1, <2>1
<1>6. UNCHANGED vars => UNCHANGED job
  BY DEF vars
<1>. QED  BY <1>0, <1>1, <1>2, <1>3, <1>4, <1>5, <1>6, JobGoesOn DEF Next, Progress, Step

\* What is destroyed while the pool closes.
LEMMA ClosingDooms ==
  ASSUME PoolInv, stopped = TRUE, [Next]_vars
  PROVE  doomed' \subseteq doomed \union {job[f].sandbox : f \in Tracked \intersect Fills}
<1>1. Warm = {} /\ PoolTypeOK
  BY DEF PoolInv, Stops
<1>2. \A k \in Keys : Expired(k) = {}
  <2>1. \A k \in Keys : Expired(k) \subseteq Warm
    <3>1. \A k \in Keys : \A s \in Expired(k) : \E m \in 1..Len(pool[k]) : s = pool[k][m]
      <4>1. \A k \in Keys : /\ aged[k] \in Nat /\ Len(pool[k]) \in Nat /\ aged[k] <= Len(pool[k])
                            /\ 1..aged[k] \subseteq 1..Len(pool[k])
        BY <1>1 DEF PoolTypeOK
      <4>2. \A k \in Keys : \A s \in Expired(k) : \E m \in 1..aged[k] : s = pool[k][m]
        BY <1>1, ExpiredPlaces
      <4>. QED  BY <4>1, <4>2
    <3>2. pool \in [Keys -> Seq(Sandboxes)]
      BY <1>1 DEF PoolTypeOK
    <3>3. \A s : s \in Warm <=> \E k \in Keys : \E m \in 1..Len(pool[k]) : s = pool[k][m]
      BY <3>2, WarmPlaces
    <3>. QED  BY <3>1, <3>3
  <2>. QED  BY <1>1, <2>1
<1>3. ASSUME NEW c \in Calls, Checkout(c) PROVE doomed' = doomed
  <2>1. doomed' = doomed \union Expired(Key(c)) /\ Key(c) \in Keys
    BY <1>3, JobsDiffer DEF Checkout, Discard, Jobs
  <2>. QED  BY <1>2, <2>1
<1>4. CASE ExpireIdle
  BY <1>2, <1>4 DEF ExpireIdle
<1>5. ASSUME NEW f \in Fills, FillInsert(f)
      PROVE  doomed' \subseteq doomed \union {job[g].sandbox : g \in Tracked \intersect Fills}
  <2>1. doomed' \subseteq doomed \union {job[f].sandbox} /\ job[f].at = "insert"
    BY <1>5 DEF FillInsert, Insert, At
  <2>2. f \in Tracked \intersect Fills
    BY <2>1 DEF Tracked, Jobs
  <2>. QED  BY <2>1, <2>2
<1>6. ASSUME NEW j \in Jobs, Acquire(j) \/ GiveUp(j) \/ Create(j) PROVE doomed' = doomed
  BY <1>6 DEF Acquire, GiveUp, GiveUpWhen, Create, Created, CreateFails
<1>7. ASSUME NEW c \in Calls, Begin(c) \/ ScheduleFill(c) \/ Finish(c) PROVE doomed' = doomed
  BY <1>7 DEF Begin, ScheduleFill, Finish
<1>8. ASSUME NEW f \in Fills, FillCheck(f) PROVE doomed' = doomed
  BY <1>8 DEF FillCheck
<1>9. ASSUME Lapse \/ \E s \in Sandboxes : DestroyQuiet(s) PROVE doomed' \subseteq doomed
  BY <1>9 DEF Lapse, DestroyQuiet
<1>10. CASE (\E k \in Keys : Age(k)) \/ Close \/ CloseDone \/ UNCHANGED vars
  BY <1>1, <1>10 DEF Age, Close, CloseDone, vars
<1>. QED  BY <1>3, <1>4, <1>5, <1>6, <1>7, <1>8, <1>9, <1>10 DEF Next, Progress, Step

\* WarmPool.Close waits for a finite amount of work that nobody adds to.
THEOREM ClosingWindsDown == Spec => ClosingWinds
<1>1. ASSUME PoolInv, PoolInv', [Next]_vars, stopped = TRUE
      PROVE  /\ stopped' = TRUE /\ Warm' = {} /\ Tracked' \subseteq Tracked
             /\ \A j \in Jobs : job'[j] # job[j] => JobLeft(j)' < JobLeft(j)
             /\ doomed' \subseteq doomed \union {job[f].sandbox : f \in Tracked \intersect Fills}
  <2>1. stopped' = TRUE
    BY <1>1 DEF Next, Progress, Step, vars, Acquire, GiveUp, GiveUpWhen, Create, Created, CreateFails, Begin, Checkout, Take,
                ScheduleFill, Finish, FillCheck, FillInsert, Insert, Lapse, DestroyQuiet, Age,
                ExpireIdle, Close, CloseDone
  <2>2. Warm' = {}
    BY <1>1, <2>1 DEF PoolInv, Stops
  <2>. QED  BY <1>1, <2>1, <2>2, ClosingJobs, ClosingDooms
<1>2. PoolInv /\ PoolInv' /\ [Next]_vars =>
        [stopped => /\ stopped' /\ Warm' = {} /\ Tracked' \subseteq Tracked
                    /\ \A j \in Jobs : job'[j] # job[j] => JobLeft(j)' < JobLeft(j)
                    /\ doomed' \subseteq doomed \union
                         {job[f].sandbox : f \in Tracked \intersect Fills}]_vars
  BY <1>1 DEF PoolInv, PoolTypeOK
<1>. QED  BY <1>2, PoolInvariant, PTL DEF Spec, ClosingWinds
=============================================================================
