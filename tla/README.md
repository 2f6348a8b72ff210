# Verification of AgentClash's execution plane

This directory holds TLA+ models of the parts of AgentClash in which several
processes act on the same state at once: what moves runs, agents and evaluation
sets from one status to the next, what runs agents at a customer's deployment,
what hands out sandboxes, and what records and streams events. With them come
the TLC configurations that check the models, and proofs
of their safety properties and of why they come to an end. The models are translations of the Go code and the
SQL statements, which stay the reference.

Contents: [the system](#the-system), [modules](#modules-and-the-code),
[runs](#the-runs), [proofs](#what-is-proved), [limits](#limits),
[findings](#findings), [plan](#plan).

## The system

AgentClash runs AI agents against challenge packs and scores them. The
**control plane** is an API server in front of Postgres (and Redis for live
streams). The **execution plane** is a set of Temporal workers: durable
workflows, whose activities do the database writes, the model calls and the
sandbox work. A user creates runs, evaluation sessions (repeated runs) or
evaluation sets (a matrix of sessions with a budget); the API inserts the rows
and asks Temporal to start a workflow; the workflow drives the rows along their
status tables.

| Component | State it keeps | Operations | Talks to |
|---|---|---|---|
| Status tables (`runtime/domain`) | none, fixed tables | `CanTransitionTo` | used by the repository and the workflows |
| Run rows (`repository.go`, `runs.sql`, `run_agents.sql`) | `runs.status`, Temporal IDs, `run_agents.status` | `TransitionRunStatus`, `TransitionRunAgentStatus`, `SetRunTemporalIDs`, `ReapOrphanedRuns` | API, activities, reaper |
| RunWorkflow (`run_workflow.go`) | position in the workflow, child errors | provision, launch agents, score, complete, fail, cancel | activities; RunAgentWorkflow as children |
| RunAgentWorkflow (`run_agent_workflow.go`) | position | load, prepare, execute, evaluate, fail | activities, hosted callbacks |
| Bounded fan-out (`bounded_fanout.go`) | pending futures, next index, gate error | launch, select, cancel pending, drain | its callers: run, session, set, scan, case fan-out |
| EvalSessionWorkflow (`eval_session_workflow.go`) | session status | run its runs, classify their errors, aggregate | RunWorkflow as children |
| EvalSetWorkflow (`eval_set_workflow.go`) | set status, spend | gate on capacity and budget, run sessions, charge, aggregate | EvalSessionWorkflow as children |
| Run and set API (`api/`) | requests in progress | create, start, record IDs, cancel, compensate | Temporal, rows |
| Orphan run reaper (`orphan_run_reaper.go`) | none | fail old active runs without a workflow | rows |
| Hosted runs (`hosted_runs.go`, `hosted_callbacks.go`) | execution row, notifications | claim, post, callback, deliver, time out | remote deployment, signals to RunAgentWorkflow |
| Sandbox pool and capacity (`runtime/sandbox`, `redisbudget`) | idle sessions, tokens, leases | create, fill, expire, close; acquire, release, renew | sandbox provider |
| Provider throttle (`provider/throttle`) | slots, request rate, token window, cooldown | acquire, reconcile, release, cool down | model calls |
| Buffered observer (`worker/buffered_observer.go`) | queue, first error | enqueue, flush, terminal call | run event recorder |
| Run event log and stream (`repository.go`, `pubsub`) | sequence numbers, Redis stream, standings | record, publish, read after a cursor | observers, API readers |
| Scoring, engine, providers, Vibe, harness, tryouts, gates, billing, CLI, web | see `PROJECT.json` | | |

Components interact through four things, and each is where the difficulty lies:

* **guarded writes on shared rows.** A run is written by its workflow's
  activities, by the cancel endpoint and by the reaper. A status write is not
  one step: it reads the row, checks the table and then updates
  `WHERE status = from`.
* **activities that outlive their caller.** Status activities have a timeout of
  five seconds and a single attempt, and cancelling a workflow does not wait
  for the activity it is in. The worker executing it is not stopped, so a write
  nobody waits for may commit later, between any two steps of everybody else.
* **parent and child workflows.** A parent learns of its children only through
  futures, which resolve at any time, also while the parent waits for
  something else; cancelling a parent requests the cancellation of its children.
* **requests that stop in the middle.** The API inserts rows, starts the
  workflow and records its IDs in separate calls; a deployment accepts a run
  whose answer gets lost; a row is inserted and its acknowledgement is not.

What makes each component correct: rows move only along their tables, and the
rows of a run agree with those of its agents; no child is lost, launched beyond
the cap or launched after an error; a workflow always closes, and what it
reports agrees with the row; the reaper takes only what nobody runs; a budget
stops a set without losing its results; a callback is neither lost nor applied
twice, and an agent succeeds only on recorded evidence; a sandbox has one owner
and its slot is given back when it is gone; every event is recorded in order
before the terminal one, and a stream that ends is complete. `PROJECT.json` lists every hazard with its line and the
property that covers it.

## Modules and the code

| Module | Models | Lines it stands for |
|---|---|---|
| `StatusMachines` | the status tables of runs, agents and sets | `domain/run.go`, `domain/eval_set.go` |
| `RunLifecycle` | abstract specification: what the rows of a run promise to any reader | the repository's transition functions |
| `RunOrchestration` | one run: rows, pending transactions, RunWorkflow, one lane per agent, API start and cancel, reaper | `run_workflow.go`, `run_agent_workflow.go`, `repository.go`, `run_reads.go`, `temporal.go`, `runs.sql`, `orphan_run_reaper.go` |
| `BoundedLaunching` | abstract specification: what `launchBounded` promises its callers | `bounded_fanout.go` |
| `BoundedFanout` | `launchBounded` | `bounded_fanout.go` |
| `EvalSet` | one evaluation set; EXTENDS `BoundedFanout`, whose loop runs its sessions | `eval_set_workflow.go`, `eval_set_budget_activities.go`, `eval_sets_create.go`, `eval_sets.sql` |
| `HostedExecution` | abstract specification: what the record of a hosted agent promises, whoever writes it | what the writers of `hosted_run_executions` keep together |
| `HostedRun` | hosted agents: dispatch, callbacks, notifications, deadline | `run_agent_workflow.go`, `activities.go`, `hosted_callbacks.go`, `hosted_runs.go` and `.sql` |
| `SandboxPool` | warm pools over the capacity decorator, its budget and the provider | `warm_pool.go`, `capacity.go`, `budget.go`, `sandbox_provider.go`, `docker/provider.go` |
| `EventRecording` | executions with their buffered and inner observers, and the numbering of events | `buffered_observer.go`, `native_event_observer.go`, `prompt_eval_event_observer.go`, `responses_event_observer.go`, `run_events.sql`, `repository.go`, `publishing_recorder.go` |
| `EventStream` | a client that streams a run; EXTENDS `EventRecording` | `run_events_sse.go`, `redis_subscriber.go`, `run_reads.go` |
| `MC*` | TLC instances of the module after `MC` | |
| `*Proofs` | theorems and TLAPS proofs about the module before `Proofs` (`QuietRunProofs`: about `RunOrchestration` without faults; `RunProgressProofs`: that it comes to an end) | |

Definitions called *Variant* are not part of any specification: each is what a
slip in the code at that place would be, and is used to show that a property
notices it.

### RunOrchestration

* `run`, `agent` are the status columns; `ids` says whether the row has its
  Temporal IDs.
* `txn[p]` is the status transition that process `p` waits for: which row, to
  which status, and the status it has read (`saw`), if it has. A read
  (`ReadRow`) checks the table; the guarded `UPDATE` (`Commits`) compares the
  status with the one read. Between the two anything can happen.
* `late` holds transitions whose caller gave up (`Abandon`): they may still
  read and commit (`LateRead`, `LateCommit`), or end.
* `pc` is the next activity of RunWorkflow; a status as a step stands for the
  write of that status. `lane[a]` is the same for the RunAgentWorkflow of
  agent `a`. `launched`, `settled`, `errored` are the parent's view of its
  children. `result`, `laneResult` are what the workflows return.
* `starter`, `canceller` are the create and the cancel request.
  `cancelRequested` is the set of workflows that Temporal was asked to cancel.
* The failure transition runs in the context of the workflow, and its error is
  wrapped in the error the workflow returns. A cancel request that meets it
  therefore makes Temporal close the workflow as cancelled, while the row keeps
  its status (`MarkRunFailedFails`); `ResultAgreesWithRun` names this case.
* `AttachRunTemporalIDs` has no late write of its own: the API writes the same IDs
  at any later moment (`RecordIDs`), and when it has done so already, another write
  of them changes nothing.
* The reaper is one action, `Reap`, on the row as its statement sees it. The
  age threshold is left out: a run that qualifies may be old or not, so every
  moment is one at which the reaper may come.
* One `Work` action stands for an agent's execution in every execution mode:
  the modes differ in what they compute, not in the statuses they write.
* Loading a run and listing its agents are one step (`LoadRun`), as both only
  read; preparing and entering execution follow the agent's status writes.
* An agent keeps an active status when its workflow is cancelled or its frozen
  context is missing. The code does so on purpose
  (`shouldSkipRunAgentFailureTransition`, and the test at
  `workflow_test.go:1141` expects it), so no property asks for more.

### BoundedLaunching and BoundedFanout

The loop is one workflow thread: `Launch`, `Refuse`, `Complete(i)`, `Drain(i)`
and `Return` are its moves, and `Resolve(i, o)` is the world. The callers differ
in constants: a set has a gate, gives a `CancelFunc` and treats a cancelled
child as an error; a run has no gate and gives no `CancelFunc`; scoring and
sessions treat no outcome as an error; scans treat every failure as one. The
select takes the ready child with the smallest index, as futures are added in
that order; the drain ranges over a map, so its order is free.

`BoundedLaunching` keeps what a caller relies on: which children are active, which
are finished, and a verdict. A turn finishes some children and launches others in
their places, never more than the cap at once; after an error nothing is launched
and what is active is waited for. `BoundedFanout` implements it, and so does
`RunOrchestration`, whose fan-out is a model of its own with lanes as children: the
two are held to the same promise. `EvalSet` implements it because its loop is
`BoundedFanout`.

### EvalSet

* `set` and `spent` are the two columns. A status write carries the status its
  caller believes in, so unlike a run's it is a single step; `late` is as
  above. A charge (`RefreshEvalSetSpend`) is a read and a later write, with
  nothing between them to notice other charges: `reading` holds what was read.
* Money is counted in charges: the code charges 0.6 USD a run or session,
  because no code writes the cost of a case result and the projection it sums
  is therefore empty.
* A cancelled child resolves at once: the sessions are started without
  `WaitForCancellation`, so a session that was asked to stop is still open, and
  may still charge, after its future has resolved.
* What a session does besides charging is its own module's business; here its
  future ends as ok or failed.
* A charge whose activity fails is dropped with its read. Its late write could
  only lower the total once more, which `SpendNeverDecreases` shows already.

### HostedRun and HostedExecution

* `row` is the row of `hosted_run_executions`: its status, whether the dispatch
  is claimed, and the name of the remote run. `receipts` are the events that
  were taken, `note` the terminal notification with its order `created`, and
  `delivered` whether it is marked.
* `start` is the activity `StartHostedRun`, which runs once: it claims, posts,
  and records the answer. It goes on when its workflow has stopped waiting.
  `reached` says whether the POST has arrived, which the activity cannot know: a
  deployment that was reached may answer, refuse, stay silent or call back in
  any order.
* `flow` is the hosted branch of RunAgentWorkflow. `signalled` is its signal
  channel, `overdue` a `MarkHostedRunTimedOut` that has been asked for.
* An event is an ID, a kind and a remote name. A deployment may send any event
  of `Events` at any time and any number of times, so duplicates, reordering,
  late events and contradictions need no actions of their own. One callback is
  one step, as the handler works on the locked row in one transaction.
* Delivery is list, signal, mark for each pending notification, by any number
  of deliverers at once; `StopDelivery` is a call that fails, or a delivery that
  ends in the middle.
* `HostedExecution` forgets all of that: a record has an outcome that is final,
  one remote identity, and evidence. `Execution` maps the row to it: statuses
  other than `completed` and `failed` are *open*. In particular `unknown`, which
  a lost answer and the deadline both write, is not an end: a callback may still
  settle the record, although the agent has failed by then.

### SandboxPool

* A *job* is a call of `WarmPool.Create` with the use of its sandbox, or the
  goroutine of a refill. `job` is its position and the sandbox it owns, `pool`
  the warm sandboxes of each key, oldest first, `doomed` those that a goroutine
  of the pool destroys.
* Time appears as `aged`: how many sandboxes of a pool are past their TTL.
  Sandboxes are appended in the order of their creation, so these come first.
* `slots` are the leases of the budget by sandbox, `live` what may run at the
  provider. They differ when a `Destroy` fails and when a lease lapses.
* A call that fails may have had its effect. `strays` are sandboxes that a failed
  `Create` may have left running: the decorator releases the slot after every
  error, and the provider's own attempt to destroy may have failed as well.
  `orphans` counts slots that belong to nobody, after an acquire that was not
  answered or a release whose error was dropped. `lapses` counts leases that
  expired under their owner. Nobody in the worker knows of the first two, so the
  properties count them apart. `MaxMishaps` bounds all three together.
* `named` tells Docker from the other providers. Docker names a container after
  the run agent of the request, so `Created` first removes the containers that
  have the name (`Conflicts`), those in use included; E2B and Kubernetes name
  every sandbox afresh.
* `Lineups` says which callers and which startup refill take part in a
  behaviour. Under Docker the startup refill is left out: its request has an ID of
  its own and conflicts with nobody.
* The mutex of the pool makes checkout, insertion, expiry and Close one step
  each; creation and destruction happen between them, outside of the lock.
* A `Destroy` that fails for a caller leaves the sandbox with it (`over`): the
  executor does not try again, and nobody else knows of it.

### EventRecording and EventStream

* A writer is one execution. `executor` is the goroutine of the engine, from its
  events to the terminal call; `accepted` counts what it has handed to the
  queue, `settled` what the flusher is done with, and `bgErr` is the first error
  of an event. `call` is the `RecordRunEvent` in progress, by the flusher or by
  the terminal call.
* An attempt of `executeWithRetry` is a call of the inner observer, not an
  `INSERT`, and the observer remembers what it was called for. A native one marks
  an output before it records it and returns at once the next time (`Repeat`);
  a prompt observer (prompt_eval, responses) records the answer of the model again
  without the output event that belongs to it. Both put the event into `missed`. A
  prompt observer announces its run once, with its first event, and refuses
  everything after that has failed (`bgErr` is *start*, `Refuse`).
  `Outputs` says which events are such outputs.
  A multi-turn observer wraps a native one, with more events that are recorded
  again as they are.
* An observer call that makes several `INSERT`s counts as one, which fails or
  commits as a whole.
* An `INSERT` is two steps: `Number` reads `MAX(sequence_number)`, `Commit` or
  `Conflict` is the end of the statement. Between them another writer of the
  same agent may take the number.
* `mode` decides at the start what the writers are: cases of one agent, which
  have no terminal event and share its numbers; native agents of their own; or
  agents with a prompt observer.
* `owed` is what a stream still has to send when the run has ended. It is a
  history variable: no step depends on it.
* The subscription (`Live`) brings any recorded event at any time, in any order,
  or never; a publication that fails is one that never arrives.

## The runs

| Run | Instance | What it shows |
|---|---|---|
| `run_faults` | 2 agents, cap 1, 1 cancel, faults | types; the rows implement `RunLifecycle`; agents are launched as `BoundedLaunching` says; the workflow's report agrees with the row; the reaper never takes a run whose agents are launched; a scored run has an agent that finished |
| `run_quiet` | 2 agents, cap 2, 1 cancel, no faults | a completed run leaves no agent active; workflow and children close; a run that nobody cancels becomes terminal, started or not |
| `run_cancel_race` | 2 agents, cap 2, 1 cancel, no faults | violation: a cancel request can leave the run active for ever |
| `run_cancel_start` | 2 agents, cap 1, 1 cancel, no faults | violation: agents are launched for a run that is already cancelled |
| `fanout` | 5 children, cap 3, gate, cancellable | types; the loop implements `BoundedLaunching`; no completion is lost; no error means that all ran; no slot idles; a stop reaches everybody in flight; the call returns |
| `set_faults` | 2 sessions, cap 2, budget 2, 1 charge a session, 1 cancel, faults | types; the set obeys its table; a completed set is whole; a settled set has no session in flight; the workflow closes |
| `set_budget_stop` | 2 sessions, cap 2, budget 1, nothing fails | violation: a budget stop with a session in flight ends as cancelled, without results |
| `set_spend` | 2 sessions, cap 2, nothing fails | violation: the recorded spend goes down |
| `hosted` | 2 agents, 1 deliverer, batch 2, 1 fault of a delivery; three events of which two share an ID and contradict each other | types; all evidence has one identity; no late answer overwrites a callback; success is backed by evidence; notifications agree with rows; the tables implement `HostedExecution`; every workflow closes |
| `pool` | 2 callers of one key, or one and a startup refill of another, pools of 1, 2 slots, 1 mishap, with names of their own or Docker's | types; pools stay within their size; budget and sandboxes correspond; one owner in the worker; no sandbox disappears under its owner where names are fresh; Close returns, and leaves nothing behind that the pool knows of |
| `events` | 2 writers with two and one events and their terminal calls, one event an output, queue of 1, 1 retry, 2 conflicts, 1 fault; all three modes; one client | types; the table is a log; success means that all is recorded but outputs of which an attempt failed; a stream that closes is complete; everybody ends |
| `events_lost` | the same | violation: a terminal call succeeds although an output was never recorded |

**Bounds.** `MaxCancels` bounds the cancel requests of a user and `MaxCharges`
the charges of a session; both only limit how often the environment acts. Two
agents are the fewest for which lanes interleave, one fails and the other
succeeds, and with a cap of one an agent waits to be launched; cap two lets
both run. One cancel request can meet every step of everybody else; more than
one only repeats it, since Temporal keeps a single cancellation flag. Five
children under a cap of three make the loop fill, refill, and finish with fewer
children than slots, with errors at each of these moments. A budget of two
charges is one that two sessions, which can make two charges each, exhaust
before, during and after the last launch.

`MaxStops`, `MaxMishaps` and `MaxFaults` bound the faults of deliveries, of sandboxes
and their slots, and of insertions. Two hosted agents let one notification be undeliverable while the
other one is not, and the batch holds both: with a batch full of notifications
that can never be delivered, newer ones are never listed. That is the limit of
`HostedWorkflowCloses`, and the code has it too, at 100. Two callers and two slots make
callers and refills compete for the last slot, also with an idle sandbox of
another key or a slot of nobody holding the other. A key has one more name for
sandboxes than the budget has slots, so that no lease fails for lack of a name;
the startup refill meets one caller only, to keep the states few. A queue of one, one retry and two
conflicts are the smallest values at which a queue is full, a retry succeeds or
is exhausted, and a conflict is solved or given up. The proofs remove all these
bounds for the safety properties.

**Fairness.** Workers poll for ever, and Temporal repeats a workflow task until
it succeeds, so the steps of workflows are weakly fair. Activities have
timeouts and so do the children that consist of them: futures resolve. A request
that has begun ends, as the API server either finishes it or fails it. The
reaper is weakly fair, as it is a ticker that goes on after an error. In `HostedRun` the
deadline is a durable timer, but it is required to fire only for agents without a
notification: an agent whose deployment has reported its end has to be freed by its
signal. Delivery is a ticker, so it goes on after errors. In `SandboxPool` the
wait for a slot and the requests to the provider have deadlines, so while a job or a
destroy of the pool can go on, one of them does (one weak fairness condition for all
of them); callers need not release their sandboxes, leases need not lapse, and
nothing need expire. In `EventStream`, while a writer can go on, one does; a client
that is connected polls, and a poll may fail any number of times but not for ever
(strong fairness of `Load`), since each attempt is a new query; executions end, and
clients need not connect. Nothing is
assumed of users, of late writes, or of the moment at which anything commits.
`RunEventuallyTerminal` is checked without failing activities and asked only of runs
that nobody cancels: the code gives a failing status activity one attempt and
then closes the workflow, which leaves the run active, and a cancel request can do
so too (`run_cancel_race`); the first is stated as a hazard and the second as a
finding.

**Deadlock.** A finished run, set, hosted agent, pool or stream takes no more steps, so all
configurations turn deadlock checking off; the liveness properties say what has
to be reached.

## What is proved

`BoundedFanoutProofs` proves what the loop promises for every
`N`, every cap (also zero and negative ones), and every kind of caller. The
invariant `FanoutInv` holds the properties and adds to them how many slots are taken in each phase
(`Slots`: in `fill` and `refill` one is free and a child is left) and which phases
an error can have been seen in (`Errors`). Without these a launch could exceed
the cap, or follow an error. `HandleCounts` reduces the counting to removing one
element of a finite set. That the cap holds (`FanoutRespectsCap`) and that nothing is
launched after an error (`FanoutStopsLaunching`) are theorems by themselves; the run
checks the refinement `ImplementsLaunching`, which says both and more.

`RunOrchestrationProofs` proves five results about one run, for every
nonempty finite set of agents, every cap and every number of cancel requests,
with faults and without:

* `OrchestrationTypes` and the three invariants of `run_faults`;
* `OrchestrationImplementsLifecycle`: the detailed specification implements
  `RunLifecycle`. Initial states map to initial states and every step changes
  the rows as one abstract step or not at all.

None of these is inductive by itself, because what a transaction will do to a
row was decided when it began. `OrchestrationInv` therefore says what each
pending and each abandoned transaction knows: `Reads`, that a transaction that
has read its row has passed the status table; `LateBacked`, that the reason for
which an abandoned one was begun (an agent is evaluated, the run has reached
scoring, the IDs are recorded) still holds; `Shape`, `Lanes` and `Progress`, how
steps, transactions and rows belong together; `Reports`, what the reaper and the
outcome of the workflow depend on. The proof goes through the rows: `StepRows`
reduces the steps of the whole system to three kinds (no change, the reaper, a
commit), `StepLifecycle` shows that each is abstract, `StepStable` that what is
true of a row for good stays so, and the rest of the invariant follows from
these with one lemma per part.

`QuietRunProofs` proves what holds of a run only while nothing fails, again for every
nonempty finite set of agents and every cap: `SettledAgents` assumes that `Faults` is
false, and `RestingRunsAreTerminal` that nobody cancels either (`MaxCancels = 0`).
The first is the setting of `run_quiet`, and the second assumption is needed:
with a cancel request `RestingRunIsTerminal` is what
`run_cancel_race` refutes. The argument: until the workflow is cancelled or closes, no transaction
is abandoned (`Alone`), so each lane is the only writer of its agent and the status of
the agent is the one its step tells (`LaneRow`); when all lanes have closed, the list of
agents to complete is exact (`Completing`), and whoever completes the run comes last
(`SettledFirst`, which has to cover the write a cancelled workflow leaves behind).
Without cancellation the same holds of the run's row (`RunRow`), so no write of the
main line is ever rejected except by the reaper, which leaves the run terminal.

`EvalSetProofs` proves the safety of a set for every number of sessions, cap,
budget and bound. `SetRunsBoundedLoop` shows that its steps are steps of the
bounded loop or leave the loop alone, so `FanoutInv` and all that follows from
it hold of a set too. On top of it, `SetInv` says of every status write, pending
or abandoned, what made it legitimate when it began (`Backed`: an edge of the
table, and the loop and the aggregate as the target status claims them), and of
the position of the workflow what the loop has reached (`Position`: past the
recheck every session has run, unless the budget stopped the set). What backs a
write never goes away (`StepStable`), so it does not matter when the write
commits; this gives `SetFollowsTable`, `CompletedSetsAreWhole` and
`SettledSetsHaveNoSession`. The argument for a completed set runs through
`launchBounded`: no error means that all were handled (`Errors`), the workflow
goes on only when the reason for a refusal was the budget, and a set all of
whose sessions failed takes another way.

`HostedRunProofs` proves the five invariants of `hosted` and
`ImplementsHostedExecution` for every finite set of agents, every set of events and
any number of deliverers. `ImplementsExecution` needs to know why a write of the
activity cannot spoil what callbacks have committed: the invariant relates the row
to the claim, the receipts and the position of activity, workflow and deadline,
each as a named part with the reason it is needed. A completed row has the
receipt of a completion, and only a callback brings one; a row fails without a
receipt only by a refusal, which is then reported to the workflow.

`SandboxPoolProofs` proves the six invariants of `pool` for every number of
callers, keys, slots and mishaps and any budget. `OneOwner` is not inductive: which sandbox a
job holds at which position (`Shape`), that a new name is nobody's, that the
slots and lives of sandboxes are those of their owners, of a failed destroy, or left
behind (`Books`, `Unleased`), and that what has an owner runs unless names are shared
(`Runs`) have to be known with it. The capacity bound is a count, reduced to adding and
removing one element of a finite set; orphans only make room scarcer.

`EventStreamProofs` proves the four invariants of `events` for every number of
writers, events, retries and conflicts, and for any choice of outputs. `RowsInv` says
that the table is a log; `Promised`, that the number an insertion has read is at most
the next one, so that it is the next one if it is still free; `WorkInv`, that the
events a flusher is done with are in the table unless there was an error, except
outputs of which an attempt has failed.

Assumptions: `OrchestrationAssumption` (there is an agent, `Run` and `Api` are
two different values that are no agents, the cap is positive, as
`resolvePositiveCap` makes it, and the bound on cancel requests is a natural
number), `FanoutAssumption`
(`N` is a natural number, the cap an integer, the rest has its type),
`HostedAssumption`, `PoolAssumption` and `RecordingAssumption` (sets are finite,
bounds and sizes are numbers, values that stand for nothing are nobody's), and the
library's theorems on finite sets. TLC evaluates them in every run.

**Why nothing hangs.** That something happens in the end needs fairness, which is out
of the prover's reach. What the code itself contributes to it is not: a process that
can step until it is done, and cannot step for ever. Both are safety, and both are
proved, for all values of the constants and with faults. `ENABLED` is out of the
prover's reach too, so *can step* is spelt out as the guards of the actions
(`RunCanMove`, `LaneCanMove`, `SetCanMove`, `AgentCanMove`, `RecorderCanMove`):

| | nobody is stuck | every step lowers a number | what is launched |
|---|---|---|---|
| the loop | | `FanoutWindsDown`: at most 4N + 2 steps | `FanoutImplementsLaunching` |
| RunWorkflow | `NobodyGetsStuck`, with its lanes and the API; `NoRunIsOrphaned` | `RunWindsDown`: 29 + 4 per agent | `RunImplementsLaunching`, `RunKeepsSlotsBusy` |
| RunAgentWorkflow | `NobodyGetsStuck` | `LanesWindDown`: 15 | |
| EvalSetWorkflow | `SetsNeverStick` | `SetsWindDown`: 20N + 79 | `SetImplementsLaunching` |
| hosted agents | `HostedAgentsNeverStick`, `SignalsAreNotLost` | `HostedAgentsWindDown`: 12 | |
| pool after Close | | `ClosingWindsDown` | |
| writers | `WritersNeverStick` | `WritersWindDown`, `TheLogIsAppendOnly` | |

A number that a process's own steps lower, and that no step of anybody else raises, is
what keeps the cancel requests, late writes, callbacks, retries and lapses of the
others from sending it back. In `RunOrchestration` the number counts the steps left, a
transaction that has read its row being one step further than one that has not; in
`EvalSet` it is that of the loop, weighted, plus that of the workflow around it; for a
writer each event is worth all insertions it may take with every retry and conflict.
That nobody is stuck needs invariants of its own: a workflow that waits for its
children has launched one that is not settled (`Waiting`), a request or workflow whose
step names a write has one (`Waits`), and the notifications that are pending are
ordered as they were created, so that a deliverer finds a first one (`Queue`,
`BatchHasFirst`). `NoRunIsOrphaned` closes the gap before the start: a run whose create request has ended
without starting the workflow is over, or the reaper can take it. Deliverers and the client of a stream have no such number, as they
may go on for ever: a notification of a workflow that has closed is listed again and
again, and a poll may fail again and again.

**Only model-checked.** Liveness itself (`FanoutReturns`, `EverythingCloses`,
`RunEventuallyTerminal`, `SetWorkflowCloses`, `HostedWorkflowCloses`, `CloseReturns`,
`EverythingSettles`), since the prover does not deal with
fairness. For a closing pool there is no theorem that nobody is stuck, as none is needed: every
position of a job but rest has a step, the wait for a slot too, since it has a deadline.
The same holds of the loop, which waits for a future that is open or takes it.

## Limits

Not modelled, and why:

* the provider throttle: what it promises is about windows of time (requests and
  tokens a minute, a cooldown until a moment), and its hazards need a clock in
  the model; it is the next module of the plan;
* evaluation sessions by themselves: their status, aggregate and classification
  of cancelled runs;
* readers that resume: `Last-Event-ID` and the row id as a cursor, and the
  standings hash (see the observations below);
* calls of an observer after its terminal call, which its constructor forbids;
* several workers on one Redis budget, tokens and signatures of callbacks;
* replay branches (`launchAllUnbounded`, default versions of `GetVersion`): they
  serve histories recorded by older code;
* scoring, engine, judges, gates, security score: computation over reals and
  text without shared state;
* Vibe, agent harness, tryouts, dataset generation: separate workflows, mostly
  linear, with tables of their own;
* authorization, validation, reads, CLI, web: no state of the execution plane.

Abstracted in what is modelled: payloads, errors as texts, timestamps,
status history, metrics, and the age limits of the reaper.

Observed while modelling, and not claimed as disagreements with what the
repository promises:

* The labels of a request are part of the key of its pool (`poolFingerprint`), and
  `nativeSandboxRequest` labels its sandboxes with run and run agent. Warm
  sandboxes therefore fit only the agent for which they were refilled, the one
  `EnsureWarm` creates at startup fits nobody, and an idle sandbox of a finished
  agent keeps its slot until its TTL, although the comment of `PoolKey` and
  `docs/deployment/worker-scaling.md` speak of keys per template and tool policy.
* Under Docker, a refill for a run agent, or another case of it, removes the container
  that the first one is using: its name is that of the run agent
  (`containerName`), a refill keeps the request of its caller, and
  `createContainer` takes any managed container with the name for *"a stale
  container leaked by a crashed prior attempt"* (`docker/provider.go:158-160`).
  `OwnedSandboxRuns` holds only of the other providers.
* A `Create` that fails may leave a sandbox behind whose slot is released: the E2B
  and Docker providers drop the error of their own attempt to destroy it, and an
  answer may be lost. A Redis acquire or release that is not answered leaves a slot
  to nobody until its lease ends.
* A caller that waits for a slot does not look at the pool again. A `Destroy` that
  fails keeps its slot for the life of the worker.
* An insertion whose acknowledgement is lost is made again, so an event can be
  recorded twice; `WriteOrder` allows it, and the order is still right.
* A stream that resumes behind a `Last-Event-ID` treats what was recorded before
  it as sent. Events of other agents that commit later with earlier times are
  then never sent; a reader behind a row id skips rows with smaller ids that
  commit later.
* The entry of an agent in the standings is read, merged and written in separate
  commands, so an update can be lost.
* Notifications that can never be delivered are listed first. A hundred of them
  keep newer ones from being delivered.

## Findings

Five places where the code disagrees with what its comments, tests or API
documentation say. `PROJECT.json` quotes the lines; the runs print the traces.

1. `run_cancel_race`: a cancel request that meets a status write between its
   read and its update leaves the run active. The late write makes both
   cancelling writes conflict, `markRunCancelled` does not try again, and a
   repeated request is refused because the workflow is gone.
2. `run_cancel_start`: *NotFound* during start is taken to mean that the
   workflow never starts. It can start right after, and then runs agents for a
   cancelled run.
3. `set_budget_stop`: with two sessions in flight a budget stop cancels the other
   session, and its cancellation outweighs the refusal: the set ends as
   cancelled and nothing is aggregated. The existing test has one session at a
   time.
4. `set_spend`: refreshes of the spend are read-modify-write without a lock, so
   a recorded total can be overwritten by a smaller one.
5. `events_lost`: the terminal call of a buffered observer is said to guarantee that
   all events are persisted. The inner observer marks an output before it records
   it, so when its `INSERT` fails once, the retry returns without one, no error is
   kept, and the terminal call succeeds with the event lost.

## Plan

Done: `StatusMachines`, `RunLifecycle`, `RunOrchestration`, `BoundedLaunching`, `BoundedFanout`,
`EvalSet`, `HostedExecution`, `HostedRun`, `SandboxPool`, `EventRecording`,
`EventStream`, the proofs of the safety of all of them, and the two safety halves of
their liveness.

What is left, in order of importance:

1. `Throttle`: slots, request rate, token window and cooldown with a clock that
   ticks; two requests that wait for each other's tokens across a window.
2. `EvalSession`, as the child between `EvalSet` and `RunOrchestration`: its
   status, its aggregate, and cancelled runs.
3. Cursors and standings on top of `EventRecording`.
4. Several workers on one Redis budget, each with a `SandboxPool`.
5. The agent harness and tryout workflows, which run beside the run path.
