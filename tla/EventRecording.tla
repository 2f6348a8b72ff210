--------------------------- MODULE EventRecording ---------------------------
(***************************************************************************)
(* How the events of a run get into the table run_events.                  *)
(*                                                                         *)
(* A writer is an execution with its BufferedObserver: the executor hands  *)
(* events to a queue, and a flusher records them one after the other       *)
(* through PublishingRecorder, trying again when that fails.  The terminal *)
(* call waits until the queue is empty, and records its own event, if the  *)
(* execution is not one case of a fan-out.                                 *)
(*                                                                         *)
(* An attempt is a call of the inner observer, which has a state of its    *)
(* own: it remembers that it has seen an output before the output is       *)
(* recorded, and a prompt observer that the run has been announced.  The   *)
(* next attempt is therefore not the same INSERT.                          *)
(*                                                                         *)
(* The writers of a run are all of one mode: the cases of one run agent,   *)
(* which number their events in one sequence; native run agents; or run    *)
(* agents with a prompt observer (prompt_eval and responses).              *)
(***************************************************************************)
EXTENDS Naturals, FiniteSets, FiniteSetsExt

CONSTANTS
  Writers,
  Agent,         \* the run agent of all writers, when they are cases
  MaxEvents,     \* bound: events of each writer before its terminal call
  Outputs,       \* those whose call marks the output as recorded, per writer
  QueueCap,      \* capacity of the queue
  MaxRetries,    \* repetitions by executeWithRetry
  MaxConflicts,  \* maxSequenceRetries of RecordRunEvent
  MaxFaults      \* bound: insertions that fail, or succeed unnoticed

ASSUME RecordingAssumption ==
  /\ Agent \notin Writers
  /\ MaxEvents \in [Writers -> Nat] /\ QueueCap \in Nat \ {0} /\ MaxRetries \in Nat
  /\ MaxConflicts \in Nat \ {0} /\ MaxFaults \in Nat
  /\ Outputs \in [Writers -> SUBSET Nat]

VARIABLES
  mode,      \* of the run: "cases" (of Agent), "native" or "prompt"
  rows,      \* run_events: agent, sequence number, writer and its event
  executor,  \* per writer: position of the executor
  accepted,  \* per writer: events handed to the queue
  settled,   \* per writer: events the flusher is done with
  missed,    \* per writer: outputs of which a later attempt has left out something
  bgErr,     \* per writer: the first error, of the run's announcement or another event
  call,      \* per writer: the RecordRunEvent in progress
  faults

recordingVars == <<mode, rows, executor, accepted, settled, missed, bgErr, call, faults>>

Terminal == 0            \* the terminal event of a writer; the others are 1, 2, ...
Idle     == [at |-> "idle", seq |-> 0, tries |-> 0, conflicts |-> 0]

AgentOf(w) == IF mode = "cases" THEN Agent ELSE w

Modes == {"cases", "native", "prompt"}

RecordingInit ==
  /\ mode \in Modes
  /\ rows = {}
  /\ executor = [w \in Writers |-> "run"]
  /\ accepted = [w \in Writers |-> 0] /\ settled = [w \in Writers |-> 0]
  /\ missed = [w \in Writers |-> {}] /\ bgErr = [w \in Writers |-> "none"]
  /\ call = [w \in Writers |-> Idle]
  /\ faults = 0

Go(w, at) == executor' = [executor EXCEPT ![w] = at]

-----------------------------------------------------------------------------
(* The executor and the calls of BufferedObserver *)

\* An event is refused after an error of an earlier one.
Emit(w) ==
  /\ executor[w] = "run" /\ bgErr[w] = "none"
  /\ accepted[w] < MaxEvents[w]
  /\ Go(w, "enqueue")
  /\ UNCHANGED <<mode, rows, accepted, settled, missed, bgErr, call, faults>>

\* The event waits for room in the queue; the flusher holds one event in addition to
\* those in the queue.
Enqueue(w) ==
  /\ executor[w] = "enqueue"
  /\ accepted[w] - settled[w] < QueueCap + (IF call[w] = Idle THEN 0 ELSE 1)
  /\ accepted' = [accepted EXCEPT ![w] = @ + 1]
  /\ Go(w, "run")
  /\ UNCHANGED <<mode, rows, settled, missed, bgErr, call, faults>>

\* The execution ends, also because an event was refused: OnRunComplete or
\* OnRunFailure sends the sentinel of flush.
EndExecution(w) ==
  /\ executor[w] = "run"
  /\ Go(w, "flush")
  /\ UNCHANGED <<mode, rows, accepted, settled, missed, bgErr, call, faults>>

Drained(w) == settled[w] = accepted[w] /\ call[w] = Idle

\* OnRunComplete and OnRunFailure after flush: they give up on an error, and
\* otherwise record the terminal event, which a case of a fan-out has not.
AfterFlush(w) ==
  IF bgErr[w] # "none" THEN "failed" ELSE IF mode = "cases" THEN "ok" ELSE "finish"

Unblock(w, at) ==
  /\ executor[w] = "flush"
  /\ Go(w, at)
  /\ UNCHANGED <<mode, rows, accepted, settled, missed, bgErr, call, faults>>

\* Variant: flush does not wait for the sentinel.
FlushedAtOnce(w) == \E at \in {AfterFlush(w), "failed"} : Unblock(w, at)

\* The flusher has come to the sentinel.  A call whose context has ended in the
\* meantime fails, but not before: shutdown waits for the flusher.
Flushed(w) == Drained(w) /\ \E at \in {AfterFlush(w), "failed"} : Unblock(w, at)

-----------------------------------------------------------------------------
(* RecordRunEvent, called by the flusher or by the terminal call *)

Finishing(w) == executor[w] = "finish"
Event(w)     == IF Finishing(w) THEN Terminal ELSE settled[w] + 1

Numbers(a) == {r.seq : r \in {s \in rows : s.agent = a}}

\* Variant: MAX over the run.
NextOfRun(a) == Max({r.seq : r \in rows} \union {0}) + 1

NextNumber(a) == Max(Numbers(a) \union {0}) + 1

\* Something to record: a prompt observer that could not announce the run refuses
\* everything else.
Ready(w) == Finishing(w) \/ (settled[w] < accepted[w] /\ bgErr[w] # "start")

NumberWhen(w, ready) ==
  /\ call[w].at = "again" \/ (call[w].at = "idle" /\ ready)
  /\ call' = [call EXCEPT ![w].at = "insert", ![w].seq = NextNumber(AgentOf(w))]
  /\ UNCHANGED <<mode, rows, executor, accepted, settled, missed, bgErr, faults>>

\* Variant: the flusher records an event when another one has come after it.
NumberBatched(w) == NumberWhen(w, Ready(w) /\ (settled[w] + 1 < accepted[w] \/ Finishing(w)))

\* The INSERT reads MAX(sequence_number).
Number(w) == NumberWhen(w, Ready(w))

\* The recorder is done with the event: the flusher goes on with the next one,
\* the terminal call returns.
Settle(w, err) ==
  /\ call' = [call EXCEPT ![w] = Idle]
  /\ IF Finishing(w)
     THEN Go(w, IF err = "none" THEN "ok" ELSE "failed") /\ UNCHANGED <<settled, bgErr>>
     ELSE /\ settled' = [settled EXCEPT ![w] = @ + 1]
          /\ bgErr' = [bgErr EXCEPT ![w] = IF @ = "none" THEN err ELSE @]
          /\ UNCHANGED executor

\* The event is refused without an INSERT, however often it is tried.
Refuse(w) ==
  /\ call[w].at = "idle" /\ ~Finishing(w)
  /\ settled[w] < accepted[w] /\ bgErr[w] = "start"
  /\ Settle(w, "start")
  /\ UNCHANGED <<mode, rows, accepted, missed, faults>>

\* The INSERT is made once more.
Again(w, tries, conflicts) ==
  /\ call' = [call EXCEPT ![w] = [at |-> "again", seq |-> 0,
                                  tries |-> tries, conflicts |-> conflicts]]
  /\ UNCHANGED <<executor, settled, bgErr>>

\* The announcement of the run by a prompt observer, which is made once.
Announcing(w) == mode = "prompt" /\ Event(w) = 1

HasOutput(w) == ~Finishing(w) /\ Event(w) \in Outputs[w]
Miss(w)      == missed' = [missed EXCEPT ![w] = IF HasOutput(w) THEN @ \union {Event(w)} ELSE @]

\* The inner observer is called again.  A native one has marked the output as
\* recorded and returns at once.  A prompt observer records the answer of the model
\* again, but not the output that goes with it.
Repeat(w) ==
  /\ Miss(w)
  /\ IF HasOutput(w) /\ mode # "prompt" THEN Settle(w, "none")
                                       ELSE Again(w, call[w].tries + 1, 0)

FailWhen(w, repeated) ==
  IF ~Finishing(w) /\ ~Announcing(w) /\ repeated
  THEN Repeat(w)
  ELSE Settle(w, IF Announcing(w) THEN "start" ELSE "event") /\ UNCHANGED missed

\* Variant: one repetition too many.
FailLater(w) == FailWhen(w, call[w].tries <= MaxRetries)

\* An error: executeWithRetry calls again, the terminal call does not.
Fail(w) == FailWhen(w, call[w].tries < MaxRetries)

AddRow(w) ==
  rows' = rows \union {[agent |-> AgentOf(w), seq |-> call[w].seq,
                        writer |-> w, event |-> Event(w)]}

\* The INSERT commits, and the event is published: that is best effort, its error is
\* logged.
Commit(w) ==
  /\ call[w].at = "insert" /\ call[w].seq \notin Numbers(AgentOf(w))
  /\ AddRow(w)
  /\ Settle(w, "none")
  /\ UNCHANGED <<mode, accepted, missed, faults>>

\* Somebody else has taken the number: unique_violation.
Conflict(w) ==
  /\ call[w].at = "insert" /\ call[w].seq \in Numbers(AgentOf(w))
  /\ IF call[w].conflicts + 1 < MaxConflicts
     THEN Again(w, call[w].tries, call[w].conflicts + 1) /\ UNCHANGED missed
     ELSE Fail(w)
  /\ UNCHANGED <<mode, rows, accepted, faults>>

\* The INSERT fails, or commits and the answer gets lost.
InsertFails(w) ==
  /\ call[w].at = "insert" /\ faults < MaxFaults
  /\ faults' = faults + 1
  /\ \/ UNCHANGED rows
     \/ call[w].seq \notin Numbers(AgentOf(w)) /\ AddRow(w)
  /\ Fail(w)
  /\ UNCHANGED <<mode, accepted>>

-----------------------------------------------------------------------------
Return(w) == Enqueue(w) \/ EndExecution(w) \/ Flushed(w)
Insert(w) == Number(w) \/ Refuse(w) \/ Commit(w) \/ Conflict(w)

Writing(w) == Emit(w) \/ Return(w) \/ Insert(w) \/ InsertFails(w)

-----------------------------------------------------------------------------
(* Properties *)

RecordingTypeOK ==
  /\ mode \in Modes
  /\ rows \subseteq [agent : Writers \union {Agent}, seq : Nat \ {0}, writer : Writers, event : Nat]
  /\ executor \in [Writers -> {"run", "enqueue", "flush", "finish", "ok", "failed"}]
  /\ accepted \in [Writers -> Nat] /\ settled \in [Writers -> Nat]
  /\ \A w \in Writers :
       /\ settled[w] <= accepted[w] /\ accepted[w] <= MaxEvents[w]
       /\ accepted[w] <= settled[w] + QueueCap + 1
  /\ missed \in [Writers -> SUBSET Nat]
  /\ bgErr \in [Writers -> {"none", "start", "event"}]
  /\ call \in [Writers -> [at : {"idle", "insert", "again"}, seq : Nat,
                           tries : 0..MaxRetries, conflicts : 0..MaxConflicts]]
  /\ faults \in 0..MaxFaults

EventsOf(w) == (1..accepted[w]) \union (IF mode = "cases" THEN {} ELSE {Terminal})
Recorded(w) == {r.event : r \in {s \in rows : s.writer = w}}

\* When the terminal call succeeds, all events of the execution are recorded, and
\* its own one if it has one, except for outputs of which an attempt has failed.
SuccessMeansRecorded ==
  \A w \in Writers : executor[w] = "ok" => EventsOf(w) \subseteq Recorded(w) \union missed[w]

\* What the comment on BufferedObserver says: all events are persisted before
\* scoring begins.
PersistedBeforeScoring ==
  \A w \in Writers : executor[w] = "ok" => EventsOf(w) \subseteq Recorded(w)

\* The numbers of a run agent's events are 1, 2, 3, ... however many writers append.
NumbersAreDense ==
  \A a \in Writers \union {Agent} :
    LET mine == {r \in rows : r.agent = a}
    IN {r.seq : r \in mine} = 1..Cardinality(mine)

Precedes(m, n) == n = Terminal \/ (m # Terminal /\ m <= n)

\* The events of a writer are recorded in the order of the calls, and its terminal
\* event is the last one, also when some are recorded twice or not at all.
WriteOrder ==
  \A r, s \in rows : r.writer = s.writer /\ r.seq < s.seq => Precedes(r.event, s.event)

\* Replay and scoring may read the rows of an agent in the order of their numbers:
\* there is no gap, no repetition and no event before one that was called earlier.
LogInOrder == NumbersAreDense /\ WriteOrder

\* Every execution has returned: no terminal call waits for a flusher that is stuck,
\* and no call for room in a queue nobody reads.
WritersReturned == \A w \in Writers : executor[w] \in {"ok", "failed"}
=============================================================================
