-------------------------- MODULE EventStreamProofs --------------------------
(***************************************************************************)
(* The safety of EventRecording and EventStream for every number of        *)
(* writers, events, retries, conflicts and faults.                         *)
(*                                                                         *)
(* RowsInv says of the table that it is a log: what is appended gets the   *)
(* next number of its agent, because a number that is free when it commits *)
(* and was the next one when it was read (Promised) still is the next one. *)
(* WorkInv relates the table to the positions of the writers: an event in  *)
(* the table is one the flusher has reached, and without an error all      *)
(* events the flusher is done with are there, except for the outputs of    *)
(* which an attempt has failed.                                            *)
(*                                                                         *)
(* At the end: the log only grows, and writers wind down and are never     *)
(* stuck, with retries and conflicts.                                      *)
(***************************************************************************)
EXTENDS EventStream, FiniteSetTheorems, TLAPS

USE RecordingAssumption DEF RecordingAssumption

Mine(a) == {r \in rows : r.agent = a}
RowsInv ==
  /\ IsFiniteSet(rows)
  /\ \A r \in rows : r.agent = AgentOf(r.writer)
  /\ NumbersAreDense /\ WriteOrder

Promised ==
  \A w \in Writers :
    call[w].at = "insert" => call[w].seq \in 1..(Cardinality(Mine(AgentOf(w))) + 1)

Over == {"finish", "ok", "failed"}

WorkInv ==
  /\ \A w \in Writers :
       /\ call[w].at = "idle" => call[w] = Idle
       /\ executor[w] = "enqueue" => accepted[w] < MaxEvents[w]
       /\ executor[w] \in Over => settled[w] = accepted[w]
       /\ executor[w] \in {"ok", "failed"} => call[w] = Idle
       /\ executor[w] = "finish" => bgErr[w] = "none" /\ mode # "cases"
       /\ executor[w] = "ok" => bgErr[w] = "none" /\ (mode # "cases" => Terminal \in Recorded(w))
       /\ call[w].at # "idle" /\ ~Finishing(w) => settled[w] < accepted[w]
       /\ bgErr[w] = "none" => 1..settled[w] \subseteq Recorded(w) \union missed[w]
  /\ \A r \in rows :
       /\ r.event = Terminal => executor[r.writer] \in Over
       /\ r.event <= accepted[r.writer] /\ r.event <= settled[r.writer] + 1

RecordingInv == RecordingTypeOK /\ RowsInv /\ Promised /\ WorkInv

-----------------------------------------------------------------------------
(* Numbers *)

\* The maximum of 1, 2, ..., n and 0.
LEMMA MaxOfInterval == \A n \in Nat : Max((1..n) \union {0}) = n
  BY DEF Max

\* Rows belong to the shared run agent or to their writer.
LEMMA AgentType == \A w \in Writers : AgentOf(w) \in Writers \union {Agent}
  BY DEF AgentOf

\* What a new row does to the number of rows of an agent.
LEMMA MineCounts ==
  ASSUME RowsInv, NEW a \in Writers \union {Agent}
  PROVE  /\ IsFiniteSet(Mine(a)) /\ Cardinality(Mine(a)) \in Nat
         /\ Numbers(a) = 1..Cardinality(Mine(a))
<1>1. IsFiniteSet(Mine(a))
  BY FS_Subset DEF RowsInv, Mine
<1>2. Cardinality(Mine(a)) \in Nat
  BY <1>1, FS_CardinalityType
<1>3. Numbers(a) = 1..Cardinality(Mine(a))
  BY DEF RowsInv, NumbersAreDense, Numbers, Mine
<1>. QED  BY <1>1, <1>2, <1>3

\* The number an INSERT computes is the one behind those of its agent.
LEMMA NextIsFree ==
  ASSUME RowsInv, NEW a \in Writers \union {Agent}
  PROVE  NextNumber(a) = Cardinality(Mine(a)) + 1
  BY MineCounts, MaxOfInterval DEF NextNumber

\* A number that was promised and is free is the next one, so the row is appended.
LEMMA AddRowInv ==
  ASSUME RecordingInv, NEW w \in Writers, call[w].at = "insert",
         call[w].seq \notin Numbers(AgentOf(w)), AddRow(w), UNCHANGED mode
  PROVE  /\ RowsInv'
         /\ \A a \in Writers \union {Agent} :
              Cardinality(Mine(a)') \in Nat /\ Cardinality(Mine(a)) <= Cardinality(Mine(a)')
<1>. DEFINE n == Cardinality(Mine(AgentOf(w)))
            new == [agent |-> AgentOf(w), seq |-> n + 1, writer |-> w, event |-> Event(w)]
<1>1. call[w].seq = n + 1 /\ n \in Nat /\ Numbers(AgentOf(w)) = 1..n
  <2>1. n \in Nat /\ Numbers(AgentOf(w)) = 1..n
    BY MineCounts, AgentType DEF RecordingInv
  <2>2. call[w].seq \in 1..(n + 1)
    BY DEF RecordingInv, Promised
  <2>. QED  BY <2>1, <2>2
<1>2. rows' = rows \union {new}
  BY <1>1 DEF AddRow
<1>3. new \notin rows
  BY <1>1 DEF Numbers
<1>. HIDE DEF n
<1>4. IsFiniteSet(rows')
  BY <1>2, FS_AddElement DEF RecordingInv, RowsInv
<1>5. \A r \in rows' : r.agent = AgentOf(r.writer)'
  BY <1>2 DEF RecordingInv, RowsInv, AgentOf
<1>6. ASSUME NEW a \in Writers \union {Agent}
      PROVE  /\ Numbers(a)' = 1..Cardinality(Mine(a)')
             /\ Cardinality(Mine(a)') \in Nat
             /\ Cardinality(Mine(a)) <= Cardinality(Mine(a)')
  <2>1. CASE a = AgentOf(w)
    <3>1. Mine(a)' = Mine(a) \union {new} /\ new \notin Mine(a)
      BY <1>2, <1>3, <2>1 DEF Mine
    <3>2. Cardinality(Mine(a)') = n + 1
      BY <3>1, <2>1, <1>1, MineCounts, FS_AddElement DEF RecordingInv, n
    <3>3. Numbers(a)' = Numbers(a) \union {n + 1}
      <4>1. Numbers(a) = {r.seq : r \in Mine(a)} /\ Numbers(a)' = {r.seq : r \in Mine(a)'}
        BY DEF Numbers, Mine
      <4>2. new.seq = n + 1
        OBVIOUS
      <4>. HIDE DEF new
      <4>. QED  BY <3>1, <4>1, <4>2
    <3>. QED  BY <3>2, <3>3, <2>1, <1>1 DEF n
  <2>2. CASE a # AgentOf(w)
    <3>1. Mine(a)' = Mine(a)
      BY <1>2, <2>2 DEF Mine
    <3>2. Numbers(a)' = Numbers(a)
      BY <1>2, <2>2 DEF Numbers
    <3>. QED  BY <3>1, <3>2, MineCounts DEF RecordingInv
  <2>. QED  BY <2>1, <2>2
<1>7. NumbersAreDense'
  BY <1>6 DEF NumbersAreDense, Numbers, Mine
<1>8. WriteOrder'
  <2>. SUFFICES ASSUME NEW r \in rows', NEW s \in rows', r.writer = s.writer, r.seq < s.seq
                PROVE  Precedes(r.event, s.event)
    BY DEF WriteOrder
  <2>1. CASE r \in rows /\ s \in rows
    BY <2>1 DEF RecordingInv, RowsInv, WriteOrder
  <2>2. CASE r = new
    <3>1. (s \in rows /\ s.agent = AgentOf(w)) \/ s = new
      BY <1>2, <2>2 DEF RecordingInv, RowsInv
    <3>2. s \in rows /\ s.agent = AgentOf(w) => s.seq \in 1..n
      BY <1>1 DEF Numbers
    <3>. QED  BY <3>1, <3>2, <2>2, <1>1
  <2>3. CASE r \in rows /\ s = new
    <3>1. r.writer = w
      BY <2>3
    <3>2. CASE Finishing(w)
      BY <2>3, <3>2 DEF Event, Precedes
    <3>3. CASE ~Finishing(w)
      <4>1. settled[w] < accepted[w] /\ executor[w] \notin Over
        <5>1. settled[w] < accepted[w]
          BY <3>3 DEF RecordingInv, WorkInv
        <5>2. executor[w] \in Over => settled[w] = accepted[w]
          BY DEF RecordingInv, WorkInv
        <5>3. settled[w] \in Nat /\ accepted[w] \in Nat
          BY DEF RecordingInv, RecordingTypeOK
        <5>. QED  BY <5>1, <5>2, <5>3
      <4>2. r.event # Terminal /\ r.event <= settled[w] + 1
        BY <2>3, <3>1, <4>1 DEF RecordingInv, WorkInv
      <4>. QED  BY <2>3, <3>3, <4>2 DEF Event, Precedes
    <3>. QED  BY <3>2, <3>3
  <2>. QED  BY <1>2, <2>1, <2>2, <2>3
<1>. QED  BY <1>4, <1>5, <1>6, <1>7, <1>8 DEF RowsInv

-----------------------------------------------------------------------------
(* Steps of the writers *)

\* A step that adds no row and starts no INSERT keeps log and promises.
LEMMA KeepRows ==
  ASSUME RecordingInv, UNCHANGED <<rows, mode>>,
         \A w \in Writers : call'[w].at = "insert" => call'[w] = call[w]
  PROVE  RowsInv' /\ Promised'
<1>1. RowsInv'
  BY DEF RecordingInv, RowsInv, NumbersAreDense, WriteOrder, AgentOf
<1>2. Promised'
  BY DEF RecordingInv, Promised, AgentOf, Mine
<1>. QED  BY <1>1, <1>2

\* Nothing is recorded at first.
LEMMA RecordingInitInv == RecordingInit => RecordingInv
<1>. SUFFICES ASSUME RecordingInit PROVE RecordingInv
  OBVIOUS
<1>. USE DEF RecordingInit, Idle
<1>1. RecordingTypeOK
  BY DEF RecordingTypeOK
<1>2. RowsInv
  BY FS_EmptySet DEF RowsInv, NumbersAreDense, WriteOrder
<1>3. Promised /\ WorkInv
  BY DEF Promised, WorkInv, Finishing, Over
<1>. QED  BY <1>1, <1>2, <1>3 DEF RecordingInv

\* Steps of the executor: it emits, ends, and is answered.
LEMMA ExecutorInv ==
  ASSUME RecordingInv, NEW w \in Writers, Emit(w) \/ Return(w)
  PROVE  RecordingInv'
<1>. USE DEF RecordingInv
<1>1. RecordingTypeOK'
  <2>. USE DEF RecordingTypeOK, Go
  <2>1. CASE Emit(w)
    BY <2>1 DEF Emit
  <2>2. CASE Enqueue(w)
    BY <2>2 DEF Enqueue, WorkInv
  <2>3. CASE EndExecution(w)
    BY <2>3 DEF EndExecution
  <2>4. CASE Flushed(w)
    BY <2>4 DEF Flushed, Unblock, AfterFlush
  <2>. QED  BY <2>1, <2>2, <2>3, <2>4 DEF Return
<1>2. RowsInv' /\ Promised'
  BY KeepRows DEF Emit, Return, Enqueue, EndExecution, Flushed, Unblock
<1>3. WorkInv'
  <2>. USE DEF RecordingTypeOK, WorkInv, Finishing, Recorded, Over, Go
  <2>1. CASE Emit(w)
    BY <2>1 DEF Emit
  <2>2. CASE Enqueue(w)
    BY <2>2 DEF Enqueue
  <2>3. CASE EndExecution(w)
    BY <2>3 DEF EndExecution
  <2>4. CASE Flushed(w)
    BY <2>4 DEF Flushed, Unblock, AfterFlush, Drained
  <2>. QED  BY <2>1, <2>2, <2>3, <2>4 DEF Return
<1>. QED  BY <1>1, <1>2, <1>3

\* Taking the next number keeps the invariant.
LEMMA NumberInv == ASSUME RecordingInv, NEW w \in Writers, Number(w) PROVE RecordingInv'
<1>. USE DEF RecordingInv
<1>0. /\ UNCHANGED <<mode, rows, executor, accepted, settled, missed, bgErr, faults>>
      /\ call[w].at = "idle" => settled[w] < accepted[w] \/ Finishing(w)
      /\ call[w].at # "insert"
  BY DEF Number, NumberWhen, Ready
<1>1. NextNumber(AgentOf(w)) \in 1..(Cardinality(Mine(AgentOf(w))) + 1)
  BY NextIsFree, MineCounts, AgentType
<1>2. NextNumber(AgentOf(w)) \in Nat
  BY <1>1, MineCounts, AgentType
<1>3. /\ call' = [call EXCEPT ![w] = [@ EXCEPT !.at = "insert", !.seq = NextNumber(AgentOf(w))]]
      /\ call[w] \in [at : {"idle", "insert", "again"}, seq : Nat, tries : 0..MaxRetries,
                      conflicts : 0..MaxConflicts]
  BY DEF RecordingTypeOK, Number, NumberWhen
<1>4. /\ \A v \in Writers : v # w => call'[v] = call[v]
      /\ call'[w] = [at |-> "insert", seq |-> NextNumber(AgentOf(w)), tries |-> call[w].tries,
                    conflicts |-> call[w].conflicts]
  BY <1>3 DEF RecordingTypeOK
<1>5. RecordingTypeOK'
  BY <1>0, <1>2, <1>3, <1>4 DEF RecordingTypeOK
<1>6. RowsInv'
  BY <1>0 DEF RowsInv, NumbersAreDense, WriteOrder, AgentOf
<1>7. Promised'
  <2>. SUFFICES ASSUME NEW v \in Writers, call'[v].at = "insert"
                PROVE  call'[v].seq \in 1..(Cardinality(Mine(AgentOf(v))) + 1)
    BY <1>0 DEF Promised, AgentOf, Mine
  <2>1. CASE v = w
    BY <1>1, <1>4, <2>1
  <2>2. CASE v # w
    BY <1>4, <2>2 DEF Promised
  <2>. QED  BY <2>1, <2>2
<1>8. WorkInv'
  <2>. SUFFICES ASSUME NEW v \in Writers
                PROVE  /\ executor[v] \in {"ok", "failed"} => call'[v] = Idle
                       /\ call'[v].at = "idle" => call'[v] = Idle
                       /\ call'[v].at # "idle" /\ ~Finishing(v) => settled[v] < accepted[v]
    BY <1>0 DEF WorkInv, Recorded, Finishing
  <2>1. CASE v = w
    BY <1>0, <1>4, <2>1 DEF WorkInv, Idle, Finishing, Over, RecordingTypeOK
  <2>2. CASE v # w
    BY <1>0, <1>4, <2>2 DEF WorkInv, RecordingTypeOK
  <2>. QED  BY <2>1, <2>2
<1>. QED  BY <1>5, <1>6, <1>7, <1>8

\* What the table may gain while the writer records its event.
Gains(w) ==
  \/ UNCHANGED rows
  \/ call[w].at = "insert" /\ AddRow(w) /\ call[w].seq \notin Numbers(AgentOf(w))

\* The writer has an event at hand: it inserts it, or is about to refuse it.
Busy(w) ==
  \/ call[w].at = "insert"
  \/ call[w].at = "idle" /\ ~Finishing(w) /\ settled[w] < accepted[w]

\* A row with the number of its call keeps what is said of the rows.
LEMMA GainsInv ==
  ASSUME RecordingInv, NEW w \in Writers, Gains(w), UNCHANGED mode,
         \A v \in Writers : call'[v].at = "insert" => call'[v] = call[v]
  PROVE  RowsInv' /\ Promised'
<1>1. CASE UNCHANGED rows
  BY <1>1, KeepRows
<1>2. CASE call[w].at = "insert" /\ AddRow(w) /\ call[w].seq \notin Numbers(AgentOf(w))
  <2>1. RowsInv' /\ \A a \in Writers \union {Agent} :
                       Cardinality(Mine(a)') \in Nat /\ Cardinality(Mine(a)) <= Cardinality(Mine(a)')
    BY <1>2, AddRowInv
  <2>2. ASSUME NEW v \in Writers, call'[v].at = "insert"
        PROVE  call'[v].seq \in 1..(Cardinality(Mine(AgentOf(v)))' + 1)
    <3>1. call[v].seq \in 1..(Cardinality(Mine(AgentOf(v))) + 1)
      BY <2>2 DEF RecordingInv, Promised
    <3>2. PICK a \in Writers \union {Agent} : a = AgentOf(v)
      BY AgentType
    <3>3. Cardinality(Mine(a)) \in Nat
      BY MineCounts DEF RecordingInv
    <3>4. Mine(AgentOf(v))' = {r \in rows' : r.agent = a}
      BY <3>2 DEF Mine, AgentOf
    <3>5. Cardinality(Mine(AgentOf(v)))' = Cardinality({r \in rows' : r.agent = a})
      BY <3>4
    <3>6. /\ Cardinality({r \in rows' : r.agent = a}) \in Nat
          /\ Cardinality(Mine(a)) <= Cardinality({r \in rows' : r.agent = a})
      BY <2>1 DEF Mine
    <3>7. call'[v].seq \in 1..(Cardinality(Mine(a)) + 1)
      BY <2>2, <3>1, <3>2
    <3>. HIDE DEF Mine
    <3>. QED  BY <3>3, <3>5, <3>6, <3>7
  <2>. QED  BY <2>1, <2>2 DEF Promised
<1>. QED  BY <1>1, <1>2 DEF Gains

CallType == [at : {"idle", "insert", "again"}, seq : Nat, tries : 0..MaxRetries,
             conflicts : 0..MaxConflicts]

\* A row that is added is one of the event at hand.
LEMMA GainedRows ==
  ASSUME RecordingInv, NEW w \in Writers, Gains(w), UNCHANGED mode
  PROVE  /\ rows \subseteq rows'
         /\ \A r \in rows' \ rows : r.writer = w /\ r.event = Event(w)
         /\ rows' \subseteq [agent : Writers \union {Agent}, seq : Nat \ {0}, writer : Writers,
                            event : Nat]
<1>1. call[w].at = "insert" => call[w].seq \in Nat \ {0}
  BY MineCounts, AgentType DEF RecordingInv, Promised
<1>2. Event(w) \in Nat
  BY DEF RecordingInv, RecordingTypeOK, Event, Terminal
<1>. QED  BY <1>1, <1>2, AgentType DEF Gains, AddRow, RecordingInv, RecordingTypeOK

\* The event at hand is the next one of the writer, or the terminal one.
LEMMA AtHand ==
  ASSUME RecordingInv, NEW w \in Writers, Busy(w)
  PROVE  /\ settled[w] \in Nat /\ accepted[w] \in Nat
         /\ executor[w] \notin {"ok", "failed"}
         /\ Finishing(w) => /\ Event(w) = Terminal /\ settled[w] = accepted[w]
                           /\ bgErr[w] = "none" /\ mode # "cases"
         /\ ~Finishing(w) => /\ Event(w) = settled[w] + 1 /\ settled[w] < accepted[w]
                            /\ executor[w] \notin Over
  BY DEF Busy, RecordingInv, RecordingTypeOK, WorkInv, Finishing, Event, Over, Idle

\* A call that is made again keeps the invariant.
LEMMA AgainInv ==
  ASSUME RecordingInv, NEW w \in Writers, call[w].at = "insert", Gains(w),
         NEW c \in CallType, c.at = "again", call' = [call EXCEPT ![w] = c],
         faults' \in 0..MaxFaults, UNCHANGED <<mode, executor, accepted, settled, bgErr>>,
         missed' \in [Writers -> SUBSET Nat], \A v \in Writers : missed[v] \subseteq missed'[v]
  PROVE  RecordingInv'
<1>1. /\ \A v \in Writers : v # w => call'[v] = call[v]
      /\ call'[w] = c
  BY DEF RecordingInv, RecordingTypeOK
<1>2. RowsInv' /\ Promised'
  BY <1>1, GainsInv
<1>3. RecordingTypeOK'
  BY GainedRows DEF RecordingInv, RecordingTypeOK, CallType
<1>4. WorkInv'
  <2>1. ASSUME NEW r \in rows'
        PROVE  /\ r.event = Terminal => executor[r.writer] \in Over
               /\ r.event <= accepted[r.writer] /\ r.event <= settled[r.writer] + 1
    <3>1. CASE r \in rows
      BY <3>1 DEF RecordingInv, WorkInv
    <3>2. CASE r.writer = w /\ r.event = Event(w)
      BY <3>2, AtHand DEF Busy, Over, Finishing, Terminal
    <3>. QED  BY <3>1, <3>2, GainedRows
  <2>2. ASSUME NEW v \in Writers
        PROVE  /\ executor[v] \in {"ok", "failed"} => call'[v] = Idle
               /\ call'[v].at = "idle" => call'[v] = Idle
               /\ call'[v].at # "idle" /\ ~Finishing(v) => settled[v] < accepted[v]
    <3>1. CASE v = w
      BY <1>1, <3>1, AtHand DEF Busy
    <3>2. CASE v # w
      BY <1>1, <3>2 DEF RecordingInv, WorkInv
    <3>. QED  BY <3>1, <3>2
  <2>3. \A v \in Writers : Recorded(v) \subseteq Recorded(v)'
    BY GainedRows DEF Recorded
  <2>. QED  BY <2>1, <2>2, <2>3 DEF RecordingInv, WorkInv, Finishing
<1>. QED  BY <1>2, <1>3, <1>4 DEF RecordingInv

\* A call that is over keeps the invariant.
LEMMA SettleInv ==
  ASSUME RecordingInv, NEW w \in Writers, Busy(w), Gains(w),
         NEW err \in {"none", "start", "event"}, Settle(w, err),
         err = "none" => Event(w) \in Recorded(w)' \/ (~Finishing(w) /\ Event(w) \in missed'[w]),
         faults' \in 0..MaxFaults, UNCHANGED <<mode, accepted>>,
         missed' \in [Writers -> SUBSET Nat], \A v \in Writers : missed[v] \subseteq missed'[v]
  PROVE  RecordingInv'
<1>1. /\ \A v \in Writers : v # w => /\ call'[v] = call[v] /\ executor'[v] = executor[v]
                                    /\ settled'[v] = settled[v] /\ bgErr'[v] = bgErr[v]
      /\ call'[w] = Idle
  BY DEF Settle, Go, RecordingInv, RecordingTypeOK
<1>2. RowsInv' /\ Promised'
  BY <1>1, GainsInv DEF Idle
<1>3. CASE Finishing(w)
  <2>1. UNCHANGED <<settled, bgErr>> /\ executor'[w] = IF err = "none" THEN "ok" ELSE "failed"
    BY <1>3 DEF Settle, Go, RecordingInv, RecordingTypeOK
  <2>2. RecordingTypeOK'
    <3>1. /\ executor' \in [Writers -> {"run", "enqueue", "flush", "finish", "ok", "failed"}]
          /\ call' \in [Writers -> CallType]
      BY <1>3 DEF RecordingInv, RecordingTypeOK, Settle, Go, Idle, CallType
    <3>. QED  BY <2>1, <3>1, GainedRows DEF RecordingInv, RecordingTypeOK, CallType
  <2>3. ASSUME NEW r \in rows'
        PROVE  /\ r.event = Terminal => executor'[r.writer] \in Over
               /\ r.event <= accepted[r.writer] /\ r.event <= settled[r.writer] + 1
    <3>0. r.writer \in Writers
      BY GainedRows
    <3>1. CASE r \in rows
      BY <1>1, <2>1, <3>0, <3>1 DEF RecordingInv, WorkInv, Over
    <3>2. CASE r.writer = w /\ r.event = Event(w)
      BY <1>3, <2>1, <3>2, AtHand DEF Over, Finishing, Terminal
    <3>. QED  BY <3>1, <3>2, GainedRows
  <2>4. \A v \in Writers : Recorded(v) \subseteq Recorded(v)'
    BY GainedRows DEF Recorded
  <2>5. ASSUME NEW v \in Writers
        PROVE  /\ call'[v].at = "idle" => call'[v] = Idle
               /\ executor'[v] = "enqueue" => accepted[v] < MaxEvents[v]
               /\ executor'[v] \in Over => settled[v] = accepted[v]
               /\ executor'[v] \in {"ok", "failed"} => call'[v] = Idle
               /\ executor'[v] = "finish" => bgErr[v] = "none" /\ mode # "cases"
               /\ executor'[v] = "ok" => bgErr[v] = "none" /\ (mode # "cases" => Terminal \in Recorded(v)')
               /\ call'[v].at # "idle" /\ executor'[v] # "finish" => settled[v] < accepted[v]
               /\ bgErr[v] = "none" => 1..settled[v] \subseteq Recorded(v)' \union missed'[v]
    <3>1. CASE v = w
      BY <1>1, <1>3, <2>1, <2>4, <3>1, AtHand DEF Idle, RecordingInv, WorkInv
    <3>2. CASE v # w
      BY <1>1, <2>4, <3>2 DEF RecordingInv, WorkInv, Finishing
    <3>. QED  BY <3>1, <3>2
  <2>6. WorkInv'
    BY <2>1, <2>3, <2>5 DEF WorkInv, Finishing
  <2>. QED  BY <1>2, <2>2, <2>6 DEF RecordingInv
<1>4. CASE ~Finishing(w)
  <2>1. /\ UNCHANGED executor /\ settled'[w] = settled[w] + 1
        /\ bgErr'[w] = "none" => bgErr[w] = "none" /\ err = "none"
    BY <1>4 DEF Settle, RecordingInv, RecordingTypeOK
  <2>2. RecordingTypeOK'
    <3>1. /\ bgErr' = [bgErr EXCEPT ![w] = IF @ = "none" THEN err ELSE @]
          /\ bgErr \in [Writers -> {"none", "start", "event"}]
      BY <1>4 DEF Settle, RecordingInv, RecordingTypeOK
    <3>2. bgErr' \in [Writers -> {"none", "start", "event"}]
      BY <3>1
    <3>3. settled' \in [Writers -> Nat] /\ settled'[w] <= accepted[w]
      BY <1>4, AtHand DEF Settle, RecordingInv, RecordingTypeOK
    <3>4. call' \in [Writers -> CallType]
      BY DEF Settle, Idle, CallType, RecordingInv, RecordingTypeOK
    <3>5. \A v \in Writers : /\ settled'[v] <= accepted[v]
                             /\ accepted[v] <= settled'[v] + QueueCap + 1
      BY <1>1, <2>1, <3>3, AtHand DEF RecordingInv, RecordingTypeOK
    <3>. QED  BY <2>1, <3>2, <3>3, <3>4, <3>5, GainedRows DEF RecordingInv, RecordingTypeOK, CallType
  <2>3. ASSUME NEW r \in rows'
        PROVE  /\ r.event = Terminal => executor[r.writer] \in Over
               /\ r.event <= accepted[r.writer] /\ r.event <= settled'[r.writer] + 1
    <3>0. /\ r.writer \in Writers /\ r.event \in Nat
          /\ settled[r.writer] \in Nat
      BY GainedRows DEF RecordingInv, RecordingTypeOK
    <3>1. CASE r \in rows
      BY <1>1, <2>1, <3>0, <3>1 DEF RecordingInv, WorkInv
    <3>2. CASE r.writer = w /\ r.event = Event(w)
      BY <1>4, <2>1, <3>2, AtHand DEF Terminal
    <3>. QED  BY <3>1, <3>2, GainedRows
  <2>4. \A v \in Writers : Recorded(v) \subseteq Recorded(v)'
    BY GainedRows DEF Recorded
  <2>5. ASSUME NEW v \in Writers
        PROVE  /\ call'[v].at = "idle" => call'[v] = Idle
               /\ executor[v] \in Over => settled'[v] = accepted[v]
               /\ executor[v] \in {"ok", "failed"} => call'[v] = Idle
               /\ executor[v] = "finish" => bgErr'[v] = "none" /\ mode # "cases"
               /\ executor[v] = "ok" => bgErr'[v] = "none" /\ (mode # "cases" => Terminal \in Recorded(v)')
               /\ call'[v].at # "idle" /\ executor[v] # "finish" => settled'[v] < accepted[v]
               /\ bgErr'[v] = "none" => 1..settled'[v] \subseteq Recorded(v)' \union missed'[v]
    <3>1. CASE v = w
      <4>1. executor[w] \notin Over /\ settled[w] \in Nat
        BY <1>4, AtHand
      <4>2. bgErr'[w] = "none" => 1..settled'[w] \subseteq Recorded(w)' \union missed'[w]
        <5>1. bgErr'[w] = "none" => /\ 1..settled[w] \subseteq Recorded(w)' \union missed'[w]
                                  /\ settled[w] + 1 \in Recorded(w)' \union missed'[w]
          BY <1>4, <2>1, <2>4, AtHand DEF RecordingInv, WorkInv
        <5>2. 1..(settled[w] + 1) = (1..settled[w]) \union {settled[w] + 1}
          BY <4>1
        <5>. QED  BY <2>1, <5>1, <5>2
      <4>. QED  BY <1>1, <3>1, <4>1, <4>2 DEF Idle, Over
    <3>2. CASE v # w
      BY <1>1, <2>1, <2>4, <3>2 DEF RecordingInv, WorkInv, Finishing
    <3>. QED  BY <3>1, <3>2
  <2>6. WorkInv'
    BY <2>1, <2>3, <2>5 DEF WorkInv, Finishing, RecordingInv
  <2>. QED  BY <1>2, <2>2, <2>6 DEF RecordingInv
<1>. QED  BY <1>3, <1>4

\* A call that has failed keeps the invariant, repeated or given up.
LEMMA FailInv ==
  ASSUME RecordingInv, NEW w \in Writers, call[w].at = "insert", Gains(w), Fail(w),
         faults' \in 0..MaxFaults, UNCHANGED <<mode, accepted>>
  PROVE  RecordingInv'
<1>0. Busy(w) /\ missed \in [Writers -> SUBSET Nat] /\ Event(w) \in Nat
  BY DEF Busy, RecordingInv, RecordingTypeOK, Event, Terminal
<1>1. CASE ~Finishing(w) /\ call[w].tries < MaxRetries /\ Repeat(w)
  <2>. DEFINE c == [at |-> "again", seq |-> 0, tries |-> call[w].tries + 1, conflicts |-> 0]
  <2>1. c \in CallType /\ c.at = "again"
    <3>1. call[w].tries + 1 \in 0..MaxRetries /\ 0 \in 0..MaxConflicts
      BY <1>1 DEF RecordingInv, RecordingTypeOK
    <3>. QED  BY <3>1 DEF CallType
  <2>2. missed' \in [Writers -> SUBSET Nat] /\ \A v \in Writers : missed[v] \subseteq missed'[v]
    BY <1>0, <1>1 DEF Repeat, Miss
  <2>3. CASE Again(w, call[w].tries + 1, 0)
    <3>1. call' = [call EXCEPT ![w] = c] /\ UNCHANGED <<executor, settled, bgErr>>
      BY <2>3 DEF Again
    <3>. HIDE DEF c
    <3>. QED  BY <2>1, <2>2, <3>1, AgainInv
  <2>4. CASE HasOutput(w) /\ Settle(w, "none")
    <3>1. Event(w) \in missed'[w]
      BY <1>0, <1>1, <2>4 DEF Repeat, Miss
    <3>. QED  BY <1>0, <1>1, <2>2, <2>4, <3>1, SettleInv
  <2>. QED  BY <1>1, <2>3, <2>4 DEF Repeat
<1>2. ASSUME NEW err \in {"start", "event"}, Settle(w, err), UNCHANGED missed
      PROVE  RecordingInv'
  BY <1>0, <1>2, SettleInv
<1>. QED  BY <1>1, <1>2 DEF Fail, FailWhen

\* Every step of a writer keeps the invariant of the recording.
LEMMA RecorderInv ==
  ASSUME RecordingInv, NEW w \in Writers, Insert(w) \/ InsertFails(w)
  PROVE  RecordingInv'
<1>0. faults \in 0..MaxFaults /\ call[w] \in CallType /\ missed \in [Writers -> SUBSET Nat]
  BY DEF RecordingInv, RecordingTypeOK, CallType
<1>1. CASE Number(w)
  BY <1>1, NumberInv
<1>2. CASE Commit(w)
  <2>1. Gains(w) /\ Event(w) \in Recorded(w)'
    <3>1. Gains(w) /\ AddRow(w)
      BY <1>2 DEF Commit, Gains
    <3>2. \E r \in rows' : r.writer = w /\ r.event = Event(w)
      <4>. DEFINE r == [agent |-> AgentOf(w), seq |-> call[w].seq, writer |-> w, event |-> Event(w)]
      <4>1. r \in rows'
        BY <3>1 DEF AddRow
      <4>2. r.writer = w /\ r.event = Event(w)
        OBVIOUS
      <4>. QED  BY <4>1, <4>2
    <3>3. Recorded(w)' = {r.event : r \in {s \in rows' : s.writer = w}}
      BY DEF Recorded
    <3>. QED  BY <3>1, <3>2, <3>3
  <2>2. Settle(w, "none") /\ UNCHANGED <<mode, accepted, missed, faults>> /\ Busy(w)
    BY <1>2 DEF Commit, Busy
  <2>. QED  BY <1>0, <2>1, <2>2, SettleInv
<1>3. CASE Conflict(w)
  <2>1. Gains(w) /\ call[w].at = "insert" /\ UNCHANGED <<mode, accepted>> /\ faults' = faults
    BY <1>3 DEF Conflict, Gains
  <2>2. CASE call[w].conflicts + 1 < MaxConflicts
    <3>. DEFINE c == [at |-> "again", seq |-> 0, tries |-> call[w].tries,
                      conflicts |-> call[w].conflicts + 1]
    <3>1. c \in CallType /\ c.at = "again"
      <4>1. call[w].conflicts + 1 \in 0..MaxConflicts /\ call[w].tries \in 0..MaxRetries
        BY <1>0, <2>2 DEF CallType
      <4>. QED  BY <4>1 DEF CallType
    <3>2. call' = [call EXCEPT ![w] = c] /\ UNCHANGED <<executor, settled, bgErr, missed>>
      BY <1>3, <2>2 DEF Conflict, Again
    <3>. HIDE DEF c
    <3>. QED  BY <1>0, <2>1, <3>1, <3>2, AgainInv
  <2>3. CASE Fail(w)
    BY <1>0, <2>1, <2>3, FailInv
  <2>. QED  BY <1>3, <2>2, <2>3 DEF Conflict
<1>4. CASE InsertFails(w)
  <2>1. Gains(w) /\ faults' \in 0..MaxFaults
    BY <1>0, <1>4 DEF InsertFails, Gains
  <2>. QED  BY <1>4, <2>1, FailInv DEF InsertFails
<1>5. CASE Refuse(w)
  <2>1. Busy(w) /\ Gains(w)
    BY <1>5 DEF Refuse, Busy, Gains
  <2>. QED  BY <1>0, <1>5, <2>1, SettleInv DEF Refuse
<1>. QED  BY <1>1, <1>2, <1>3, <1>4, <1>5 DEF Insert

\* The stream leaves the recording alone.
LEMMA KeepRecording ==
  ASSUME RecordingInv, UNCHANGED recordingVars
  PROVE  RecordingInv'
<1>1. RowsInv' /\ Promised'
  BY KeepRows DEF recordingVars
<1>2. RecordingTypeOK' /\ WorkInv'
  BY DEF RecordingInv, RecordingTypeOK, WorkInv, recordingVars, Finishing, Recorded
<1>. QED  BY <1>1, <1>2 DEF RecordingInv

\* Every step of the system is one of a writer or leaves the writers alone.
LEMMA StepRecording == RecordingInv /\ [Next]_vars => RecordingInv'
<1>1. ASSUME RecordingInv, NEW w \in Writers, Record(w) PROVE RecordingInv'
  BY <1>1, ExecutorInv, RecorderInv DEF Record, Writing
<1>2. ASSUME [Next]_vars, ~\E w \in Writers : Record(w) PROVE UNCHANGED recordingVars
  BY <1>2 DEF Next, vars, EndRun, Connect, Poll, Look, Load, PollFails, Live, Disconnect,
              recordingVars
<1>. QED  BY <1>1, <1>2, KeepRecording

-----------------------------------------------------------------------------
(* The stream *)

StreamTypeOK ==
  /\ ended \in BOOLEAN /\ final \in BOOLEAN
  /\ owed \subseteq Frames(rows)
  /\ conn \in {"off", "load", "open", "reload", "closed"}
  /\ delivered \subseteq Frames(rows)

\* A handler that has seen the end, or has closed, comes after the end.
StreamInv ==
  /\ StreamTypeOK
  /\ final \/ conn = "closed" => ended
  /\ StreamIsComplete

\* Nothing leaves the table.
LEMMA RowsGrow == [Next]_vars => rows \subseteq rows'
<1>1. ASSUME NEW w \in Writers, Record(w) PROVE rows \subseteq rows'
  BY <1>1 DEF Record, Writing, Return, Insert, Emit, Enqueue, EndExecution, Flushed, Unblock,
              Number, NumberWhen, Refuse, Commit, Conflict, InsertFails, AddRow
<1>2. ASSUME [Next]_vars, ~\E w \in Writers : Record(w) PROVE rows \subseteq rows'
  BY <1>2 DEF Next, vars, EndRun, Connect, Poll, Look, Load, PollFails, Live, Disconnect,
              recordingVars
<1>. QED  BY <1>1, <1>2

\* Every step keeps the invariant of the stream.
LEMMA StepStream == StreamInv /\ [Next]_vars => StreamInv'
<1>. SUFFICES ASSUME StreamInv, [Next]_vars PROVE StreamInv'
  OBVIOUS
<1>1. Frames(rows) \subseteq Frames(rows)'
  BY RowsGrow DEF Frames
<1>2. CASE UNCHANGED vars \/ \E w \in Writers : Record(w)
  BY <1>1, <1>2 DEF vars, streamVars, Record, StreamInv, StreamTypeOK, StreamIsComplete
<1>3. CASE EndRun \/ Connect \/ Poll \/ PollFails \/ Disconnect
  <2>1. UNCHANGED rows
    BY <1>3 DEF EndRun, Connect, Poll, Look, PollFails, Disconnect, recordingVars
  <2>. USE DEF StreamInv, StreamTypeOK, StreamIsComplete
  <2>2. CASE EndRun
    BY <1>1, <2>2 DEF EndRun
  <2>3. CASE Connect \/ Poll
    BY <1>1, <2>3 DEF Connect, Poll, Look
  <2>4. CASE PollFails \/ Disconnect
    BY <1>1, <2>4 DEF PollFails, Disconnect
  <2>. QED  BY <1>3, <2>2, <2>3, <2>4
<1>4. CASE Load
  BY <1>1, <1>4 DEF Load, StreamInv, StreamTypeOK, StreamIsComplete
<1>5. CASE Live
  BY <1>1, <1>5 DEF Live, StreamInv, StreamTypeOK, StreamIsComplete
<1>. QED  BY <1>2, <1>3, <1>4, <1>5 DEF Next

EventsInv == RecordingInv /\ StreamInv

\* The inductive invariant of writers, table and stream.
THEOREM EventsInvariant == Spec => []EventsInv
<1>1. Init => EventsInv
  BY RecordingInitInv DEF Init, EventsInv, StreamInv, StreamTypeOK, StreamIsComplete, Frames
<1>2. EventsInv /\ [Next]_vars => EventsInv'
  BY StepRecording, StepStream DEF EventsInv
<1>. QED  BY <1>1, <1>2, PTL DEF Spec

-----------------------------------------------------------------------------
(* Results *)

\* The state of writers, table and stream always has its type.
THEOREM EventTypes == Spec => []EventsTypeOK
<1>1. EventsInv => EventsTypeOK
  BY DEF EventsInv, EventsTypeOK, RecordingInv, StreamInv, StreamTypeOK
<1>. QED  BY <1>1, EventsInvariant, PTL

\* However many writers append, a run agent's events are numbered without gap or
\* repetition and keep the order of the calls (RecordRunEvent, BufferedObserver).
THEOREM EventsAreALog == Spec => []LogInOrder
<1>1. EventsInv => LogInOrder
  BY DEF EventsInv, LogInOrder, RecordingInv, RowsInv
<1>. QED  BY <1>1, EventsInvariant, PTL

\* A terminal call that succeeds has all events of its execution in the table, except
\* for outputs of which an attempt has failed (OnRunComplete after flush).
THEOREM SuccessIsComplete == Spec => []SuccessMeansRecorded
<1>1. EventsInv => SuccessMeansRecorded
  <2>. SUFFICES ASSUME EventsInv, NEW w \in Writers, executor[w] = "ok"
                PROVE  EventsOf(w) \subseteq Recorded(w) \union missed[w]
    BY DEF SuccessMeansRecorded
  <2>1. /\ settled[w] = accepted[w] /\ bgErr[w] = "none"
        /\ mode # "cases" => Terminal \in Recorded(w)
    BY DEF EventsInv, RecordingInv, WorkInv, Over
  <2>2. 1..settled[w] \subseteq Recorded(w) \union missed[w]
    BY <2>1 DEF EventsInv, RecordingInv, WorkInv
  <2>. QED  BY <2>1, <2>2 DEF EventsOf
<1>. QED  BY <1>1, EventsInvariant, PTL

\* A stream that closes has sent what was recorded before the run became terminal:
\* the handler reads the run before its events (ListRunEventStream).
THEOREM StreamsAreComplete == Spec => []StreamIsComplete
<1>1. EventsInv => StreamIsComplete
  BY DEF EventsInv, StreamInv
<1>. QED  BY <1>1, EventsInvariant, PTL

-----------------------------------------------------------------------------
(* The log only grows at its end, and no writer is stuck or tries for ever *)

\* A row that appears in the table has the number behind those of its run agent, and
\* comes after every event its writer was called for earlier; rows never change.
LogOnlyGrows ==
  [][\/ UNCHANGED rows
     \/ \E r : /\ rows' = rows \union {r} /\ r \notin rows
               /\ r.seq = Cardinality(Mine(r.agent)) + 1
               /\ \A s \in rows : s.writer = r.writer => Precedes(s.event, r.event)]_vars

\* No call has used up its repetitions after a unique_violation.
Counted == \A w \in Writers : call[w].conflicts < MaxConflicts

\* The INSERTs one event may take, and those that are left after so many calls and
\* conflicts.
Attempts == (MaxRetries + 1) * MaxConflicts
AttemptsLeft(tries, conflicts) == (MaxRetries - tries) * MaxConflicts + (MaxConflicts - conflicts)

CallLeft(w) ==
  CASE call[w].at = "idle"   -> 2 * Attempts
    [] call[w].at = "again"  -> 2 * AttemptsLeft(call[w].tries, call[w].conflicts)
    [] call[w].at = "insert" -> 2 * AttemptsLeft(call[w].tries, call[w].conflicts) - 1

ExecutorLeft(w) ==
  2 * (MaxEvents[w] - accepted[w]) +
    (CASE executor[w] = "run" -> 4 [] executor[w] = "enqueue" -> 3 [] executor[w] = "flush" -> 2
       [] executor[w] = "finish" -> 1 [] executor[w] \in {"ok", "failed"} -> 0)

\* Events the recorder is not done with, the terminal one included.
EventsLeft(w) ==
  MaxEvents[w] - settled[w] + (IF executor[w] \in {"ok", "failed"} THEN 0 ELSE 1)

WriterWork(w) == (2 * Attempts + 1) * EventsLeft(w) + CallLeft(w) + ExecutorLeft(w)

WriterMoves(w) ==
  executor'[w] # executor[w] \/ accepted'[w] # accepted[w] \/ settled'[w] # settled[w]
    \/ call'[w] # call[w]

\* Every step of an executor, of its flusher and of its INSERTs brings the writer closer
\* to its end, whatever faults and conflicts there are: retries are not for ever.
WritersWind ==
  /\ [](\A w \in Writers : WriterWork(w) \in Nat)
  /\ [][\A w \in Writers : WriterMoves(w) => WriterWork(w)' < WriterWork(w)]_vars

\* The recorder of a writer has something to do.
RecorderCanMove(w) ==
  \/ call[w].at = "idle" /\ (settled[w] < accepted[w] \/ Finishing(w))
  \/ call[w].at \in {"again", "insert"}

\* A writer that has not returned can go on, or what it waits for can: room in the
\* queue, the end of flush or its own INSERT.
WritersNeverStuck ==
  \A w \in Writers :
    \/ executor[w] \in {"ok", "failed", "run"}
    \/ executor[w] = "enqueue" /\ accepted[w] - settled[w] < QueueCap
    \/ executor[w] = "flush" /\ Drained(w)
    \/ RecorderCanMove(w)

\* What is added to the table is the next row of its run agent.
LEMMA GainsGrow ==
  ASSUME RecordingInv, RecordingInv', NEW w \in Writers, Gains(w), UNCHANGED mode
  PROVE  \/ UNCHANGED rows
         \/ \E r : /\ rows' = rows \union {r} /\ r \notin rows
                   /\ r.seq = Cardinality(Mine(r.agent)) + 1
                   /\ \A s \in rows : s.writer = r.writer => Precedes(s.event, r.event)
<1>. SUFFICES ASSUME call[w].at = "insert", AddRow(w), call[w].seq \notin Numbers(AgentOf(w))
              PROVE  \E r : /\ rows' = rows \union {r} /\ r \notin rows
                            /\ r.seq = Cardinality(Mine(r.agent)) + 1
                            /\ \A s \in rows : s.writer = r.writer => Precedes(s.event, r.event)
  BY DEF Gains
<1>1. PICK r : /\ rows' = rows \union {r}
               /\ r = [agent |-> AgentOf(w), seq |-> call[w].seq, writer |-> w, event |-> Event(w)]
  BY DEF AddRow
<1>2. PICK n \in Nat : n = Cardinality(Mine(AgentOf(w))) /\ Numbers(AgentOf(w)) = 1..n
  BY MineCounts, AgentType DEF RecordingInv
<1>3. r.seq = n + 1 /\ r.agent = AgentOf(w) /\ r.writer = w
  BY <1>1, <1>2 DEF RecordingInv, Promised
<1>4. r \notin rows
  BY <1>2, <1>3 DEF Numbers
<1>5. ASSUME NEW s \in rows, s.writer = r.writer PROVE Precedes(s.event, r.event)
  <2>1. s.seq \in 1..n
    BY <1>2, <1>3, <1>5 DEF RecordingInv, RowsInv, Numbers
  <2>2. s \in rows' /\ r \in rows' /\ s.seq < r.seq
    BY <1>1, <1>2, <1>3, <2>1
  <2>. QED  BY <1>5, <2>2 DEF RecordingInv, RowsInv, WriteOrder
<1>. QED  BY <1>1, <1>2, <1>3, <1>4, <1>5

\* run_events is append-only, and each run agent's part of it grows at its end
\* (RecordRunEvent: MAX(sequence_number) + 1 under a unique index).
THEOREM TheLogIsAppendOnly == Spec => LogOnlyGrows
<1>1. ASSUME EventsInv, EventsInv', [Next]_vars
      PROVE  \/ UNCHANGED rows
             \/ \E r : /\ rows' = rows \union {r} /\ r \notin rows
                       /\ r.seq = Cardinality(Mine(r.agent)) + 1
                       /\ \A s \in rows : s.writer = r.writer => Precedes(s.event, r.event)
  <2>1. ASSUME NEW w \in Writers, Commit(w) \/ InsertFails(w)
        PROVE  Gains(w) /\ UNCHANGED mode
    BY <2>1 DEF Commit, InsertFails, Gains
  <2>2. ASSUME NEW w \in Writers, Emit(w) \/ Return(w) \/ Number(w) \/ Refuse(w) \/ Conflict(w)
        PROVE  UNCHANGED rows
    BY <2>2 DEF Return, Emit, Enqueue, EndExecution, Flushed, Unblock, Number, NumberWhen, Refuse,
                  Conflict
  <2>3. ASSUME ~\E w \in Writers : Record(w) PROVE UNCHANGED rows
    BY <1>1, <2>3 DEF Next, vars, EndRun, Connect, Poll, Look, Load, PollFails, Live, Disconnect,
                      recordingVars
  <2>. QED  BY <1>1, <2>1, <2>2, <2>3, GainsGrow DEF Record, Writing, Insert, EventsInv
<1>. QED  BY <1>1, EventsInvariant, PTL DEF Spec, LogOnlyGrows

\* How many INSERTs are left: at least one, fewer after a conflict, and fewer again when
\* executeWithRetry starts over.
LEMMA AttemptsFall ==
  ASSUME NEW t \in 0..MaxRetries, NEW c \in 0..(MaxConflicts - 1)
  PROVE  /\ AttemptsLeft(t, c) \in 1..Attempts
         /\ AttemptsLeft(t, c + 1) = AttemptsLeft(t, c) - 1
         /\ AttemptsLeft(t + 1, 0) < AttemptsLeft(t, c)
<1>1. /\ MaxRetries - t \in Nat /\ MaxConflicts \in Nat /\ t \in Nat /\ c \in Nat
      /\ MaxConflicts - c \in Nat \ {0}
  OBVIOUS
<1>2. PICK m \in Nat, n \in Nat : m = (MaxRetries - t) * MaxConflicts /\ n = t * MaxConflicts
  BY <1>1
<1>3. Attempts = m + n + MaxConflicts
  BY <1>1, <1>2 DEF Attempts
<1>4. (MaxRetries - (t + 1)) * MaxConflicts = m - MaxConflicts
  BY <1>1, <1>2
<1>. QED  BY <1>1, <1>2, <1>3, <1>4 DEF AttemptsLeft

\* A call that is not idle has INSERTs left, and an idle one has them all.
LEMMA CallLeftType ==
  ASSUME RecordingInv, Counted, NEW w \in Writers
  PROVE  /\ CallLeft(w) \in Nat /\ Attempts \in Nat
         /\ CallLeft(w) <= 2 * Attempts
         /\ call[w].at # "idle" => AttemptsLeft(call[w].tries, call[w].conflicts) \in 1..Attempts
<1>1. /\ call[w].at \in {"idle", "insert", "again"} /\ call[w].tries \in 0..MaxRetries
      /\ call[w].conflicts \in 0..(MaxConflicts - 1)
  BY DEF RecordingInv, RecordingTypeOK, Counted
<1>2. PICK n \in 1..Attempts : n = AttemptsLeft(call[w].tries, call[w].conflicts)
  BY <1>1, AttemptsFall
<1>3. Attempts \in Nat
  BY DEF Attempts
<1>. QED  BY <1>1, <1>2, <1>3 DEF CallLeft

\* The events and the steps of the executor that are left can be counted.
LEMMA OthersLeftType ==
  ASSUME RecordingInv, NEW w \in Writers
  PROVE  EventsLeft(w) \in Nat /\ ExecutorLeft(w) \in Nat
<1>1. /\ MaxEvents[w] \in Nat /\ accepted[w] \in Nat /\ settled[w] \in Nat
      /\ settled[w] <= accepted[w] /\ accepted[w] <= MaxEvents[w]
      /\ executor[w] \in {"run", "enqueue", "flush", "finish", "ok", "failed"}
  BY DEF RecordingInv, RecordingTypeOK
<1>2. MaxEvents[w] - accepted[w] \in Nat /\ MaxEvents[w] - settled[w] \in Nat
  BY <1>1
<1>. QED  BY <1>1, <1>2 DEF EventsLeft, ExecutorLeft

\* A weighted sum falls when its heaviest part does, or the others do.
LEMMA SumFalls ==
  ASSUME NEW m \in Nat, NEW e \in Nat, NEW c \in Nat, NEW x \in Nat,
         NEW f \in Nat, NEW d \in Nat, NEW y \in Nat,
         \/ f = e /\ d + y < c + x
         \/ f = e - 1 /\ d <= 2 * m /\ y <= x
  PROVE  (2 * m + 1) * f + d + y < (2 * m + 1) * e + c + x
<1>1. PICK k \in Nat : k = (2 * m + 1) * e
  OBVIOUS
<1>2. CASE f = e - 1
  <2>1. (2 * m + 1) * f = k - (2 * m + 1)
    BY <1>1, <1>2
  <2>. QED  BY <1>1, <1>2, <2>1
<1>. QED  BY <1>1, <1>2

\* The same for the work of a writer.
LEMMA WorkFalls ==
  ASSUME RecordingInv, RecordingInv', Counted, Counted', NEW w \in Writers,
         \/ /\ EventsLeft(w)' = EventsLeft(w)
            /\ CallLeft(w)' + ExecutorLeft(w)' < CallLeft(w) + ExecutorLeft(w)
         \/ /\ EventsLeft(w)' = EventsLeft(w) - 1
            /\ ExecutorLeft(w)' <= ExecutorLeft(w)
  PROVE  WriterWork(w)' < WriterWork(w)
<1>1. PICK m \in Nat, e \in Nat, c \in Nat, x \in Nat :
        m = Attempts /\ e = EventsLeft(w) /\ c = CallLeft(w) /\ x = ExecutorLeft(w)
  BY CallLeftType, OthersLeftType
<1>2. /\ EventsLeft(w)' \in Nat /\ ExecutorLeft(w)' \in Nat
      /\ CallLeft(w)' \in Nat /\ CallLeft(w)' <= 2 * Attempts
  <2>1. EventsLeft(w)' \in Nat /\ ExecutorLeft(w)' \in Nat
    <3>1. /\ MaxEvents[w] \in Nat /\ accepted'[w] \in Nat /\ settled'[w] \in Nat
          /\ settled'[w] <= accepted'[w] /\ accepted'[w] <= MaxEvents[w]
          /\ executor'[w] \in {"run", "enqueue", "flush", "finish", "ok", "failed"}
      BY DEF RecordingInv, RecordingTypeOK
    <3>2. MaxEvents[w] - accepted'[w] \in Nat /\ MaxEvents[w] - settled'[w] \in Nat
      BY <3>1
    <3>. QED  BY <3>1, <3>2 DEF EventsLeft, ExecutorLeft
  <2>2. CallLeft(w)' \in Nat /\ CallLeft(w)' <= 2 * Attempts
    <3>1. /\ call'[w].at \in {"idle", "insert", "again"} /\ call'[w].tries \in 0..MaxRetries
          /\ call'[w].conflicts \in 0..(MaxConflicts - 1)
      BY DEF RecordingInv, RecordingTypeOK, Counted
    <3>2. PICK n \in 1..Attempts : n = AttemptsLeft(call'[w].tries, call'[w].conflicts)
      BY <3>1, AttemptsFall
    <3>. QED  BY <1>1, <3>1, <3>2 DEF CallLeft
  <2>. QED  BY <2>1, <2>2
<1>3. PICK f \in Nat, d \in Nat, y \in Nat :
        f = EventsLeft(w)' /\ d = CallLeft(w)' /\ y = ExecutorLeft(w)'
  BY <1>2
<1>4. (f = e /\ d + y < c + x) \/ (f = e - 1 /\ d <= 2 * m /\ y <= x)
  BY <1>1, <1>2, <1>3
<1>5. (2 * m + 1) * f + d + y < (2 * m + 1) * e + c + x
  BY <1>4, SumFalls
<1>. QED  BY <1>1, <1>3, <1>5 DEF WriterWork, Attempts

\* A writer's step leaves the other writers where they are.
LEMMA OthersRest ==
  ASSUME RecordingInv, NEW w \in Writers, NEW v \in Writers, v # w, Writing(w)
  PROVE  ~WriterMoves(v) /\ call'[v] = call[v]
<1>. USE DEF RecordingInv, RecordingTypeOK, Go
<1>1. CASE Emit(w) \/ Return(w)
  BY <1>1 DEF Emit, Return, Enqueue, EndExecution, Flushed, Unblock, WriterMoves
<1>2. CASE Number(w) \/ Refuse(w)
  BY <1>2 DEF Number, NumberWhen, Refuse, Settle, WriterMoves
<1>3. CASE Commit(w)
  BY <1>3 DEF Commit, Settle, WriterMoves
<1>4. CASE Conflict(w)
  BY <1>4 DEF Conflict, Fail, FailWhen, Repeat, Again, Settle, WriterMoves
<1>5. CASE InsertFails(w)
  BY <1>5 DEF InsertFails, Fail, FailWhen, Repeat, Again, Settle, WriterMoves
<1>. QED  BY <1>1, <1>2, <1>3, <1>4, <1>5 DEF Writing, Insert

\* The steps of an executor bring it on.
LEMMA ExecutorFalls ==
  ASSUME RecordingInv, RecordingInv', Counted, NEW w \in Writers, Emit(w) \/ Return(w)
  PROVE  Counted' /\ WriterWork(w)' < WriterWork(w)
<1>1. UNCHANGED <<call, settled>>
  BY DEF Emit, Return, Enqueue, EndExecution, Flushed, Unblock
<1>2. Counted' /\ CallLeft(w)' = CallLeft(w) /\ CallLeft(w) \in Nat
  BY <1>1, CallLeftType DEF Counted, CallLeft
<1>3. EventsLeft(w) \in Nat /\ ExecutorLeft(w) \in Nat /\ settled[w] \in Nat /\ MaxEvents[w] \in Nat
  BY OthersLeftType DEF RecordingInv, RecordingTypeOK
<1>4. ASSUME NEW at \in {"run", "enqueue", "flush", "finish", "ok", "failed"}, executor[w] = at,
             NEW to \in {"run", "enqueue", "flush", "finish", "ok", "failed"}, Go(w, to),
             \/ at = "run" /\ to \in {"enqueue", "flush"} /\ accepted' = accepted
             \/ at = "enqueue" /\ to = "run" /\ accepted' = [accepted EXCEPT ![w] = @ + 1]
             \/ at = "flush" /\ to \in {"finish", "ok", "failed"} /\ accepted' = accepted
      PROVE  WriterWork(w)' < WriterWork(w)
  <2>1. executor'[w] = to /\ accepted[w] \in Nat /\ accepted'[w] \in Nat
        /\ accepted'[w] = IF at = "enqueue" THEN accepted[w] + 1 ELSE accepted[w]
    BY <1>4 DEF Go, RecordingInv, RecordingTypeOK
  <2>2. PICK n \in Int, l \in Int : /\ n = 2 * (MaxEvents[w] - accepted[w])
                                     /\ l = 2 * (MaxEvents[w] - accepted'[w])
                                     /\ l = IF at = "enqueue" THEN n - 2 ELSE n
    BY <1>3, <2>1
  <2>3. ExecutorLeft(w)' < ExecutorLeft(w)
    <3>1. CASE at = "run"
      <4>1. ExecutorLeft(w) = n + 4 /\ ExecutorLeft(w)' \in {n + 3, n + 2}
        BY <1>4, <2>1, <2>2, <3>1 DEF ExecutorLeft
      <4>. QED  BY <4>1
    <3>2. CASE at = "enqueue"
      <4>1. ExecutorLeft(w) = n + 3 /\ ExecutorLeft(w)' = n + 2
        BY <1>3, <1>4, <2>1, <2>2, <3>2 DEF ExecutorLeft
      <4>. QED  BY <4>1
    <3>3. CASE at = "flush"
      <4>1. ExecutorLeft(w) = n + 2 /\ ExecutorLeft(w)' \in {n + 1, n + 0}
        BY <1>4, <2>1, <2>2, <3>3 DEF ExecutorLeft
      <4>. QED  BY <4>1
    <3>. QED  BY <1>4, <3>1, <3>2, <3>3
  <2>4. EventsLeft(w)' = EventsLeft(w) \/ EventsLeft(w)' = EventsLeft(w) - 1
    BY <1>1, <1>3, <1>4, <2>1 DEF EventsLeft
  <2>5. ExecutorLeft(w)' \in Int
    BY <1>3, <1>4, <2>1 DEF ExecutorLeft
  <2>6. CallLeft(w)' + ExecutorLeft(w)' < CallLeft(w) + ExecutorLeft(w)
    <3>1. PICK c \in Nat, x \in Nat, y \in Int :
            c = CallLeft(w) /\ x = ExecutorLeft(w) /\ y = ExecutorLeft(w)'
      BY <1>2, <1>3, <2>5
    <3>. QED  BY <1>2, <2>3, <3>1
  <2>7. ExecutorLeft(w)' <= ExecutorLeft(w)
    BY <1>3, <2>3, <2>5
  <2>. QED  BY <1>2, <2>4, <2>6, <2>7, WorkFalls
<1>5. CASE Emit(w)
  BY <1>2, <1>4, <1>5 DEF Emit
<1>6. CASE Enqueue(w)
  BY <1>2, <1>4, <1>6 DEF Enqueue
<1>7. CASE EndExecution(w)
  BY <1>2, <1>4, <1>7 DEF EndExecution
<1>8. CASE Flushed(w)
  BY <1>2, <1>4, <1>8 DEF Flushed, Unblock, AfterFlush
<1>. QED  BY <1>5, <1>6, <1>7, <1>8 DEF Return

\* So do taking a number, another attempt and the end of an event.
LEMMA RecorderFalls ==
  ASSUME RecordingInv, RecordingInv', Counted, NEW w \in Writers, Insert(w) \/ InsertFails(w)
  PROVE  Counted' /\ WriterWork(w)' < WriterWork(w)
<1>0. /\ call \in [Writers -> CallType] /\ executor \in [Writers -> {"run", "enqueue", "flush", "finish", "ok", "failed"}]
      /\ call[w].tries \in 0..MaxRetries /\ call[w].conflicts \in 0..(MaxConflicts - 1)
      /\ settled \in [Writers -> Nat] /\ MaxEvents[w] \in Nat
      /\ CallLeft(w) \in Nat /\ ExecutorLeft(w) \in Nat /\ EventsLeft(w) \in Nat
  BY CallLeftType, OthersLeftType DEF RecordingInv, RecordingTypeOK, CallType, Counted
<1>1. UNCHANGED accepted
  BY DEF Insert, Number, NumberWhen, Refuse, Commit, Conflict, InsertFails
<1>2. ASSUME executor' = executor, settled' = settled,
             NEW n \in CallType, n.conflicts \in 0..(MaxConflicts - 1),
             call' = [call EXCEPT ![w] = n],
             CallLeft(w)' < CallLeft(w), CallLeft(w)' \in Int
      PROVE  Counted' /\ WriterWork(w)' < WriterWork(w)
  <2>1. Counted'
    BY <1>0, <1>2 DEF Counted
  <2>2. EventsLeft(w)' = EventsLeft(w) /\ ExecutorLeft(w)' = ExecutorLeft(w)
    BY <1>1, <1>2 DEF EventsLeft, ExecutorLeft
  <2>3. CallLeft(w)' + ExecutorLeft(w)' < CallLeft(w) + ExecutorLeft(w)
    <3>1. PICK c \in Nat, d \in Int, x \in Nat :
            c = CallLeft(w) /\ d = CallLeft(w)' /\ x = ExecutorLeft(w)
      BY <1>0, <1>2
    <3>. QED  BY <1>2, <2>2, <3>1
  <2>. QED  BY <2>1, <2>2, <2>3, WorkFalls
<1>3. CASE Number(w)
  <2>. DEFINE n == [call[w] EXCEPT !.at = "insert", !.seq = NextNumber(AgentOf(w))]
  <2>1. call' = [call EXCEPT ![w] = n] /\ call[w].at \in {"idle", "again"}
        /\ UNCHANGED <<executor, settled>>
    BY <1>3 DEF Number, NumberWhen
  <2>2. NextNumber(AgentOf(w)) \in Nat
    BY NextIsFree, MineCounts, AgentType DEF RecordingInv
  <2>3. n \in CallType /\ n.at = "insert" /\ n.tries = call[w].tries
        /\ n.conflicts = call[w].conflicts
    <3>1. call[w] \in CallType
      BY <1>0
    <3>. QED  BY <2>2, <3>1 DEF CallType
  <2>4. call'[w] = n
    BY <1>0, <2>1
  <2>. HIDE DEF n
  <2>5. call[w].at = "idle" => call[w].tries = 0 /\ call[w].conflicts = 0
    BY DEF RecordingInv, WorkInv, Idle
  <2>6. PICK k \in 1..Attempts : k = AttemptsLeft(call[w].tries, call[w].conflicts)
    BY <1>0, AttemptsFall
  <2>7. CallLeft(w)' = 2 * k - 1
    BY <2>3, <2>4, <2>6 DEF CallLeft
  <2>8. CallLeft(w) >= 2 * k /\ CallLeft(w) \in Nat
    BY <1>0, <2>1, <2>6, CallLeftType DEF CallLeft
  <2>9. CallLeft(w)' \in Int /\ CallLeft(w)' < CallLeft(w)
    BY <2>6, <2>7, <2>8
  <2>10. n.conflicts \in 0..(MaxConflicts - 1)
    BY <1>0, <2>3
  <2>. QED  BY <1>2, <2>1, <2>3, <2>9, <2>10
<1>4. ASSUME NEW t \in 0..MaxRetries, NEW c \in 0..(MaxConflicts - 1), Again(w, t, c),
             UNCHANGED <<executor, settled>>, call[w].at = "insert",
             \/ t = call[w].tries /\ c = call[w].conflicts + 1
             \/ t = call[w].tries + 1 /\ c = 0
      PROVE  Counted' /\ WriterWork(w)' < WriterWork(w)
  <2>1. PICK n \in CallType : n.at = "again" /\ n.tries = t /\ n.conflicts = c
                              /\ call' = [call EXCEPT ![w] = n]
    <3>1. [at |-> "again", seq |-> 0, tries |-> t, conflicts |-> c] \in CallType
      BY DEF CallType
    <3>. QED  BY <1>4, <3>1 DEF Again
  <2>2. PICK k \in 1..Attempts, l \in 1..Attempts :
          /\ k = AttemptsLeft(call[w].tries, call[w].conflicts)
          /\ l = AttemptsLeft(t, c)
    BY <1>0, <1>4, AttemptsFall
  <2>3. l < k
    <3>1. CASE t = call[w].tries /\ c = call[w].conflicts + 1
      <4>1. AttemptsLeft(call[w].tries, call[w].conflicts + 1) = k - 1
        BY <1>0, <2>2, AttemptsFall
      <4>. QED  BY <2>2, <3>1, <4>1
    <3>2. CASE t = call[w].tries + 1 /\ c = 0
      <4>1. AttemptsLeft(call[w].tries + 1, 0) < k
        BY <1>0, <2>2, AttemptsFall
      <4>. QED  BY <2>2, <3>2, <4>1
    <3>. QED  BY <1>4, <3>1, <3>2
  <2>4. call'[w] = n
    BY <1>0, <2>1
  <2>5. CallLeft(w)' = 2 * l /\ CallLeft(w) = 2 * k - 1
    BY <1>4, <2>1, <2>2, <2>4 DEF CallLeft
  <2>6. CallLeft(w)' \in Int /\ CallLeft(w)' < CallLeft(w)
    BY <2>2, <2>3, <2>5
  <2>. QED  BY <1>2, <1>4, <2>1, <2>6
<1>5. ASSUME NEW err \in {"none", "start", "event"}, Settle(w, err), Busy(w)
      PROVE  Counted' /\ WriterWork(w)' < WriterWork(w)
  <2>1. call' = [call EXCEPT ![w] = Idle] /\ Counted'
    BY <1>0, <1>5 DEF Settle, Counted, Idle
  <2>2. EventsLeft(w)' = EventsLeft(w) - 1 /\ ExecutorLeft(w)' <= ExecutorLeft(w)
    <3>1. executor[w] \notin {"ok", "failed"}
      BY <1>5, AtHand
    <3>2. CASE Finishing(w)
      <4>1. executor[w] = "finish" /\ executor'[w] \in {"ok", "failed"} /\ settled' = settled
        BY <1>0, <1>5, <3>2 DEF Settle, Finishing, Go
      <4>2. EventsLeft(w)' = EventsLeft(w) - 1
        BY <1>0, <3>1, <4>1 DEF EventsLeft
      <4>3. PICK k \in Int : k = MaxEvents[w] - accepted[w]
        BY DEF RecordingInv, RecordingTypeOK
      <4>. QED  BY <1>1, <4>1, <4>2, <4>3 DEF ExecutorLeft
    <3>3. CASE ~Finishing(w)
      <4>1. executor' = executor /\ settled'[w] = settled[w] + 1
        BY <1>0, <1>5, <3>3 DEF Settle
      <4>2. ExecutorLeft(w)' = ExecutorLeft(w)
        BY <1>1, <4>1 DEF ExecutorLeft
      <4>. QED  BY <1>0, <3>1, <4>1, <4>2 DEF EventsLeft
    <3>. QED  BY <3>2, <3>3
  <2>. QED  BY <2>1, <2>2, WorkFalls
<1>6. ASSUME Fail(w), call[w].at = "insert" PROVE Counted' /\ WriterWork(w)' < WriterWork(w)
  <2>1. CASE Again(w, call[w].tries + 1, 0) /\ call[w].tries < MaxRetries
    <3>1. /\ call[w].tries + 1 \in 0..MaxRetries /\ 0 \in 0..(MaxConflicts - 1)
          /\ UNCHANGED <<executor, settled>>
      BY <1>0, <2>1 DEF Again
    <3>. QED  BY <1>4, <1>6, <2>1, <3>1
  <2>2. ASSUME NEW err \in {"none", "start", "event"}, Settle(w, err)
        PROVE  Counted' /\ WriterWork(w)' < WriterWork(w)
    BY <1>5, <1>6, <2>2 DEF Busy
  <2>. QED  BY <1>6, <2>1, <2>2 DEF Fail, FailWhen, Repeat
<1>7. CASE Commit(w)
  BY <1>5, <1>7 DEF Commit, Busy
<1>8. CASE Conflict(w)
  <2>1. CASE call[w].conflicts + 1 < MaxConflicts
    <3>1. /\ call[w].conflicts + 1 \in 0..(MaxConflicts - 1) /\ call[w].at = "insert"
          /\ Again(w, call[w].tries, call[w].conflicts + 1) /\ UNCHANGED <<executor, settled>>
      BY <1>0, <1>8, <2>1 DEF Conflict, Again
    <3>. QED  BY <1>0, <1>4, <3>1
  <2>2. CASE ~(call[w].conflicts + 1 < MaxConflicts)
    BY <1>6, <1>8, <2>2 DEF Conflict
  <2>. QED  BY <2>1, <2>2
<1>9. CASE InsertFails(w)
  BY <1>6, <1>9 DEF InsertFails
<1>10. CASE Refuse(w)
  BY <1>5, <1>10 DEF Refuse, Busy
<1>. QED  BY <1>3, <1>7, <1>8, <1>9, <1>10 DEF Insert

\* Every step of the system keeps the count, and brings on whom it moves.
LEMMA StepWork ==
  ASSUME RecordingInv, RecordingInv', Counted, [Next]_vars
  PROVE  Counted' /\ \A w \in Writers : WriterMoves(w) => WriterWork(w)' < WriterWork(w)
<1>1. ASSUME NEW w \in Writers, Record(w)
      PROVE  Counted' /\ \A v \in Writers : WriterMoves(v) => WriterWork(v)' < WriterWork(v)
  <2>1. Writing(w)
    BY <1>1 DEF Record
  <2>2. Counted' /\ WriterWork(w)' < WriterWork(w)
    BY <2>1, ExecutorFalls, RecorderFalls DEF Writing
  <2>. QED  BY <2>1, <2>2, OthersRest
<1>2. ASSUME ~\E w \in Writers : Record(w)
      PROVE  Counted' /\ \A v \in Writers : WriterMoves(v) => WriterWork(v)' < WriterWork(v)
  <2>1. UNCHANGED <<executor, accepted, settled, call>>
    BY <1>2 DEF Next, vars, EndRun, Connect, Poll, Look, Load, PollFails, Live, Disconnect,
                recordingVars
  <2>. QED  BY <2>1 DEF Counted, WriterMoves
<1>. QED  BY <1>1, <1>2

\* No call has used up its repetitions.
LEMMA CountInvariant == Spec => [](EventsInv /\ Counted)
<1>1. Init => Counted
  BY DEF Init, RecordingInit, Counted, Idle
<1>2. EventsInv /\ EventsInv' /\ Counted /\ [Next]_vars => Counted'
  BY StepWork DEF EventsInv
<1>. QED  BY <1>1, <1>2, EventsInvariant, PTL DEF Spec

\* Executions, flushers and INSERTs wind down: executeWithRetry, RecordRunEvent's loop
\* and the queue make a bounded number of steps in all.
THEOREM WritersWindDown == Spec => WritersWind
<1>1. EventsInv /\ Counted => \A w \in Writers : WriterWork(w) \in Nat
  <2>. SUFFICES ASSUME EventsInv, Counted, NEW w \in Writers PROVE WriterWork(w) \in Nat
    OBVIOUS
  <2>1. PICK m \in Nat, e \in Nat, c \in Nat, x \in Nat :
          m = Attempts /\ e = EventsLeft(w) /\ c = CallLeft(w) /\ x = ExecutorLeft(w)
    BY CallLeftType, OthersLeftType DEF EventsInv
  <2>2. (2 * m + 1) * e \in Nat
    OBVIOUS
  <2>3. (2 * m + 1) * e + c + x \in Nat
    BY <2>2
  <2>. QED  BY <2>1, <2>3 DEF WriterWork
<1>2. EventsInv /\ EventsInv' /\ Counted /\ [Next]_vars =>
        [\A w \in Writers : WriterMoves(w) => WriterWork(w)' < WriterWork(w)]_vars
  BY StepWork DEF EventsInv
<1>. QED  BY <1>1, <1>2, CountInvariant, PTL DEF Spec, WritersWind

\* The queue and the sentinel of flush cannot hold an executor up for good: whenever it
\* waits there is room, or the flusher is done, or it has an event to record.
THEOREM WritersNeverStick == Spec => []WritersNeverStuck
<1>1. EventsInv => WritersNeverStuck
  <2>. SUFFICES ASSUME EventsInv, NEW w \in Writers,
                       executor[w] \notin {"ok", "failed", "run"}, ~RecorderCanMove(w)
                PROVE  \/ executor[w] = "enqueue" /\ accepted[w] - settled[w] < QueueCap
                       \/ executor[w] = "flush" /\ Drained(w)
    BY DEF WritersNeverStuck
  <2>1. /\ executor[w] \in {"enqueue", "flush", "finish"} /\ settled[w] \in Nat /\ accepted[w] \in Nat
        /\ settled[w] <= accepted[w] /\ call[w].at \in {"idle", "insert", "again"}
    BY DEF EventsInv, RecordingInv, RecordingTypeOK
  <2>2. call[w].at = "idle" /\ call[w] = Idle /\ settled[w] = accepted[w] /\ ~Finishing(w)
    BY <2>1 DEF RecorderCanMove, EventsInv, RecordingInv, WorkInv
  <2>. QED  BY <2>1, <2>2 DEF Finishing, Drained
<1>. QED  BY <1>1, EventsInvariant, PTL
=============================================================================
