----------------------------- MODULE EventStream -----------------------------
(***************************************************************************)
(* A client that follows a run over server-sent events, next to the        *)
(* writers of EventRecording.                                              *)
(*                                                                         *)
(* The handler sends the events it reads from the table, first when the    *)
(* client connects and then at every poll, and those the subscription      *)
(* brings in between.  The subscription is best effort: any recorded event *)
(* comes at any time, in any order, or never.  The stream closes when the  *)
(* handler has found the run terminal.  A connection that resumes behind a *)
(* Last-Event-ID is not modelled.                                          *)
(***************************************************************************)
EXTENDS EventRecording

VARIABLES
  ended,       \* the run is terminal
  owed,        \* frames that were recorded when the run became terminal (or when the
               \* client connected, if later) and have not been sent
  conn,        \* position of the handler
  final,       \* the run was terminal in the snapshot that is being read
  delivered    \* frames the handler has sent

streamVars == <<ended, owed, conn, final, delivered>>
vars == <<recordingVars, streamVars>>

Frame(r)  == [agent |-> r.agent, seq |-> r.seq]
Frames(s) == {Frame(r) : r \in s}

Init ==
  /\ RecordingInit
  /\ ended = FALSE /\ owed = {}
  /\ conn = "off" /\ final = FALSE /\ delivered = {}

Record(w) == Writing(w) /\ UNCHANGED streamVars

\* The run becomes terminal; executions it has given up may still write.
EndRun ==
  /\ ~ended
  /\ ended' = TRUE /\ owed' = IF conn = "off" THEN {} ELSE Frames(rows) \ delivered
  /\ UNCHANGED <<recordingVars, conn, final, delivered>>

\* ListRunEventStream reads the run, and then its events.
Look(from, to) ==
  /\ conn = from /\ conn' = to
  /\ final' = ended
  /\ UNCHANGED <<recordingVars, ended, delivered>>

Connect == Look("off", "load") /\ owed' = IF ended THEN Frames(rows) ELSE {}
Poll    == Look("open", "reload") /\ UNCHANGED owed

\* Variant: the loop looks at the status before it sends what it has read.
LoadClosing ==
  /\ conn \in {"load", "reload"}
  /\ IF final THEN conn' = "closed" /\ delivered' = {} /\ UNCHANGED owed
               ELSE conn' = "open" /\ delivered' = Frames(rows) /\ owed' = owed \ Frames(rows)
  /\ final' = FALSE
  /\ UNCHANGED <<recordingVars, ended>>

\* Send what is in the table and has not been sent, and close when the run was over.
\* The handler subscribes after the first time; its memory goes with it.
Load ==
  /\ conn \in {"load", "reload"}
  /\ owed' = owed \ Frames(rows)
  /\ IF final THEN conn' = "closed" /\ delivered' = {}
               ELSE conn' = "open" /\ delivered' = Frames(rows)
  /\ final' = FALSE
  /\ UNCHANGED <<recordingVars, ended>>

\* A poll that fails is made again later.
PollFails ==
  /\ conn = "reload"
  /\ conn' = "open" /\ final' = FALSE
  /\ UNCHANGED <<recordingVars, ended, owed, delivered>>

\* A message of the subscription.
Live ==
  /\ conn = "open"
  /\ \E f \in Frames(rows) \ delivered :
       delivered' = delivered \union {f} /\ owed' = owed \ {f}
  /\ UNCHANGED <<recordingVars, ended, conn, final>>

\* The client goes, the server stops, or the first read fails.  The next connection
\* starts again.
Disconnect ==
  /\ conn \in {"load", "open", "reload"}
  /\ conn' = "off" /\ final' = FALSE
  /\ owed' = {} /\ delivered' = {}
  /\ UNCHANGED <<recordingVars, ended>>

-----------------------------------------------------------------------------
Next ==
  \/ \E w \in Writers : Record(w)
  \/ EndRun
  \/ Connect \/ Poll \/ Load \/ PollFails \/ Live \/ Disconnect

Spec == Init /\ [][Next]_vars

\* While an execution can go on, one does, every execution ends, and polls do not
\* fail for ever.
Fairness ==
  /\ WF_vars((\E w \in Writers : Insert(w) \/ Return(w)) /\ UNCHANGED streamVars)
  /\ WF_vars(Poll) /\ SF_vars(Load)

FairSpec == Spec /\ Fairness

-----------------------------------------------------------------------------
(* Properties *)

\* The state of writers, table and stream has its type.
EventsTypeOK ==
  /\ RecordingTypeOK
  /\ ended \in BOOLEAN /\ final \in BOOLEAN
  /\ owed \subseteq Frames(rows)
  /\ conn \in {"off", "load", "open", "reload", "closed"}
  /\ delivered \subseteq Frames(rows)

\* A stream that closes has sent every event recorded before the run became
\* terminal, whatever the subscription has lost and however polls, subscription and
\* the end of the run interleave.
StreamIsComplete == conn = "closed" => owed = {}

\* Every execution returns, and no stream of a run that is over stays open: it closes,
\* or its client goes.  (To have returned, and to be over, lasts for ever, so it is
\* enough that both have their answer again and again.)
EverythingSettles ==
  []<>(WritersReturned /\ (ended => conn \in {"closed", "off"}))
=============================================================================
