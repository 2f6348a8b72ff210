---------------------------- MODULE MCEventStream ----------------------------
(* Instances of EventStream for TLC. *)
EXTENDS EventStream, TLC

CONSTANTS w1, w2

MCWriters == {w1, w2}
MCEvents  == (w1 :> 2) @@ (w2 :> 1)
MCOutputs == (w1 :> {2}) @@ (w2 :> {})
=============================================================================
