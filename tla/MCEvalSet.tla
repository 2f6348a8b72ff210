------------------------------ MODULE MCEvalSet ------------------------------
(* Instances of EvalSet for TLC. *)
EXTENDS EvalSet

CancelledOnly == {"cancelled"}
=============================================================================
