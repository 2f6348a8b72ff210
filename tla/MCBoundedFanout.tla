-------------------------- MODULE MCBoundedFanout --------------------------
(* Instances of BoundedFanout for TLC. *)
EXTENDS BoundedFanout

CancelledOnly == {"cancelled"}
=============================================================================
