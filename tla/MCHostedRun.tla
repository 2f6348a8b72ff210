----------------------------- MODULE MCHostedRun -----------------------------
(* Instances of HostedRun for TLC. *)
EXTENDS HostedRun

\* Two reports of remote run x and a contradiction: the failure that reuses the
\* ID of the completion but belongs to y.
Reports ==
  { [id |-> 1, kind |-> "progress",  ext |-> "x"],
    [id |-> 2, kind |-> "completed", ext |-> "x"],
    [id |-> 2, kind |-> "failed",    ext |-> "y"] }
=============================================================================
