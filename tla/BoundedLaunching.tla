-------------------------- MODULE BoundedLaunching --------------------------
(***************************************************************************)
(* What launchBounded promises a caller that knows its children only by    *)
(* what is running and what is over, whatever else the caller does:        *)
(*                                                                         *)
(*   - every item is launched at most once, and what was launched is       *)
(*     active until it is finished;                                        *)
(*   - never more than Cap items are active;                               *)
(*   - it ends well only when all items are finished;                      *)
(*   - when it stops for an error it launches nothing any more, but may    *)
(*     still wait for what is active.                                      *)
(***************************************************************************)
EXTENDS Integers, FiniteSets

CONSTANTS Items, Cap

VARIABLES active, finished, verdict

launchingVars == <<active, finished, verdict>>

LaunchingInit ==
  /\ active = {} /\ finished = {}
  /\ verdict = IF Items = {} THEN "done" ELSE "open"

\* Items of Over are finished, and items of New take their places.
Turn(Over, New) ==
  /\ verdict = "open"
  /\ active' = (active \ Over) \union New
  /\ finished' = finished \union Over
  /\ Cardinality(active') <= Cap
  /\ verdict' \in {"open"} \union IF finished' = Items THEN {"done"} ELSE {}

\* An error, which the completion of an item may have brought.
Stop(Over) ==
  /\ verdict = "open"
  /\ verdict' = "stopped"
  /\ active' = active \ Over
  /\ finished' = finished \union Over

\* What is still active is waited for.
Settle(Over) ==
  /\ verdict = "stopped" /\ UNCHANGED verdict
  /\ active' = active \ Over
  /\ finished' = finished \union Over

LaunchingNext ==
  \E Over \in SUBSET active :
    \/ \E New \in SUBSET (Items \ (active \union finished)) : Turn(Over, New)
    \/ Stop(Over)
    \/ Settle(Over)

LaunchingSpec == LaunchingInit /\ [][LaunchingNext]_launchingVars
=============================================================================
