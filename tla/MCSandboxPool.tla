---------------------------- MODULE MCSandboxPool ----------------------------
(* Instances of SandboxPool for TLC. *)
EXTENDS SandboxPool

\* The callers run cases of one run agent.
KeyOfUser == [u \in Callers \union {Boot} |-> IF u = Boot THEN "template" ELSE "agent"]

\* The startup refill meets one of them, to keep the state space small.
SmallLineups == {Callers, {CHOOSE c \in Callers : TRUE, Boot}}

\* Every lease finds a name: for each key as many as can be taken, lapsed or left.
Names     == {"template", "agent"} \X (1..(MaxLive + MaxMishaps))
KeyOfName == [s \in Names |-> s[1]]
=============================================================================
