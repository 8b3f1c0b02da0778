------------------------ MODULE MCBackgroundAgents ------------------------
(* Instances of BackgroundAgents for TLC. *)
EXTENDS BackgroundAgents

CONSTANTS r1, p1, p2, q1, v1, v2

SameVersion == [p \in Owners |-> v1]

==============================================================================
