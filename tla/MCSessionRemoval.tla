-------------------------- MODULE MCSessionRemoval --------------------------
(* The instance of SessionRemoval for TLC: a Project with one Session and a *)
(* second one to come, and a chat whose thread may be stuck.                *)
EXTENDS SessionRemoval
CONSTANTS p1, s1, s2, s3
MCProjectOf == [s \in Sessions |-> IF s = s3 THEN Nobody ELSE p1]
=============================================================================
