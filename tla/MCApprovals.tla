---------------------------- MODULE MCApprovals ----------------------------
(* Instances of Approvals for TLC: r1 is critical, r1 and r2 belong to one *)
(* Session.                                                                *)
EXTENDS Approvals

CONSTANTS r1, r2, s1

MCSessionOf == [r \in {r1, r2} |-> s1]
=============================================================================
