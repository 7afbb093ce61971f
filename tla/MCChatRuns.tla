---------------------------- MODULE MCChatRuns ----------------------------
(* The instance of ChatRuns for TLC: r1 and r2 belong to one Session.      *)
EXTENDS ChatRuns

CONSTANTS r1, r2, s1

MCSessionOf == [r \in {r1, r2} |-> s1]
=============================================================================
