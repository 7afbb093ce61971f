------------------------------ MODULE Actions ------------------------------
(***************************************************************************)
(* What the Agent Server and a Runtime Box agree on: the invocations and   *)
(* the outcomes an Action may have.  An invocation has one Action and one  *)
(* one-time execution grant, so one identifier stands for all three.       *)
(***************************************************************************)
EXTENDS Integers, FiniteSets

CONSTANT Invocations

ASSUME InvocationsFinite == IsFiniteSet(Invocations)

\* outcome_unknown is an outcome, but one that better evidence may replace.
TerminalStates == {"succeeded", "failed", "cancelled"}
EvidenceStates == TerminalStates \union {"outcome_unknown"}
=============================================================================
