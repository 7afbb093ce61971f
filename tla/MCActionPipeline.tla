-------------------------- MODULE MCActionPipeline --------------------------
(* Instances of ActionPipeline for TLC.                                    *)
EXTENDS ActionPipeline, TLC

CONSTANTS b1, m1, s1
=============================================================================
