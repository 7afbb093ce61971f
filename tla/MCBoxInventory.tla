--------------------------- MODULE MCBoxInventory ---------------------------
(* Instances of BoxInventory for TLC: i2 is the process started after i1.  *)
EXTENDS BoxInventory, TLC

CONSTANTS i1, i2

MCGenerationOf == (i1 :> 1) @@ (i2 :> 2)
MCMaxRevision == <<3, 1>>
=============================================================================
