---------------------------- MODULE MCProcessRpc ----------------------------
(* Two requests of the client, one more than the server serves at a time. *)
EXTENDS ProcessRpc

MCCallerOf == [r \in Requests |-> "client"]

=============================================================================
