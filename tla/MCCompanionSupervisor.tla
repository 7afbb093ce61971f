----------------------- MODULE MCCompanionSupervisor -----------------------
(* The instance of CompanionSupervisor for TLC has numbers only.            *)
EXTENDS CompanionSupervisor
=============================================================================
