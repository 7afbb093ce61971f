---------------------------- MODULE MCMobileLink ----------------------------
(* The instance of MobileLink for TLC has numbers only.                     *)
EXTENDS MobileLink
=============================================================================
