---------------------------- MODULE MCMobileChat ----------------------------
EXTENDS MobileChat
=============================================================================
