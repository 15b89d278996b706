---------------------------- MODULE MCAutomation ----------------------------
(* Values of the constants of Automation for TLC. *)
EXTENDS Automation
=============================================================================
