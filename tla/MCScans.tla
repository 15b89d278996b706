------------------------------ MODULE MCScans ------------------------------
(* Values of the constants of Scans for TLC. *)
EXTENDS Scans
=============================================================================
