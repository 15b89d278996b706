--------------------------- MODULE MCReverseProxy ---------------------------
(* Values of the constants of ReverseProxy for TLC. *)
EXTENDS ReverseProxy
=============================================================================
