--------------------------- MODULE MCCertificates ---------------------------
(* Instances of Certificates for TLC.                                      *)
EXTENDS Certificates
=============================================================================
