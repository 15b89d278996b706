-------------------------- MODULE MCAnnouncements --------------------------
(* Instances of Announcements for TLC.                                     *)
EXTENDS Announcements
=============================================================================
