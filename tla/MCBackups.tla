------------------------------ MODULE MCBackups ------------------------------
(* Values of the constants of Backups for TLC. *)
EXTENDS Backups

\* "* * * * *" and "0 * * * *" over the minutes of a run of the checker.
EveryMinute == {0 .. MaxMinute}
FirstMinute == {{0}}
Never == {{}}
=============================================================================
