------------------------------ MODULE Lineage ------------------------------
(***************************************************************************)
(* What a JSON store of the API promises when requests overlap             *)
(* (secretsStore.ts and the stores written on its pattern).  Each request  *)
(* reads the whole list, changes it and writes it back without a lock: a   *)
(* change may be applied to a list that is no longer the last one, and     *)
(* undo others.  What is left is a lineage: every list ever written is one *)
(* edit away from a list written before, and readers are always served one *)
(* of these lists.  So what every single edit preserves is preserved,      *)
(* however the requests overlap; what needs two edits to be seen in order  *)
(* is not promised.                                                        *)
(***************************************************************************)

CONSTANTS
  Blank,        \* the list of a store whose file is missing or unreadable
  Edit(_, _)    \* Edit(old, new): one request may turn the list old into new

VARIABLES
  past,         \* the lists written so far, and the blank one
  current       \* the list the process serves

vars == <<past, current>>

Init == past = {Blank} /\ current = Blank

\* A request writes its edit of some earlier list, not always the last one.
Record ==
  /\ \E old \in past, new \in past' : Edit(old, new) /\ past' = past \cup {new}
  /\ UNCHANGED current

\* Readers are served one of the lists written, not always the last one.
Show ==
  /\ current' \in past
  /\ UNCHANGED past

Next == Record \/ Show

Spec == Init /\ [][Next]_vars
=============================================================================
