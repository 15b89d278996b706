----------------------------- MODULE MCSecrets -----------------------------
(* Instances of Secrets for TLC.                                           *)
EXTENDS Secrets, TLC

Symmetry == Permutations(Ids) \cup Permutations(Names) \cup Permutations(Containers)
              \cup Permutations(Requests)
=============================================================================
