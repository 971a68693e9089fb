------------------------------ MODULE MCAccess ------------------------------
(* Instances of Access for TLC. *)
EXTENDS Access, TLC

Symmetry ==
  Permutations(Workers) \cup Permutations(Managers) \cup Permutations(Grantees)

=============================================================================
