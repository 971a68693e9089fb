----------------------------- MODULE MCEditing -----------------------------
(* Instances of Editing for TLC. NoBase is a model value; Seq is only      *)
(* compared with finite sequences.                                         *)
EXTENDS Editing, TLC

Symmetry == Permutations(Sessions)

=============================================================================
