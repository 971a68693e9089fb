------------------------------ MODULE MCAlerts ------------------------------
(* Instances of Alerts for TLC.                                            *)
EXTENDS Alerts, TLC

Symmetry == Permutations(Alerts) \cup Permutations(Workers)
              \cup Permutations(Subscribers) \cup Permutations(Values)

=============================================================================
