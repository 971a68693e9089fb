---------------------------- MODULE MCQueryJobs ----------------------------
(* Instances of QueryJobs for TLC: callers and jobs are model values, and  *)
(* interchangeable in the runs that check safety only.                     *)
EXTENDS QueryJobs, TLC

Symmetry == Permutations(Clients) \cup Permutations(Jobs)

=============================================================================
