------------------------- MODULE MCScheduledRefresh -------------------------
(* Instances of ScheduledRefresh for TLC.                                  *)
EXTENDS ScheduledRefresh

\* The texts are alike, so that the first query's may be fixed at the start.
MCInit == Init /\ query[1].text = CHOOSE text \in Texts : TRUE
MCSpec == MCInit /\ [][Next]_vars /\ Fairness
=============================================================================
