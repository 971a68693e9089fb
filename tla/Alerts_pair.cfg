SPECIFICATION Spec
CONSTANTS
  Alerts = {a1}
  Workers = {w1, w2}
  Subscribers = {s1, s2}
  Values = {lo, hi}
  NoRow = NoRow
  Rearm = 1
  MaxResults = 2
  MaxTime = 3
  Allowed = {"workerLost", "edit", "delete"}
SYMMETRY Symmetry
INVARIANTS
  RepeatsOverlap
  EverybodyIsTold
CHECK_DEADLOCK FALSE
