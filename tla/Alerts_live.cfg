SPECIFICATION FairSpec
CONSTANTS
  Alerts = {a1, a2}
  Workers = {w1}
  Subscribers = {s1}
  Values = {lo, hi}
  NoRow = NoRow
  Rearm = 1
  MaxResults = 3
  MaxTime = 3
  Allowed = {}
INVARIANTS
  WritesAreNews
PROPERTIES
  StateConverges
CHECK_DEADLOCK FALSE
