SPECIFICATION Spec
CONSTANTS
  Workers = {w1, w2}
  Managers = {m1, m2}
  Grantees = {g1, g2}
  Keys = {k1}
  Visitors = {v1}
SYMMETRY Symmetry
INVARIANTS
  ServedWhilePublic
PROPERTIES
  ListIsASet
CHECK_DEADLOCK FALSE
