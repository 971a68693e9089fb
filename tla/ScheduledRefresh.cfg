SPECIFICATION MCSpec
CONSTANTS
  Queries = {1, 2}
  Texts = {t1, t2}
  Slots = {s1, s2}
  NoQuery = NoQuery
  Never = Never
  Interval = 0
  MaxFailures = 1
  Edited = {2}
  Blockable = TRUE
INVARIANTS
  TypeOK
PROPERTIES
  KeepsRunning
  FailuresClear
CHECK_DEADLOCK FALSE
