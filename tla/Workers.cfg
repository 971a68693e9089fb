\* Only one of the two modules moves in a behaviour.
CONSTANTS
  \* Activity: two users, two sync tasks that overlap, one address to verify
  People = {p, q}
  Unverified = {p}
  Syncs = {s1, s2}
  Verifiers = {v}
  MaxTime = 2
  MaxRequests = 2
  MaxLosses = 1
  \* SchemaCache: one data source, a request and two tasks that overlap
  DataSources = {d1}
  Readers = {r1}
  Tasks = {t1, t2}
  MaxVersion = 3
  MaxErrors = 2
SPECIFICATION Spec
PROPERTIES
  ActiveAtMovesOn
  ActivityIsRecorded
  SchemaCatchesUp
CHECK_DEADLOCK FALSE
