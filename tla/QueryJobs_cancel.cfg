SPECIFICATION FairSpec
CONSTANTS
  Clients = {c1, c2}
  Jobs = {j1, j2}
  NoJob = NoJob
  MaxTries = 1
  Faults = {"cancel", "error"}
INVARIANTS
  AlwaysExecutes
PROPERTIES
  CallsReturn
  ReturnedJobsFinish
CHECK_DEADLOCK FALSE
