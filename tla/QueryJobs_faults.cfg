SPECIFICATION Spec
CONSTANTS
  Clients = {c1, c2}
  Jobs = {j1, j2, j3, j4}
  NoJob = NoJob
  MaxTries = 2
  Faults = {"timeLimit", "workerLost", "clientLost", "lockTTL", "resultTTL"}
SYMMETRY Symmetry
INVARIANTS
  LockNamesSubmittedJob
  ReturnsSubmittedJob
  SuccessIsStored
PROPERTIES
  NoLockOverwrite
  DeskKeepsItsPromise
CHECK_DEADLOCK FALSE
