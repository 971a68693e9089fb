SPECIFICATION Spec
CONSTANTS
  Sessions = {s1, s2}
  NoBase = NoBase
  AutoVersion = FALSE
  MaxWrites = 3
INVARIANTS
  NoLostUpdate
CHECK_DEADLOCK FALSE
