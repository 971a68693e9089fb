SPECIFICATION PagesSpec
CONSTANTS
  \* Editing: a dashboard on three pages
  Sessions = {s1, s2, s3}
  NoBase = NoBase
  AutoVersion = TRUE
  MaxWrites = 4
  \* Options: one data source, forms of two clients
  Holders = {ds}
  Types = {"first", "second"}
  Fields = {"password", "key"}
  SecretOf <- TypeSecrets
  Clients = {a1, a2}
  MaxTyped = 2
  MaxSaves = 3
  \* Parameters
  ParameterNames = {"p"}
  EnumOptions = {"word"}
  Schemas <- SomeSchemas
  MaxRevisions = 1
INVARIANTS
  NoLostUpdate
  SecretsSurvive
  TextIsFilled
  OfferedIsAccepted
PROPERTIES
  Atomic
CHECK_DEADLOCK FALSE
