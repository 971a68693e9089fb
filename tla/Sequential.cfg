\* Only one of the modules moves in a behaviour.
CONSTANTS
  \* Schedule: days of three minutes of two seconds
  MinutesPerDay = 3
  SecondsPerMinute = 2
  NoTime = NoTime
  NoDay = NoDay
  Schedules <- SafeSchedules
  Starts <- Monday
  Late = 3
  MaxFailures = 2
  MaxDay = 15
  \* Runners
  MaxSignals = 2
  \* Columns
  Names <- NamesOfColumns
  Types = {"integer", "float", "boolean", "datetime"}
  MaxColumns = 3
  MaxRows = 2
  MaxAdded = 1
  \* Tables: two tables of the default schema and two of another, one change
  Schemas = {"main", "other"}
  Main = "main"
  TableNames <- NamesOfTables
  ColumnNames = {"x", "y"}
  MaxChanges = 1
SPECIFICATION SequentialSpec
INVARIANTS
  NoSlotSkipped
  IntervalKept
  CancelledHasNoData
  NothingIsLeftBehind
  ColumnsDescribeRows
  SchemaIsTrue
PROPERTIES
  OncePerSlot
CHECK_DEADLOCK FALSE
