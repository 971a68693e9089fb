SPECIFICATION Spec
CONSTANTS
  MinutesPerDay = 3
  SecondsPerMinute = 2
  NoTime = NoTime
  NoDay = NoDay
  Schedules <- SundayNight
  Starts <- MondayMorning
  Late = 3
  MaxFailures = 0
  MaxDay = 15
INVARIANTS
  NoSlotSkipped
CHECK_DEADLOCK FALSE
