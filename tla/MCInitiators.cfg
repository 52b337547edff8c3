SPECIFICATION MCSpec
CONSTANTS
  NumEndpoints = 3
  NumSteps = 3
  MaxFailures = 4
  DayLen = 4
  WeekDays = 2
  Schedules <- MCSchedules
  Horizon = 13
  MaxRestarts = 1
  Scripts <- ShortScripts
INVARIANTS NoOrphanConnection RetriesPaced 
PROPERTIES StopEndsPublishedConnection   SilenceHandled 
CHECK_DEADLOCK FALSE
