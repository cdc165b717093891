CONSTANTS
  N = 3
  Priority <- SourcePriority
  IntTasks = {2}
SPECIFICATION FairSpec
PROPERTIES
  ScheduleReturns
