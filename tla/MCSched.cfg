CONSTANTS
  N = 3
  Priority <- MCPriority
  IntTasks = {1, 2}
SPECIFICATION FairSpec
INVARIANTS
  TypeOK
  RunsReady
PROPERTIES
  ScheduleReturns
  ReadyRuns
