CONSTANTS
  mm_ = mm_
  init_ = init_
  c1 = c1
  c2 = c2
  c3 = c3
  ANY = ANY
  INTERRUPT = INTERRUPT
  NO_TASK = NO_TASK
  HARDWARE_INT = HARDWARE_INT
  ZeroBody <- MCZero
  Bodies = {}
  Procs <- MCProcs
  IntTasks = {}
  MM = mm_
  INIT_ = init_
  Slots <- MCSlots
  Calls <- MCCalls
  Statuses = {1}
  MaxForks = 3
SPECIFICATION PSpec
CHECK_DEADLOCK FALSE
INVARIANTS
  HaltsKnown
  CallsTellTruth
  RestsOnlyInWaits
