CONSTANTS
  sys = sys
  a = a
  b = b
  c = c
  ANY = ANY
  INTERRUPT = INTERRUPT
  NO_TASK = NO_TASK
  HARDWARE_INT = HARDWARE_INT
  ZeroBody = ZeroBody
  NoVal = NoVal
  Bodies <- MCBodies
  Procs <- MCProcs
  IntTasks = {}
  SYS = sys
  MAX_TICKS = 3
SPECIFICATION SSpec
INVARIANTS
  NeverHalts
PROPERTIES
  RightAnswer
  CallsReturn
