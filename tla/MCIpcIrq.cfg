CONSTANTS
  tty = tty
  hd = hd
  a = a
  b = b
  ANY = ANY
  INTERRUPT = INTERRUPT
  NO_TASK = NO_TASK
  HARDWARE_INT = HARDWARE_INT
  ZeroBody = ZeroBody
  Bodies = {m1}
  Procs <- MCProcs
  IntTasks <- MCIntTasks
  TTY = tty
  HD = hd
SPECIFICATION ISpec
CHECK_DEADLOCK FALSE
INVARIANTS
  RestConsistent
PROPERTIES
  InterruptsSeen
