CONSTANTS
  tty = tty
  fs = fs
  a = a
  b = b
  ANY = ANY
  INTERRUPT = INTERRUPT
  NO_TASK = NO_TASK
  HARDWARE_INT <- MCInt
  ZeroBody <- MCZero
  Bodies <- MCBodies
  Procs <- MCProcs
  IntTasks = {tty}
  TTY = tty
  FS = fs
  NR_CONSOLES = 2
  TTY_IN_BYTES = 2
  Requests <- MCRequests
  MAX_CNT = 2
  MaxKeys = 2
SPECIFICATION TSpec
CHECK_DEADLOCK FALSE
INVARIANTS
  HaltsOnlyAtResume
  ReaderKept
  RestsOnlyInReads
