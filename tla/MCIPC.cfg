CONSTANTS
  tty = tty
  a = a
  b = b
  c = c
  ANY = ANY
  INTERRUPT = INTERRUPT
  NO_TASK = NO_TASK
  HARDWARE_INT = HARDWARE_INT
  ZeroBody = ZeroBody
  Bodies = {m1}
  Procs <- MCProcs
  IntTasks <- MCIntTasks
SPECIFICATION Spec
SYMMETRY Symm
CHECK_DEADLOCK FALSE
INVARIANTS
  AssertsHold
  QueueHoldsSenders
  NoMissedRendezvous
  NoMissedInterrupt
  SendGraphAcyclic
  WalkFindsCycle
PROPERTIES
  WakesWithItsMessage
  DeliveredOnce
  SendersKeepTurn
  ImplementsRendezvous
