SPECIFICATION MCSpec
CONSTANTS
  NR_CONSOLES = 2
  SCREEN_WIDTH = 2
  SCREEN_SIZE = 4
  VIDEO_MEM_WORDS = 13
  UINT = 16
  Keys <- MCKeys
  KB_IN_BYTES = 3
INVARIANTS
  CursorInside
  FailsOnlyByRace
  ScreenRight
  KeysRight
  SpinIsShort
PROPERTIES
  OutCharReturns
\* A keyboard whose user has stopped, and a machine that has halted, do not move.
CHECK_DEADLOCK FALSE
