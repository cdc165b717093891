CONSTANTS
  parent = parent
  child = child
  Procs <- MCProc
  First = parent
  Ttys <- MCTtys
  Leftovers = {"tail"}
  strcpy <- MCstrcpy
  Names = {"a", "b", "c"}
  LongNames = {}
  NR_FILES = 1
  NR_FILE_DESC = 3
  NR_INODE = 4
  NR_INODES = 6
  NR_EXTENTS = 5
  NR_ENTRIES = 7
  MAX_CNT = 3
SPECIFICATION Spec
CHECK_DEADLOCK FALSE
INVARIANTS
  FoundIsListed
