CONSTANTS
  parent = parent
  child = child
  Procs <- MCProcs
  First = parent
  Ttys <- MCTtys
  Leftovers = {"tail"}
  strcpy <- MCstrcpy
  Names = {"a", "middle", "long"}
  LongNames = {"long"}
  NR_FILES = 2
  NR_FILE_DESC = 2
  NR_INODE = 3
  NR_INODES = 5
  NR_EXTENTS = 4
  NR_ENTRIES = 6
  MAX_CNT = 2
SPECIFICATION MCSpec
CHECK_DEADLOCK FALSE
INVARIANTS
  SharedRight
  InUseStays
  CacheRight
  SectorsRight
  EntriesRight
