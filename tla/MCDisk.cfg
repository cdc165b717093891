CONSTANTS
  Plans <- MCPlans
  Root = 0
  NR_PART_PER_DRIVE = 2
  NR_SUB_PER_PART = 3
  DRIVE_SIZE = 25
  COUNT = 3
  INT = 32
  MAX_TICKS = 6
  HZ = 2
  MS = 4
  HD_TIMEOUT = 4
  SECTOR_SIZE = 2
  FsbufSizes = {2, 4}
  FSBUF_SECTS = 4
  InodeSect = 1
  FileStart = 2
  FileSects = 5
  Sizes = {3}
  Lens = {0, 5}
  MaxCalls = 3
SPECIFICATION RWSpec
CHECK_DEADLOCK FALSE
INVARIANTS
  InterruptsMatched
  PartitionsRight
  TransferRight
PROPERTIES
  RequestsReturn
