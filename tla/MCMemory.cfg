CONSTANTS
  TagLists <- MCTagLists
  Unset = unset
  MMU_PAGE_SIZE = 2
  MEM_REGIONS_LEN = 2
  MaxAddr = 6
  MemMaps <- MCMemMaps
  ElfTables <- MCElfTables
  FANOUT = 4
  Regions <- MCRegions
  LEVELS = 3
  MaxHeap = 5
  PageSizes = {1, 2}
  PAGE = 512
  HEADER = 2
  block_sizes <- MCBlockSizes
  Sizes = {126, 254, 255, 511}
  PROC_STACK_SIZE = 1024
  INITIAL = 25
  MaxPages = 5
  MaxLive = 3
SPECIFICATION MCSpec
INVARIANTS TablesFound ExactlyUsable Ordered OneUse KeepsData StopsOnlyWhenFull BlocksDisjoint Conserved FreesOwnPages StackPresent
CHECK_DEADLOCK FALSE
