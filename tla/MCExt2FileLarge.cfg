CONSTANTS
  block_size = 4
  NUM_DIRECT_BLOCKS = 2
  num_indirect_per = 2
  Sizes = {17, 18, 19, 20, 21, 22, 23, 24}
  Lens = {1, 3, 4, 6, 9}
SPECIFICATION Spec
INVARIANT ReadsFile
CHECK_DEADLOCK FALSE
