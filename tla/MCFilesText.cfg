CONSTANTS
  block_size = 4
  NUM_DIRECT_BLOCKS = 2
  num_indirect_per = 2
  Sizes = {0, 1, 2, 3, 4, 5, 6, 7, 8, 9, 10, 11, 12, 13, 14, 15, 16}
  Lens = {1, 3, 4, 6, 9}
  Partition <- MCPartition
  NoFS = nofs
  NULL = null
  Unset = unset
  dir_block_size = 48
  Directory <- MCDirectory
  Wanted <- boot
  VGA_WIDTH = 3
  VGA_HEIGHT = 3
  Glyph = {a}
  NL = nl
  CR = cr
  Input = {a, nl, cr}
  Blank = blank
  Cells = {0, 8}
  TextChar = {a, b}
  SHORT = 4
  INT = 6
  LONG = 8
  Args = {0, 1, 9, 10, 15, 16, 32, 99, 127, 128, 200, 255}
SPECIFICATION MCSpec
INVARIANTS ReadsFile FitsBuffer FindsInode FindsPlain CursorOnScreen ReadsBack
PROPERTY PrintsText
CHECK_DEADLOCK FALSE
