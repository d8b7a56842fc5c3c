CONSTANTS
  k = k
  y = y
  d = d
  Thread = {k, y}
  Source = source
  NULL = null
  KbThread = k
  Calls <- MCCallsTwo
  BUFF_SIZE = 2
  Char = {nul, a}
  NUL = nul
SPECIFICATION FairSpec
PROPERTY Progress
