CONSTANTS
  k = k
  y = y
  d = d
  Thread = {k, y, d}
  Source = source
  NULL = null
  KbThread = k
  Calls <- MCCalls
  BUFF_SIZE = 2
  Char = {nul, a}
  NUL = nul
SPECIFICATION FairKeysSpec
INVARIANTS QueuedOnce NoSleepOnData NoDangling ExitHandled
PROPERTIES Cooperative Progress
