CONSTANTS
  BUFF_SIZE = 4
  Char = {nul, a, b}
  NUL = nul
  Node = {n1, n2, n3}
  Waiting = {kbd, disk}
  Avail = avail
  NULL = null
SPECIFICATION MCSpec
INVARIANT Represents
PROPERTY ImplementsFifo
