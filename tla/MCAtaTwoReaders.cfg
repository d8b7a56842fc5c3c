CONSTANTS
  Thread = {r1, r2}
  Reader = {r1, r2}
  Source = source
  Block = {b1, b2}
  Junk = junk
  MaxReads = 3
SPECIFICATION AtaSpec
INVARIANTS ReadsOwnBlock
CHECK_DEADLOCK FALSE
