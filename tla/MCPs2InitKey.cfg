CONSTANTS
  MaxEarly = 1
  MaxKeys = 2
SPECIFICATION KbdSpec
INVARIANTS WellConfigured
CHECK_DEADLOCK FALSE
