CONSTANTS
  a = a
  b = b
  BUFF_SIZE = 3
  Char = {nul, a, b}
  NUL = nul
  None = none
  Strings <- MCStrings
  MaxChars = 6
  Line = {1, 4, 14}
  MaxRaise = 2
  Thread = {r1, r2}
  Reader = {r1}
  Source = source
  Block = {b1, b2}
  Junk = junk
  MaxReads = 3
  MaxEarly = 2
  MaxKeys = 2
  isr_stub_table <- MCStubs
  TssAddresses = {0, 1, 8, 16, 107, 255}
  IDT_MAX_DESCRIPTORS = 256
  GDT_SIZE = 8
SPECIFICATION MCSpec
INVARIANTS InOrder InService ReadsOwnBlock HandlerHasRequest ScanSet1 ReadyForKeys HandlerHasByte VectorsReady
PROPERTIES Transmitted Served ReadEnds
CHECK_DEADLOCK FALSE
