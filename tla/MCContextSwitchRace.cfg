CONSTANTS
  Thread = {t1, t2}
  Source = source
  NULL = null
  PF_stack = pf
  EX_stack = ex
  IrqLabels <- AllLabels
  MaxDepth = 4
  MaxTraps = 5
SPECIFICATION Spec
INVARIANT PopsWhatWasPushed
