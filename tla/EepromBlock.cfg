SPECIFICATION Spec
CONSTANTS
  Depth    = 8
  BlockLen = 24
  Requests <- BothBlocks
  MaxCalls = 2
  MaxSpan  = 32
INVARIANT BlockSelected
CHECK_DEADLOCK FALSE
