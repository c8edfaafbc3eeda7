SPECIFICATION FairSpec
CONSTANTS
  Depth    = 8
  BlockLen = 24
  Requests <- LowBlock
  MaxCalls = 2
  MaxSpan  = 32
INVARIANTS
  TypeOK
  ReadRight
PROPERTIES
  NoStall
  CallEnds
CHECK_DEADLOCK FALSE
