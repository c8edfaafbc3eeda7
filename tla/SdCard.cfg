SPECIFICATION FairSpec
CONSTANTS
  BlockLen = 3
  Depth = 2
  CmdPolls = 3
  BusyPolls = 3
  TokenPolls = 3
  Requests <- AllRequests
  MaxCalls = 3
  MaxNaps = 1
  MaxSpan = 12
  Masks = {"r1", "all"}
  Faults = {"reject", "token", "crc", "resp", "noecho", "fast"}
  MaxAddr = 4
  MaxBytes = 7
  MaxBlocks = 3
INVARIANT ReadRight
INVARIANT QuietAfterSuccess
INVARIANT WriteWhole
PROPERTY CallEnds
CHECK_DEADLOCK FALSE
