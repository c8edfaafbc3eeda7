SPECIFICATION FairSpec
CONSTANTS
  Harts    = {h1, h2}
  Ops      = {"2d_memcpy", "blk_memcpy", "2d_blk_memcpy"}
  Depth    = 2
  IdMod    = 3
  MaxCalls = 3
INVARIANTS
  AsAsked
  BlkMeansDone
PROPERTY
  WaitEnds
CHECK_DEADLOCK FALSE
