SPECIFICATION FairSpec
CONSTANTS
  Sectors      = 3
  SectorPages  = 4
  QuarterPages = 3
  SmallSectors = 2
  Period       = 3
  ChunkPages   = 2
  CoreFreqs    = {3, 200000000}
  EraseSizes   = {"quarter", "whole"}
  Requests    <- AllRequests
  Faults       = {"errors", "stuck", "reset", "power"}
  MaxCalls     = 2
INVARIANTS
  FlashRight
  ReadRight
PROPERTIES
  EveryOpTaken
  DiskSpec
  CallEnds
CHECK_DEADLOCK FALSE
