SPECIFICATION FairBenchSpec
CONSTANTS
  Addresses <- Ram
  Beat = 2
  BurstBytes = 4
  PageBytes = 8
  Files <- TwoSegments
  Base = 8
  WordBytes = 2
  CodeBytes = 2
  Weight <- MCWeight
  Read = 1
  Write = 2
  Exec = 3
  Ack = 6
  Eot = 4
  Eoc = 5
  Burst = 2
  Images <- MCImages
  Entry = 11
  ReadBacks <- MCReadBacks
  MaxReads = 1
  Memory <- MCMemory
  Prints = {4, 6, 7}
  MaxPrints = 3
  Codes <- MCCodes
  RxDepth = 3
  MaxLen = 4
INVARIANTS
  ImageLaunched
  NothingElse
  BurstsFit
  NeverFatal
  MemoryExact
  ExitIsReturn
PROPERTY
  SessionEnds
CHECK_DEADLOCK FALSE
