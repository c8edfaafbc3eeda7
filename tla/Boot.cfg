SPECIFICATION FairBootSpec
CONSTANTS
  Lbas = 64
  Sectors = 16
  Disks <- MCDisks
  MaxLbas <- MCMaxLbas
  Tguid <- ByType
  Pguid <- ById
  ZslType = "zsl"
  Unused = "unused"
  NoGuid = "null"
  ReadMayFail = TRUE
  MaxParts = 3
  MaxSize = 3
  Word = {0, 1}
  Codes = {0, 1, 2}
  HasLlc = TRUE
  Platform = TRUE
  Debugger = TRUE
  UartHost = TRUE
  PromptCommit = TRUE
  BootModes = {0, 2}
INVARIANTS
  LaunchWhole
  ResultIsReturn
  SearchInv
  LaunchAfterBoth
PROPERTY
  HostGetsResult
CHECK_DEADLOCK FALSE
