SPECIFICATION CrtSpec
CONSTANTS
  HartIds  = {0, 1}
  Links    <- AllLinks
  BssLens  <- Lengths
  MaxReads = 2
  MaxTraps = 2
INVARIANTS
  CallerRestored
  BssZero
  GlobalsRight
PROPERTY
  TrapUnseen
CHECK_DEADLOCK FALSE
