SPECIFICATION Spec
CONSTANTS
  Half     = 4
  Ratio    = 20
  Lag      = 2
  RefFreq  = 2
  Requests <- MCRequests
  Rearms   = {0, 1}
  MaxCycle = 160
INVARIANT
  SleepLasts
CHECK_DEADLOCK FALSE
