SPECIFICATION FairSpec
CONSTANTS
  NumHarts = 4
  NonSmpHart = 0
  Word = {0, 1}
  NoEntry = NoEntry
INVARIANTS
  HandoverInv
  NoStaleWakeup
PROPERTIES
  RendezvousSpec
  EveryHartEnters
CHECK_DEADLOCK FALSE
