SPECIFICATION FairSpec
CONSTANTS
  Panel = {p1}
  Threads = 2
  Whole = 2
  MaxTrades = 2
  None = none
  Torn = torn
  Partial = partial
INVARIANTS CockpitInv FramesAreWhole
PROPERTIES TradesAreDrawn ListArrives
