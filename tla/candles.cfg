SPECIFICATION Spec
CONSTANTS
  Duration = 2
  Price = {1, 3}
  Size = {1}
  MaxTime = 6
  MaxDelay = 4
  MaxAhead = 1
  MaxTrades = 3
INVARIANTS CandleInv
PROPERTIES CountsWhatItGets OnlyRebuildsStale
CHECK_DEADLOCK FALSE
