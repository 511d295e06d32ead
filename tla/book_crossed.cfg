SPECIFICATION BookSpec
CONSTANTS
  Price = {1, 2, 3}
  MaxSize = 2
  MayCross = TRUE
INVARIANTS MirrorsExchange
CHECK_DEADLOCK FALSE
