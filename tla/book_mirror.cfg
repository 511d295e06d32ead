SPECIFICATION BookSpec
CONSTANTS
  Price = {1, 2, 3}
  MaxSize = 2
  MayCross = FALSE
INVARIANTS BookInv MirrorsExchange
CHECK_DEADLOCK FALSE
