CONSTANTS
  Limit = 4096
  MaxTrades = 3
  PriceText <- MCPriceText
  SizeText <- MCSizeText
SPECIFICATION Spec
INVARIANTS NumberInv MeanIsVolumeWeighted
