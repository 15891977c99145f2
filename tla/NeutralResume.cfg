SPECIFICATION FairSpec
CONSTANTS
  Qty = 1
  Prices = {2}
  MaxNotional = 10
  MaxSymbolNotional = 6
  BlockOnRatio = TRUE
  ForceEntry = FALSE
  InitialLegs <- FlatStart
  MaxFaults = 0
  MaxRestarts = 0
PROPERTIES
  StrategyResumes
