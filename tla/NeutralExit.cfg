SPECIFICATION FairSpec
CONSTANTS
  Qty = 2
  Prices = {2, 3}
  MaxNotional = 10
  MaxSymbolNotional = 6
  BlockOnRatio = TRUE
  ForceEntry = FALSE
  InitialLegs <- FlatStart
  MaxFaults = 0
  MaxRestarts = 0
PROPERTIES
  ExitHappens
