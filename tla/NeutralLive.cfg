SPECIFICATION FairSpec
CONSTANTS
  Qty = 2
  Prices = {2, 3}
  MaxNotional = 10
  MaxSymbolNotional = 6
  BlockOnRatio = FALSE
  ForceEntry = FALSE
  InitialLegs <- FlatStart
  MaxFaults = 2
  MaxRestarts = 1
PROPERTIES
  KillSwitchFlattens
  RequestReaches
