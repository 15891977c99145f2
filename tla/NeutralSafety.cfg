SPECIFICATION HSpec
CONSTANTS
  Qty = 2
  Prices = {2, 3}
  MaxNotional = 10
  MaxSymbolNotional = 6
  BlockOnRatio = FALSE
  ForceEntry = FALSE
  InitialLegs <- AnyStart
  MaxFaults = 2
  MaxRestarts = 1
INVARIANTS
  TypeOK
PROPERTIES
  GapOnlyFromEntry
  NakedLegOnlyFlattened
  NothingOpensAfterFlatten
  KillSwitchStopsEntries
