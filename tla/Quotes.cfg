SPECIFICATION Spec
CONSTANTS
  Capital = 10000
  QuoteSizePct = 20
  MaxInventoryPct = 35
  MinOrderSize = 1
  FeeBps = 25
  TargetProfitBps = 20
  BidOffsetBps = 120
  MinSpreadBps = 1
  NearBps = 30
  FarBps = 80
  MildSlope = 50
  SteepSlope = 150
  StaleAfter = 1
  Lookbacks <- SomeLookbacks
  LeastLookback = 2
  FirstLookback = 2
  Concavities <- SomeConcavities
  Quotes <- SomeQuotes
  DryRuns = TRUE
  Deposit = 2000
  MaxIterations = 5
  MaxBooks = 2
  MaxFaults = 1
  MaxResets = 1
  MaxDeposits = 1
INVARIANTS
  TypeOK
  OnePerSide
  InventoryWithinBounds
  SellsRecoverCost
PROPERTIES
  NoStaleQuoteCommitted
