SPECIFICATION Spec
CONSTANTS
  PositionSize = 1
  EntryThreshold = 2
  ExitThreshold = 0
  MinEntryFunding = 2
  MaxNotional = 60
  MaxDailyLoss <- LossLimit
  SymbolsConfigured = FALSE
  Halted = FALSE
  FundingRates <- SomeRates
  Marks <- SomeMarks
  FeedsSeen <- SomeFeeds
  BooksSeen <- SomeBooks
  Quotes <- SomeQuotes
  MayStall = FALSE
  MaxIterations = 4
  MaxFaults = 0
  MinFundingRate = 1
  DrawdownThreshold <- LossLimit
  MismatchTolerance = 0
  Carried = 0
  BookWatched = TRUE
  MinSpreadBps = 2
PROPERTIES
  ReduceOnlyReduces
