SPECIFICATION Spec
CONSTANTS
  Contracts <- SomeContracts
  Marks <- SomeMarks
  Rates <- SomeRates
  AccrualPeriod = 2
  SettlementPeriod = 3
  MaxTime = 4
  MaxTrades = 3
  MaxFaults = 1
  MaxRestarts = 1
  MaxResets = 1
INVARIANTS
  TypeOK
  MarginMatchesCost
  FundingConserved
  RestartRepeatsOneHour
PROPERTIES
  KeepsPerpLedger
