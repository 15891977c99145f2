SPECIFICATION FairSpec
CONSTANTS
  MaxFailures = 2
  Loops = {"mm", "dn"}
  DbFaults = TRUE
INVARIANTS
  TypeOK
  BreakerConsistent
  TradeOnClosedPerp
PROPERTIES
  ProbeAnswered
  OpenIsProbed
