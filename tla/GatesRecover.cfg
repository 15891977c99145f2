SPECIFICATION FairSpec
CONSTANTS
  MaxFailures = 1
  Loops = {"mm", "dn"}
  DbFaults = FALSE
PROPERTIES
  BreakerRecovers
