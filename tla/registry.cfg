SPECIFICATION FairSpec
CONSTANTS
  Process <- Replaced
  Caller = {"c1"}
  TTL = 2
  Interval = 1
  MaxDelay = 0
  MaxLost = 1
  MaxRestarts = 1
INVARIANTS TypeOK LiveBackendKnown CallsReachDeclared
PROPERTIES Converges
