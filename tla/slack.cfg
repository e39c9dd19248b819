SPECIFICATION FairSpec
CONSTANTS
  Call = {c1, c2}
  MaxRetries = 1
INVARIANTS TypeOK SuccessMeansDelivered DuplicatesOnlyUnheard KnownRefStays
PROPERTY EveryCallEnds
CHECK_DEADLOCK FALSE
