SPECIFICATION CoreFairSpec
CONSTANTS
  Delivery <- Deliveries
  SessionOf <- Session
  Configs <- Environments
  Worker = {w1, w2}
  Idle = Idle
INVARIANTS AccountedFor OvertakenOnlyWhenHeld
PROPERTIES NeverBlocks ReachesPublisher
CHECK_DEADLOCK FALSE
