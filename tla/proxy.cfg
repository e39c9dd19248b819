SPECIFICATION RoutingFairSpec
CONSTANTS
  Replica = {r1, r2}
  NoLeader = NoLeader
  RenewDeadline = 1
  LeaseDuration = 2
  MaxExits = 1
  Request = {q1}
  MaxAttempts = 2
  MaxHops = 3
INVARIANTS LeadingBacked TwiceOnlyInDoubt StateOnlyOnLeaders
PROPERTIES EveryTryAnswered LeaderKnown
CHECK_DEADLOCK FALSE
