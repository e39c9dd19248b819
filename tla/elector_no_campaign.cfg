SPECIFICATION FairSpec
CONSTANTS
  Replica = {r1, r2}
  NoLeader = NoLeader
  RenewDeadline = 1
  LeaseDuration = 2
  MaxExits = 1
PROPERTIES LeadershipRecovers
CHECK_DEADLOCK FALSE
