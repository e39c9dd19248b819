SPECIFICATION FairSpec
CONSTANTS
  Group = {"shop", "pay"}
  Trigger = {"running", "deployed"}
  Event <- TwoGroups
  IdleWindow = 2
  MaxWait = 3
  CombineTriggers = TRUE
PROPERTIES EventuallyHanded ImplementsBatching
CHECK_DEADLOCK FALSE
