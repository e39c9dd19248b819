SPECIFICATION AggFairSpec
CONSTANTS
  Group = {"shop"}
  Trigger = {"on-sync-running", "on-deployed"}
  Event <- Rollout
  IdleWindow = 1
  MaxWait = 2
  CombineTriggers = TRUE
  App = {"web"}
  Dest <- TwoDests
  Shape <- Editor
  ThreadRepliers = {"slack"}
  DuplicateAction = "drop"
  SessionTTL = 3
  MaxCalls = 2
INVARIANTS StaleOnlyWhenReordered
PROPERTIES LatestShown
CHECK_DEADLOCK FALSE
