SPECIFICATION AggSpec
CONSTANTS
  Group = {"shop"}
  Trigger = {"on-sync-running"}
  Event <- OneApp
  IdleWindow = 1
  MaxWait = 2
  CombineTriggers = FALSE
  App = {"web"}
  Dest <- OneDest
  Shape <- Editor
  ThreadRepliers = {"slack"}
  DuplicateAction = "drop"
  SessionTTL = 3
  MaxCalls = 2
INVARIANTS PerAppLatest
CHECK_DEADLOCK FALSE
