SPECIFICATION Spec
CONSTANTS
  SessionKey = {"k1"}
  App = {"web", "api"}
  Dest <- TwoDests
  Batch <- OneSession
  Shape <- EditorAndReposter
  ThreadRepliers = {"slack"}
  DuplicateAction = "thread"
  SessionTTL = 1
  Faults = {"lost", "late"}
  MaxCalls = 2
INVARIANTS RefsOwned
CHECK_DEADLOCK FALSE
