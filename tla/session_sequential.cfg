SPECIFICATION Spec
CONSTANTS
  SessionKey = {"k1", "k2"}
  App = {"web", "api", "job", "db"}
  Dest <- FourDests
  Batch <- Rollout
  Shape <- Mixed
  ThreadRepliers = {"slack"}
  DuplicateAction = "thread"
  SessionTTL = 1
  Faults = {"unresolved", "rejected"}
  MaxCalls = 1
INVARIANTS OneLiveMessage MessageCurrent ContentRouted ChangedFlushRepairs
CHECK_DEADLOCK FALSE
