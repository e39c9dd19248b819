SPECIFICATION Spec
CONSTANTS
  Group = {"shop"}
  Trigger = {"running", "deployed"}
  Event <- OneGroup
  IdleWindow = 1
  MaxWait = 2
  CombineTriggers = TRUE
INVARIANTS TimerInvariant HardCap ExactlyOnce ArrivalOrder
PROPERTIES NoEarlySeal
CHECK_DEADLOCK FALSE
