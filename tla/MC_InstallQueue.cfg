SPECIFICATION Spec
CONSTANTS
  MaxTasks = 4
  QueueCap = 1
  MaxKeep = 2
CHECK_DEADLOCK FALSE
INVARIANTS TypeOK StoppedLeavesNoneQueued FinishedHasEnd ActiveIsKept
PROPERTIES RefinesLifecycle EveryTaskEnds
