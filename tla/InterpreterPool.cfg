SPECIFICATION FairSpec
CONSTANTS
  Tasks = {t1, t2}
  NoTask = NoTask
  Urgent = {t2}
  Priority <- MCPriority
  MaxThreads = 3
  NumWorkers = 2
  Controllers = {c1}
  Host = h
  MaxQueuedTasks = 2
  MaxInits = 2
  MaxFails = 1
  MaxResets = 1
INVARIANTS
  TypeOK
  PendingIsHeld
  StatisticsAddUp
  ShutdownWaits
PROPERTIES
  CallsReturn
  ImplementsExecutor
CHECK_DEADLOCK FALSE
