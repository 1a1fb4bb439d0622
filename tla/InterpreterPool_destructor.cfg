SPECIFICATION FairSpec
CONSTANTS
  Tasks = {t1, t2}
  NoTask = NoTask
  Urgent = {t2}
  Priority <- MCPriority
  MaxThreads = 2
  NumWorkers = 2
  Controllers = {h}
  Host = h
  MaxQueuedTasks = 2
  MaxInits = 1
  MaxFails = 0
  MaxResets = 0
PROPERTIES
  DestructorEnds
CHECK_DEADLOCK FALSE
