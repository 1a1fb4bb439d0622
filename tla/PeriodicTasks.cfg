SPECIFICATION FairSpec
CONSTANTS
  Jobs = {p1, j1}
  Periodic = {p1}
  Workers = {w1, w2}
  Builds = {TRUE, FALSE}
  MaxSubscribers = 1
INVARIANTS
  TypeOK
  LoopOutlivesUsers
  CancelStopsRuns
PROPERTIES
  
  DestructionEnds
CHECK_DEADLOCK FALSE
