SPECIFICATION LoopFairSpec
CONSTANTS
  Jobs = {j1, j2}
  Workers = {w1, w2}
  Builds = {FALSE}
  MaxSubscribers = 0
PROPERTIES PostedJobsRun
CHECK_DEADLOCK FALSE
