SPECIFICATION FairSpec
CONSTANTS
  Targets = {a, b}
  Names = {a, b}
  NameOf <- MCNameOf
  Namesakes = {}
  Clients = {c1, c2}
  Controllers = {c1}
  Ops = {"stop", "pause", "modify", "depend", "retry"}
  MaxRuns = 2
  MaxCalls = 1
  MaxConcurrentTargets = 1
  Freed = Freed
INVARIANTS
  StopStops
  OneRunAtATime
PROPERTIES
  RunsEnd
  ImplementsLife
CHECK_DEADLOCK FALSE
