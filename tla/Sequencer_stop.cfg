SPECIFICATION Spec
CONSTANTS
  Targets = {a, b}
  Names = {a, b}
  NameOf <- MCNameOf
  Namesakes = {}
  Clients = {c1, c2}
  Controllers = {c1, c2}
  Ops = {"stop", "depend"}
  MaxRuns = 2
  MaxCalls = 1
  MaxConcurrentTargets = 1
  Freed = Freed
INVARIANTS
  StopStops
CHECK_DEADLOCK FALSE
