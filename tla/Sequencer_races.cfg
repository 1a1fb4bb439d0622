SPECIFICATION Spec
CONSTANTS
  Targets = {a, b}
  Names = {a, b}
  NameOf <- MCNameOf
  Namesakes = {}
  Clients = {c1, c2}
  Controllers = {c1, c2}
  Ops = {"stop", "pause", "retry", "depend"}
  MaxRuns = 2
  MaxCalls = 1
  MaxConcurrentTargets = 1
  Freed = Freed
SYMMETRY Symmetry
VIEW WithoutCounts
INVARIANTS
  FailedIsListed
  IdleAtRest
CHECK_DEADLOCK FALSE
