SPECIFICATION Spec
CONSTANTS
  Targets = {a, b, c}
  Names = {n, c}
  NameOf <- MCNameOf
  Namesakes = {a, b}
  Clients = {c1}
  Controllers = {c1}
  Ops = {"remove", "schedule", "file", "database", "crash"}
  MaxRuns = 1
  MaxCalls = 2
  MaxConcurrentTargets = 1
  Freed = Freed
SYMMETRY Symmetry
VIEW WithoutCounts
PROPERTIES
  TargetsKept
CHECK_DEADLOCK FALSE
