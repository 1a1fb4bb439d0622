SPECIFICATION Spec
CONSTANTS
  Tasks = {t1, t2}
  Clients = {c1}
  NoClient = NoClient
  MaxFailCalls = 0
SYMMETRY Symmetry
INVARIANTS
  RegistryConsistent
  CountersBracketTasks
CHECK_DEADLOCK FALSE
