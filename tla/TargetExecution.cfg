SPECIFICATION FairSpec
CONSTANTS
  Tasks = {t1, t2}
  Posts = {p1}
  WithPosts = {t1}
  PostOf <- MCPostOf
  Bases = {t2, p1}
  Groups = {g1, g2}
  NoTask = NoTask
  Clients = {c1}
  MaxExecutions = 2
  MaxEdits = 1
  MaxCancels = 1
  MaxLinks = 1
INVARIANTS
  TypeOK
  CancelledNeverCompletes
  FailureFailsTarget
  TasksInTurn
PROPERTIES
  ImplementsOutcome
CHECK_DEADLOCK FALSE
