SPECIFICATION FairSpec
CONSTANTS
  Tasks = {t1}
  Clients = {c1, c2}
  NoClient = NoClient
  MaxFailCalls = 1
INVARIANTS
  TypeOK
  EarlyCancelNeverRuns
  InTimeCancelNotCompleted
  StatusHeard
  VanishedOnlyIfEnded
PROPERTIES
  DoneOnlyFails
  WhatBeganEnds
CHECK_DEADLOCK FALSE
