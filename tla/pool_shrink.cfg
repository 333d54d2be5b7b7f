SPECIFICATION FairSpec
CONSTANTS
  Tasks = {t1}
  Clients = {c1}
  NoTask = NoTask
  QueueLimits = {1}
  InitialLimit = 1
  InitialThreads = 2
  MaxThreads = 2
PROPERTY
  ShrinkReturns
CHECK_DEADLOCK FALSE
