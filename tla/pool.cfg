SPECIFICATION FairSpec
CONSTANTS
  Tasks = {t1, t2}
  Clients = {c1}
  NoTask = NoTask
  QueueLimits = {1, 2}
  InitialLimit = 2
  InitialThreads = 1
  MaxThreads = 2
INVARIANTS
  EachTaskOnce
  StopKeepsAccepted
  NoLostWakeup
  MetricsSound
PROPERTIES
  StopReturns
  Served
CHECK_DEADLOCK FALSE
