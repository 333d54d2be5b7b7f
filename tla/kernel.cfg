SPECIFICATION FairSpec
CONSTANTS
  Tasks = {t1, t2}
  Workers = {w1, w2}
  NoTask = NoTask
INVARIANTS
  NoLostWakeup
  TaskCountExact
  StopDrains
PROPERTIES
  StopReturns
  Served
CHECK_DEADLOCK FALSE
