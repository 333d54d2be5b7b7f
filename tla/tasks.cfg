SPECIFICATION FairSpec
CONSTANTS
  Tasks = {t1, t2, t3}
  Kernels = {k1}
  NoKernel = NoKernel
  Clients = {c1, c2}
  Processors = {p1, p2}
  Nothing = Nothing
INVARIANTS
  OnePlace
  AssignedNeverDropped
  CountersMatch
PROPERTIES
  SettledForever
  PendingOrderKept
  AssignedRuns
CHECK_DEADLOCK FALSE
