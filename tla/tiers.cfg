SPECIFICATION MCSpec
CONSTANTS
  Tasks = {t1, t2, t3}
  NoTask = NoTask
  Emptied = Emptied
  Workers = {w1, w2}
  Word = 8
  BatchSize = 2
  Client = client
  Worker = worker
  Monitor = monitor
  Free = Free
  Ceiling <- CeilingValue
  MaxPasses = 2
  MaxRuns = 2
  LowCalls = 4
  Main = main
  Event = event
  MaxUpsets = 2
INVARIANTS TypesOK BackgroundRunsOnce MovesWithinSurplus
PROPERTIES GivenUpBlocksStop SignalExits
\* A kernel that gave up a task cannot stop, a relocked mutex hangs, and the
\* bounds on calls and passes end a behaviour.
CHECK_DEADLOCK FALSE
