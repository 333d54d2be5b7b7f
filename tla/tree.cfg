SPECIFICATION MCSpec
CONSTANTS
  Names = {k1}
  Clients = {c1, c2}
  Monitor = monitor
  Worker = worker
  Free = Free
  NaN = NaN
  MaxRestarts = 1
  ManagerCalls = 3
  ParentCalls = 3
  MaxCalls = 4
  Cores = 4
  Word = 1024
  Loads = {0, 2, 9}
  Features = {"SSE"}
  MaxFaults = 1
INVARIANTS TypesOK RegisteredComplete ActiveChildrenRun LocksOrdered
PROPERTIES FlagsOnlyLower
\* A relocked mutex or a joined thread that never ends stops the program, and
\* the bound on the calls ends a behaviour.
CHECK_DEADLOCK FALSE
