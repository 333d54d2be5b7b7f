SPECIFICATION MCSpec
CONSTANTS
  Clients = {c1, c2}
  Monitor = monitor
  Worker = worker
  Owner = owner
  Async = async
  Free = Free
  EngineCalls = 3
  MaxBroken = 1
  CoreCalls = 5
  ContainerCalls = 4
  CloudCalls = 3
  MaxFaults = 1
INVARIANTS TypesOK OverflowsThroughMonitor GracefulNeedsEmergency NoContainerCycle CloudCyclesThroughCallback
\* Engines that are gone, relocked mutexes and the bounds on
\* the calls end a behaviour.
CHECK_DEADLOCK FALSE
