SPECIFICATION Spec
CONSTANTS
  Ids = {r1, r2, r3, r4}
  Types = {cpu, mem}
  Capacities = {0, 1, 2}
  NoType = NoType
  NoPool = NoPool
INVARIANTS
  IndexSound
  IndexComplete
  CapacityHolds
