SPECIFICATION Spec
CONSTANTS
  Ids = {r1, r2}
  Types = {cpu, mem}
  Capacities = {0, 1, 2}
  NoType = NoType
  NoPool = NoPool
PROPERTY
  RemoveFreesAll
