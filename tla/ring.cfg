SPECIFICATION Spec
CONSTANTS
  Values = {v1, v2}
  Producers = {p1, p2, p3}
  Consumers = {c1, c2}
  Size = 2
  Nothing = Nothing
INVARIANTS
  NoLostSignal
PROPERTIES
  ImplementsBoundedFifo
