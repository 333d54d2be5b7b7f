SPECIFICATION Spec
CONSTANTS
  Ids = {i1, i2}
  Keys = {k1}
  Sizes = {1, 2}
  MaxStorage = 3
  MaxRecords = 3
  Absent = Absent
  NoRecord = NoRecord
INVARIANTS
  TypeOK
  CountersNeverUnder
PROPERTIES
  ImplementsDurableMap
SYMMETRY Symmetry
