SPECIFICATION Spec
CONSTANTS
  Ids = {i1, i2}
  Keys = {k1}
  Sizes = {1, 2}
  MaxStorage = 3
  MaxRecords = 2
  Absent = Absent
  NoRecord = NoRecord
PROPERTY
  CompactKeepsData
