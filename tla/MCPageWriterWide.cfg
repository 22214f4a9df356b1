SPECIFICATION MCSpec
CONSTANTS
  PageSize = 32
  BitsPerByte = 2
  ValueSize = 8
  InsertReserve = 4
  Value = {1}
  MaxRows = 12
  Null = Null
  Garbage = Garbage
INVARIANT LayoutDisjoint
CHECK_DEADLOCK FALSE
