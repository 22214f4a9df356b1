SPECIFICATION MCSpec
CONSTANTS
  PageSize = 16
  BitsPerByte = 2
  ValueSize = 4
  InsertReserve = 4
  Value = {1, 2}
  MaxRows = 9
  Null = Null
  Garbage = Garbage
INVARIANTS TypeOK LayoutDisjoint ReadsBack ZeroCopySound
CHECK_DEADLOCK FALSE
