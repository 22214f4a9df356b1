SPECIFICATION RunSpec
CONSTANTS
  Null = Null
  RawBits = 6
  IntBits = 3
  SlotBits = 2
  ColBits = 2
  Integer <- WithMinusOne
  Query <- MCQuery
  Data <- MCData
  Like <- MCLike
INVARIANT ResultCorrect
CHECK_DEADLOCK FALSE
