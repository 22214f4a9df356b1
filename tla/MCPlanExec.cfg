SPECIFICATION RunSpec
CONSTANTS
  Null = Null
  RawBits = 6
  IntBits = 3
  SlotBits = 2
  ColBits = 2
  Integer <- Ordinary
  Query <- MCQuery
  Data <- MCData
  Like <- MCLike
INVARIANTS TypeOK BuffersCorrect ResultCorrect
CHECK_DEADLOCK FALSE
