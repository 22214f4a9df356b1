CONSTANTS
  ByteBits = 2
  Int32Bits = 3
  Null = Null
  Like <- MCLike
  NumThreads = 3
  Tables <- MCTables
  Statements <- MCStatements
  Nothing = Nothing
SPECIFICATION Spec
INVARIANTS TypeOK NoLostBits KeepsMatchingRows
PROPERTY FilterEnds
CHECK_DEADLOCK FALSE
