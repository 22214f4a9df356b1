SPECIFICATION FairJoinSpec
CONSTANTS
  Worker = {0, 1}
  NumThreads = 2
  TotalWork = 5
  MinBlockSize = 2
  BlocksPerThread = 3
  Word = 16
  Null = Null
  SlotOf <- MCSlotOf
  ValuesPerPage = 2
  BuildColumns <- MCBuildColumns
  ProbeColumns <- MCProbeColumns
INVARIANTS JoinTypeOK CursorBehindRow RowsCopied
PROPERTIES ImplementsEquiJoin JoinReturns
CHECK_DEADLOCK FALSE
