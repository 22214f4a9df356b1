SPECIFICATION FairSpec
CONSTANTS
  Worker = {w1, w2, w3}
  TotalWork = 7
  NumThreads = 3
  MinBlockSize = 2
  BlocksPerThread = 4
  Word = 16
INVARIANTS ExactlyOnce IInv
PROPERTIES ImplementsPool Termination
CHECK_DEADLOCK FALSE
