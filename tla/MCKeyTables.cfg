CONSTANTS
  Key <- MCKey
  MinDirSize = 2
  MaxDirSize = 4
  TargetBucket = 1
  SlotOf <- MCSlotOf
  TagOf <- MCTagOf
  EntryLists <- MCEntryLists
  PageLists <- MCPageLists
  Capacities = {0, 1, 3, 9}
  IndexKey = {1, 2, 3, 4, 5}
  IndexLists <- MCIndexLists
  RobinHoodHash <- MCRobinHoodHash
  CuckooHash <- MCCuckooHash
  HopscotchHash <- MCHopscotchHash
  MaxRehashAttempts = 2
  MaxDisplacements = 4
  NeighborhoodSize = 3
  MinCapacity = 4
  MaxStorage = 8
SPECIFICATION TablesSpec
INVARIANTS TablesTypeOK ProbeExact ScatterInSlot EntriesReachable GivesUpJustified IndexProbeExact
PROPERTIES ImplementsTable BuildTerminates
CHECK_DEADLOCK FALSE
