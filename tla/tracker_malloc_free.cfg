SPECIFICATION FairMallocFreeSpec
CONSTANTS
  t1 = t1
  t2 = t2
  a1 = a1
  a2 = a2
  NoThread = NoThread
  NoAddr = NoAddr
  NoEntry = NoEntry
  Threads = {t1, t2}
  Modes <- ThreeModes
  CrossFree = FALSE
  PoolCapacity = 2
  MaxOps = 4
  Addr = {a1, a2}
  AddrStripe <- TwoAddrOne
  MaxSize = 2
  NStripes = 2
  EntryStripe <- SwappedEntries
CHECK_DEADLOCK FALSE
INVARIANTS TableMatchesHeap CapacityRespected
PROPERTIES LiveStaysTracked ImplementsLedger HookReturns
