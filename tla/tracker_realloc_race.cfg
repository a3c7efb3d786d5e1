SPECIFICATION Spec
CONSTANTS
  t1 = t1
  t2 = t2
  a1 = a1
  a2 = a2
  NoThread = NoThread
  NoAddr = NoAddr
  NoEntry = NoEntry
  Threads = {t1, t2}
  Modes <- PoolMode
  CrossFree = FALSE
  PoolCapacity = 2
  MaxOps = 4
  Addr = {a1, a2}
  AddrStripe <- TwoAddr
  MaxSize = 2
  NStripes = 2
  EntryStripe <- SwappedEntries
CHECK_DEADLOCK FALSE
INVARIANTS QuiescentMatch
