SPECIFICATION FairSpec
CONSTANTS
  Stacks <- TheStacks
  Snapshots <- TheSnapshots
  Digest <- TheDigest
  Bucket <- TheBucket
  CacheSize = 2
  AddrSlots = 2
  Probes = 2
  MainFrames = {2}
  NonPie = TRUE
  MaxScans = 2
  MaxFailures = 2
  Writers = {"reporter", "signal"}
  Capacity = 3
  MaxPoints = 6
  Profiles <- TheProfiles
  Fds = {0, 1, 2, 3}
  Ports = {0, 1, 2, 3, 4, 5, 6, 7}
  DefaultPort = 2
  Requested = {2, 7}
  Taken = {2, 3, 7}
  BindRetries = 2
  Fallbacks = 1
  RecvRetries = 1
  MaxRequests = 1
  MaxOpens = 2
CHECK_DEADLOCK FALSE
INVARIANTS SymbolsRight ScanResolvesAll RangeIsWindow OwnDescriptors ServesAsTold
PROPERTIES NothingWaits
