SPECIFICATION FairSpec
CONSTANTS
  r1 = r1
  r2 = r2
  r3 = r3
  Records = {r1}
  StripeOf <- OneStripes
  SiteOf <- OneSites
  SizeOf <- OneSizes
  NStripes = 2
  MaxSites = 1
  Failures = {"cache"}
  Peaks = TRUE
  Exits = TRUE
  Forks = TRUE
  MaxScans = 1
CHECK_DEADLOCK FALSE
INVARIANTS CacheSafe
PROPERTIES PeakReported StopsAfterLastScan
