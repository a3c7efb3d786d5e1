SPECIFICATION Spec
CONSTANTS
  r1 = r1
  r2 = r2
  r3 = r3
  Records = {r1, r2, r3}
  StripeOf <- TheStripes
  SiteOf <- TheSites
  SizeOf <- TheSizes
  NStripes = 2
  MaxSites = 1
  Failures = {"series", "snaps", "sorted", "fopen", "prev"}
  Peaks = FALSE
  Exits = FALSE
  Forks = TRUE
  MaxScans = 1
CHECK_DEADLOCK FALSE
INVARIANTS MissedBounded SitesMatchSnapshot GrowthReported
