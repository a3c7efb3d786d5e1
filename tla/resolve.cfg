SPECIFICATION FairSpec
CONSTANTS
  Threads = {t1, t2, t3}
  Refused = {"calloc", "realloc"}
  NotInLibc = {"realloc"}
  MaxCalls = 4
CHECK_DEADLOCK FALSE
INVARIANTS MallocNeverNull ReadyMeansReal
PROPERTIES EventuallyReady
