SPECIFICATION FairSpec
CONSTANTS
  w1 = w1
  w2 = w2
  Workers = {w1, w2}
  Program <- TwoPrograms
  Tools = {"http"}
  Started = {{"http"}}
  NStripes = 2
  Unwinds = TRUE
  Calls = 1
CHECK_DEADLOCK FALSE
PROPERTIES ChildHookReturns
