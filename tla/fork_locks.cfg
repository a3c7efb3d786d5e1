SPECIFICATION FairSpec
CONSTANTS
  w1 = w1
  w2 = w2
  Workers = {w1, w2}
  Program <- TwoPrograms
  Tools = {"reporter"}
  Started = {{}, {"reporter"}}
  NStripes = 2
  Unwinds = FALSE
  Calls = 1
CHECK_DEADLOCK FALSE
INVARIANTS UnlocksOwn
 
