SPECIFICATION Spec
CONSTANTS
  NoTid = NoTid
  Gone = {g1, g2}
  Tids = {t1, t2, t3}
  NSlots = 2
  DepthMax = 2
SYMMETRY TidSymmetry
CONSTRAINT Unmixed
CHECK_DEADLOCK FALSE
INVARIANTS SlotNotShared RecursionGuard DecidesRight FullOnlyIfTaken
