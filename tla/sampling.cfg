SPECIFICATION Spec
CONSTANTS
  Threads = {t1, t2}
  Modes = {"bytes", "count", "all"}
  StepBytes = 8
  Period = 3
  SmallSizes = {1, 3, 5, 20}
  Width = 8
  MaxCalls = 7
CHECK_DEADLOCK FALSE
INVARIANTS OneRecordPerStep GapBounded CountExact
