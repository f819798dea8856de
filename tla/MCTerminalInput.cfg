CONSTANTS
  Chars = {"a"}
  MaxKeys = 5
  KmainPrints = 2
SPECIFICATION FairSpec
INVARIANTS ReaderListens LossOnlyInWindow ClearLeavesInit
PROPERTIES LineReachesShell
CHECK_DEADLOCK FALSE
