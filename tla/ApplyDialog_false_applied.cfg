SPECIFICATION FairSpec
CONSTANTS
  RollbackTime = 9
  Holdoff = 2
  Timeout = 3
  Delay = 1
  MaxOutages = 2
  Horizon = 18
CHECK_DEADLOCK FALSE
INVARIANT AppliedIsKept
