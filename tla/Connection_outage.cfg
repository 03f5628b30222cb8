SPECIFICATION FairSpec
CONSTANTS
  RollbackTime = 9
  Holdoff = 2
  Timeout = 3
  Delay = 1
  MaxOutages = 2
  Horizon = 18
  Classes = {1, 2, 3}
  Core = {1}
  Preload = {2}
  Views = {3}
  MaxLost = 1
  Replies <- MCReplies
  Limit = 4
  MaxAttempts = 3
CHECK_DEADLOCK FALSE
INVARIANTS GoodLinkTellsTheTruth OnlyWhole
PROPERTIES ReachableIsKept GoodLinkApplies PagesComeUp
           ResponseInOrder ReaderStops CompleteIsPassedOn
