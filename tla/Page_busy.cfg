SPECIFICATION Spec
CONSTANTS
  Fns = {f, g}
  Intervals = {1}
  Cycle = 1
  Effects = {"return", "throw", "remove", "stop", "add"}
  MaxDialogs = 1
  NoBatch = {g}
  Denied = {f}
  Fatal = {g}
  MayLose = TRUE
  MaxEvents = 6
INVARIANTS  IndicatorTruthful EachCallOnce
INVARIANTS ExpiryIsReal
PROPERTIES NobodyPassedBy ExpiredPageIsQuiet
CHECK_DEADLOCK FALSE
