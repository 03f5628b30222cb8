SPECIFICATION Spec
CONSTANTS
  Configs <- MCConfigs
  Affects <- MCAffects
  Values = {old, new}
  None = None
  Applies = {a1}
  Workers = {"auto"}
  Overlap = FALSE
  CommitMayFail = FALSE
  MayRestart = FALSE
  MaxEdits = 2

INVARIANT ConfirmCancelsTimer
CHECK_DEADLOCK FALSE
