SPECIFICATION Spec
CONSTANTS
  Configs <- MCConfigs
  Affects <- MCAffects
  Values = {old, new}
  None = None
  Applies = {a1, a2}
  Workers = {"auto"}
  Overlap = FALSE
  CommitMayFail = FALSE
  MayRestart = FALSE
  MaxEdits = 3
PROPERTY ImplementsCheckedApply
CHECK_DEADLOCK FALSE
