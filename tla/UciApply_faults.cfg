SPECIFICATION FairSpec
CONSTANTS
  Configs <- MCConfigs
  Affects <- MCAffects
  Values = {old, new}
  None = None
  Applies = {a1}
  Workers = {"auto", "manual"}
  Overlap = TRUE
  CommitMayFail = TRUE
  MayRestart = TRUE
  MaxEdits = 2
CHECK_DEADLOCK FALSE
PROPERTY TimerDecides
