SPECIFICATION Spec
CONSTANTS
  Configs <- MCConfigs
  Affects <- MCAffects
  Values = {old, new}
  None = None
  Applies = {a1, a2}
  Workers = {"auto"}
  Overlap = TRUE
  CommitMayFail = FALSE
  MayRestart = FALSE
  MaxEdits = 2
SYMMETRY MCSymmetry
INVARIANTS TypeOK ConfirmStands BackupComplete 
CHECK_DEADLOCK FALSE
