SPECIFICATION Spec
CONSTANTS
  Sids = {s1, s2}
  Procs = {p1, p2}
  NoFile = NoFile
  Truncated = Truncated
  SessionTime = 3
  Stall = 1
  Horizon = 4
  Bytes = {"-", "B", "cr", "lf"}
  Files <- MCFiles
  p = p
  q = q
  r = r
  Ids = {p, q, r}
  None = None
  Lower = {r}
  Trees <- MCTrees
  Names <- MCNames
  MaxClicks = 3
SYMMETRY Symmetry
INVARIANTS SessionsHold  PageAgreesWithStart
PROPERTIES UploadInOrder OnlyRemovedIsGone
CHECK_DEADLOCK FALSE
