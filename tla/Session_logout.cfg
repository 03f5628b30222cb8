CONSTANTS
  Sids = {s1, s2}
  Procs = {p1, p2}
  NoFile = NoFile
  Truncated = Truncated
  SessionTime = 3
  Stall = 1
  Horizon = 4
SPECIFICATION SessionSpec
INVARIANT LogoutIsFinal
CHECK_DEADLOCK FALSE
