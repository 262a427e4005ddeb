CONSTANTS
  r1 = r1
  r2 = r2
  r3 = r3
  a1 = a1
  a2 = a2
  Requests = {r1}
  Accepters = {a1}
  MinQueries = 2
  MinAccepts = 1
  KillBelow = 1
  MaxTime = 2
  MaxGen = 2
  CanMute = TRUE
  RotateMidway = FALSE
  PastWindows = TRUE
SPECIFICATION Spec
INVARIANT ReportComplete
CHECK_DEADLOCK FALSE
