CONSTANTS
  r1 = r1
  r2 = r2
  r3 = r3
  a1 = a1
  a2 = a2
  Requests = {r1, r2}
  Accepters = {a1, a2}
  MinQueries = 2
  MinAccepts = 1
  KillBelow = 1
  MaxTime = 1
  MaxGen = 2
  CanMute = TRUE
  RotateMidway = FALSE
  PastWindows = FALSE
SPECIFICATION Spec
INVARIANT ReportSound
INVARIANT ReportComplete
PROPERTY ImplementsLedger
CHECK_DEADLOCK FALSE
