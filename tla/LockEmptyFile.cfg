SPECIFICATION FairSpec
CONSTANTS
  p1 = p1
  p2 = p2
  p3 = p3
  Pids <- TwoPids
  NoPid = NoPid
  CrashAt <- BeforePid
  PidReuse = FALSE
  CanAbort = FALSE
CHECK_DEADLOCK FALSE
PROPERTY StaleLockRecovered
