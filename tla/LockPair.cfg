SPECIFICATION FairSpec
CONSTANTS
  p1 = p1
  p2 = p2
  p3 = p3
  Pids <- TwoPids
  NoPid = NoPid
  CrashAt <- PidWritten
  PidReuse = FALSE
  CanAbort = TRUE
CHECK_DEADLOCK FALSE
INVARIANT MutualExclusion
PROPERTY ImplementsExclusiveLock
PROPERTY StaleLockRecovered
