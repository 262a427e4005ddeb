SPECIFICATION Spec
CONSTANTS
  p1 = p1
  p2 = p2
  p3 = p3
  Pids <- ThreePids
  NoPid = NoPid
  CrashAt <- Nowhere
  PidReuse = FALSE
  CanAbort = FALSE
CHECK_DEADLOCK FALSE
INVARIANT MutualExclusion
