CONSTANTS
  f1 = f1
  f2 = f2
  f3 = f3
  n1 = n1
  n2 = n2
  c1 = c1
  c2 = c2
  c3 = c3
  c4 = c4
  daemon = daemon
  cli = cli
  Files <- TwoFiles
  Bases = {n1}
  BasesOf <- AnyName
  Contents = {c1, c2}
  MaxTag = 1
  Rejected = {c1}
  Unreadable = {}
  IdOf <- IdDistinct
  Drainers = {daemon}
  Daemon = daemon
  None = None
  CrashAt <- Anywhere
  MaxCrashes = 1
  FailAt <- Nowhere
  Aborted = {}
  Slow = {}
  Muted = {}
  SlowCopy = FALSE
SPECIFICATION Spec
INVARIANT ProcessedHasRow FailedHasSidecar NoSilentLoss
CHECK_DEADLOCK FALSE
