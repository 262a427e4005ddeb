CONSTANTS
  f1 = f1
  f2 = f2
  f3 = f3
  n1 = n1
  n2 = n2
  c1 = c1
  c2 = c2
  c3 = c3
  c4 = c4
  daemon = daemon
  cli = cli
  Files <- TwoFiles
  Bases = {n1}
  BasesOf <- AnyName
  Contents = {c1}
  MaxTag = 1
  Rejected = {}
  Unreadable = {}
  IdOf <- IdDistinct
  Drainers = {daemon, cli}
  Daemon = daemon
  None = None
  CrashAt <- Nowhere
  MaxCrashes = 0
  FailAt <- Handled
  Aborted = {daemon}
  Slow = {daemon}
  Muted = {daemon}
  SlowCopy = TRUE
SPECIFICATION Spec
INVARIANT OneRowPerContent
CHECK_DEADLOCK FALSE
SYMMETRY Symmetry
