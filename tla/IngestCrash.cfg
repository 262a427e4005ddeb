CONSTANTS
  f1 = f1
  f2 = f2
  f3 = f3
  n1 = n1
  n2 = n2
  c1 = c1
  c2 = c2
  c3 = c3
  c4 = c4
  daemon = daemon
  cli = cli
  Files <- ThreeFiles
  Bases = {n1, n2}
  BasesOf <- TwoOfOneName
  Contents = {c1, c2, c3, c4}
  MaxTag = 1
  Rejected = {c2}
  Unreadable = {c3}
  IdOf <- IdDistinct
  Drainers = {daemon}
  Daemon = daemon
  None = None
  CrashAt <- NotHalfway
  MaxCrashes = 2
  FailAt <- Handled
  Aborted = {}
  Slow = {}
  Muted = {}
  SlowCopy = FALSE
SPECIFICATION FairSpec
INVARIANT RowIsWhole
INVARIANT ProcessedHasRow
INVARIANT FailedHasSidecar
PROPERTY LossOnlyByReturn
PROPERTY PendingDrained
PROPERTY ImplementsCorpus
PROPERTY EventuallySettled
CHECK_DEADLOCK FALSE
