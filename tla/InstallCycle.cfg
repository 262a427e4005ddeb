CONSTANTS
  p1 = p1
  p2 = p2
  Procs = {p1}
  Platform = "macos"
  Hosts <- AnyHost
  Autostart = TRUE
  ForceUnit = FALSE
  Smoke = TRUE
  FailAt <- Clean
  MaxFaults = 1
  CrashAt <- Anywhere
  MaxCrashes = 2
  MaxInits = 3
  CanExpire = TRUE
  CanPrepare = TRUE
  CanLose = TRUE
  CanReboot = TRUE
SPECIFICATION FairSpec
INVARIANT FailedInitUndone
INVARIANT ReceiptComplete
INVARIANT MarkedMeansReversed
PROPERTY UninstallResumes
CHECK_DEADLOCK FALSE
