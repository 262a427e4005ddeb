CONSTANTS
  p1 = p1
  p2 = p2
  Procs = {p1}
  Platform = "linux"
  Hosts <- BareHost
  Autostart = FALSE
  ForceUnit = FALSE
  Smoke = FALSE
  FailAt <- Nowhere
  MaxFaults = 0
  CrashAt <- Anywhere
  MaxCrashes = 1
  MaxInits = 1
  CanExpire = FALSE
  CanPrepare = TRUE
  CanLose = FALSE
  CanReboot = FALSE
SPECIFICATION FairSpec
PROPERTY UninstallResumes
CHECK_DEADLOCK FALSE
