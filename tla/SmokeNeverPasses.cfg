CONSTANTS
  p1 = p1
  p2 = p2
  Procs = {p1}
  Platform = "linux"
  Hosts <- BareHost
  Autostart = FALSE
  ForceUnit = FALSE
  Smoke = TRUE
  FailAt <- Nowhere
  MaxFaults = 0
  CrashAt <- Nowhere
  MaxCrashes = 0
  MaxInits = 1
  CanExpire = FALSE
  CanPrepare = TRUE
  CanLose = FALSE
  CanReboot = FALSE
SPECIFICATION Spec
INVARIANT SmokeTestPasses
CHECK_DEADLOCK FALSE
