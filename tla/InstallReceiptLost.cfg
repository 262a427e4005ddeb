CONSTANTS
  p1 = p1
  p2 = p2
  Procs = {p1}
  Platform = "macos"
  Hosts <- BareHost
  Autostart = TRUE
  ForceUnit = FALSE
  Smoke = FALSE
  FailAt <- Clean
  MaxFaults = 1
  CrashAt <- Anywhere
  MaxCrashes = 0
  MaxInits = 2
  CanExpire = FALSE
  CanPrepare = TRUE
  CanLose = TRUE
  CanReboot = FALSE
SPECIFICATION Spec
INVARIANT EffectsRemembered
CHECK_DEADLOCK FALSE
