CONSTANTS
  d1 = d1
  d2 = d2
  Docs = {d1}
  Daemon = daemon
  Cli = cli
  None = None
  MaxBoots = 2
  MaxKills = 1
  CanMute = FALSE
  CanFail = FALSE
  CanExpire = FALSE
SPECIFICATION Spec
INVARIANT OrphansDetected
CHECK_DEADLOCK FALSE
