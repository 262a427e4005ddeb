CONSTANTS
  d1 = d1
  d2 = d2
  Docs = {d1}
  Daemon = daemon
  Cli = cli
  None = None
  MaxBoots = 2
  MaxKills = 2
  CanMute = TRUE
  CanFail = FALSE
  CanExpire = FALSE
SPECIFICATION Spec
INVARIANT UnresumableIsLost
CHECK_DEADLOCK FALSE
