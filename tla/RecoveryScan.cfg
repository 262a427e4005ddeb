CONSTANTS
  d1 = d1
  d2 = d2
  Docs = {d1}
  Daemon = daemon
  Cli = cli
  None = None
  MaxBoots = 2
  MaxKills = 2
  CanMute = TRUE
  CanFail = TRUE
  CanExpire = TRUE
SPECIFICATION FairSpec
INVARIANT ScanGivesBack
INVARIANT OneMistake
PROPERTY DaemonServes
PROPERTY ImplementsCorpus
CHECK_DEADLOCK FALSE
