CONSTANTS
  daemon = daemon
  cli = cli
  MaxDocs = 3
  Outputs <- Two
  Seed <- SeedTerms
  Answers <- PlainOutput
  Failures <- NoFailure
  Related <- NoRelated
  Similar <- NoSimilar
  Threshold = 2
  Retries = 1
  Procs = {daemon}
  Daemon = daemon
  Commands = {"reenrich", "reindex"}
  None = None
  CrashAt <- Nowhere
  MaxCrashes = 0
  CanAbort = FALSE
  FailAt <- Reads
  CanMute = FALSE
  CanRob = FALSE
SPECIFICATION Spec
INVARIANT BreakerHalts
CHECK_DEADLOCK FALSE
