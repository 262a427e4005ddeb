CONSTANTS
  daemon = daemon
  cli = cli
  MaxDocs = 2
  Outputs <- Two
  Seed <- SeedTerms
  Answers <- PlainOutput
  Failures <- NoFailure
  Related <- NoRelated
  Similar <- NoSimilar
  Threshold = 2
  Retries = 1
  Procs = {daemon, cli}
  Daemon = daemon
  Commands = {"reenrich"}
  None = None
  CrashAt <- Anywhere
  MaxCrashes = 1
  CanAbort = FALSE
  FailAt <- NoCalls
  CanMute = FALSE
  CanRob = FALSE
SPECIFICATION FairSpec
PROPERTY EventuallyIndexed
