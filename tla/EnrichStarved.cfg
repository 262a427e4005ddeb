CONSTANTS
  daemon = daemon
  cli = cli
  MaxDocs = 4
  Outputs <- Two
  Seed <- SeedTerms
  Answers <- OnlyTheLast
  Failures <- LastIsFine
  Related <- NoRelated
  Similar <- NoSimilar
  Threshold = 3
  Retries = 1
  Procs = {daemon, cli}
  Daemon = daemon
  Commands = {"reenrich", "reindex"}
  None = None
  CrashAt <- Nowhere
  MaxCrashes = 0
  CanAbort = FALSE
  FailAt <- NoCalls
  CanMute = FALSE
  CanRob = FALSE
SPECIFICATION FairSpec
PROPERTY EventuallyClassified
