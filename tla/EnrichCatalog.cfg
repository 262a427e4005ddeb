CONSTANTS
  daemon = daemon
  cli = cli
  MaxDocs = 1
  Outputs <- Two
  Seed <- SeedTerms
  Answers <- PlainOutput
  Failures <- NoFailure
  Related <- NoRelated
  Similar <- NoSimilar
  Threshold = 2
  Retries = 1
  Procs = {daemon, cli}
  Daemon = daemon
  Commands = {"reenrich", "reindex"}
  None = None
  CrashAt <- Anywhere
  MaxCrashes = 1
  CanAbort = FALSE
  FailAt <- NoCalls
  CanMute = FALSE
  CanRob = FALSE
SPECIFICATION Spec
PROPERTY CatalogFresh
