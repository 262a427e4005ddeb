CONSTANTS
  daemon = daemon
  cli = cli
  MaxDocs = 2
  Outputs <- OddToo
  Seed <- SeedTerms
  Answers <- AnyOutput
  Failures <- NoFailure
  Related <- NoRelated
  Similar <- AllSimilar
  Threshold = 2
  Retries = 1
  Procs = {daemon, cli}
  Daemon = daemon
  Commands = {"reenrich", "reindex"}
  None = None
  CrashAt <- Nowhere
  MaxCrashes = 0
  CanAbort = FALSE
  FailAt <- Vectors
  CanMute = FALSE
  CanRob = FALSE
SPECIFICATION Spec
INVARIANT DomainKnown SimilarLinked
