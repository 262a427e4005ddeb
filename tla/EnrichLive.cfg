CONSTANTS
  daemon = daemon
  cli = cli
  MaxDocs = 3
  Outputs <- Apart
  Seed <- SeedTerms
  Answers <- NotTheSecond
  Failures <- SecondFails
  Related <- SecondOfFirst
  Similar <- AllSimilar
  Threshold = 2
  Retries = 1
  Procs = {daemon, cli}
  Daemon = daemon
  Commands = {"reenrich", "reindex"}
  None = None
  CrashAt <- NotCommitted
  MaxCrashes = 1
  CanAbort = FALSE
  FailAt <- NoCalls
  CanMute = FALSE
  CanRob = FALSE
SPECIFICATION FairSpec
INVARIANT FrontMirrorsRow
INVARIANT NoSilentSkip
INVARIANT SimilarLinked
PROPERTY EventuallyClassified
PROPERTY EventuallyIndexed
