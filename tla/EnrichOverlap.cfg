CONSTANTS
  daemon = daemon
  cli = cli
  MaxDocs = 2
  Outputs <- Two
  Seed <- SeedTerms
  Answers <- NewTagFirst
  Failures <- NoFailure
  Related <- NoRelated
  Similar <- NoSimilar
  Threshold = 2
  Retries = 1
  Procs = {daemon, cli}
  Daemon = daemon
  Commands = {"reenrich", "reindex"}
  None = None
  CrashAt <- Nowhere
  MaxCrashes = 0
  CanAbort = TRUE
  FailAt <- LoadAndCommit
  CanMute = TRUE
  CanRob = TRUE
SPECIFICATION Spec
INVARIANT FrontNeverAhead
INVARIANT TaxonomySound
INVARIANT IndexIsWhole
INVARIANT TagsLinked
PROPERTY ImplementsCorpus
