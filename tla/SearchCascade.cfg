CONSTANTS
  Docs <- Three
  Facets <- TwoTypes
  FacetWeight <- Hundredths
  Recent <- Young
  Links <- SomeLinks
  Queries <- SomeQueries
  Corpora <- SomeCorpora
  TopK = 3
  MinResults = 3
  Outages <- SomeOutages
  CanMute = TRUE
  Credit <- Reciprocals
  None = None
  Failed = Failed
SPECIFICATION FairSpec
INVARIANT AnswerIsSound
INVARIANT NothingMissed
INVARIANT RankRespected
PROPERTY EventuallyAnswered
