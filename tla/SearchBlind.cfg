CONSTANTS
  Docs <- Three
  Facets <- TwoTypes
  FacetWeight <- Hundredths
  Recent <- Young
  Links <- SomeLinks
  Queries <- SomeQueries
  Corpora <- SomeCorpora
  TopK = 3
  MinResults = 3
  Outages <- NoOutage
  CanMute = FALSE
  Credit <- Reciprocals
  None = None
  Failed = Failed
SPECIFICATION Spec
INVARIANT IndexStillAnswers
INVARIANT GrepFinds
