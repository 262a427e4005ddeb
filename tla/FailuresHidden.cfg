CONSTANTS
  d1 = d1
  d2 = d2
  Docs = {d1, d2}
  None = None
  Names <- MCNames
  Limit = 1
  MaxTime = 3
  CanRemove = TRUE
  CanMute = FALSE
  Refusals = {}
SPECIFICATION Spec
INVARIANT WalkSurvivesTriage
INVARIANT FailuresShown
CHECK_DEADLOCK FALSE
