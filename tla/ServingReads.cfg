CONSTANTS
  d1 = d1
  d2 = d2
  Docs = {d1, d2}
  None = None
  Names <- MCNames
  Limit = 1
  MaxTime = 4
  CanRemove = TRUE
  CanMute = TRUE
  Refusals = {"locked", "integrity", "invalid", "thrown"}
SPECIFICATION Spec
INVARIANT WalkComplete
INVARIANT CommittedIsFound
INVARIANT AnswersAreLogged
CHECK_DEADLOCK FALSE
