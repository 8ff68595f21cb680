SPECIFICATION PlayerFairSpec
CONSTANTS
  Starts = {s1, s2}
  Stops = {v1}
  None = None
  RacyTransitions = FALSE
  Faults = TRUE
  Video = FALSE
PROPERTIES LeavingReleases SpinnerEnds
CHECK_DEADLOCK FALSE
