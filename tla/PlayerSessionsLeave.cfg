\* One view that is left while its stream connects; nothing fails.
SPECIFICATION PlayerFairSpec
CONSTANTS
  Starts = {s1}
  Stops = {v1}
  None = None
  RacyTransitions = FALSE
  Faults = FALSE
  Video = FALSE
PROPERTY LeavingDisconnects
CHECK_DEADLOCK FALSE
