\* A session timer expires, nothing fails.
SPECIFICATION FairSpec
CONSTANTS
  Starts = {s1}
  Stops = {}
  None = None
  RacyTransitions = FALSE
  Faults = FALSE
  Video = FALSE
PROPERTIES
  ExpiryDeletes
CHECK_DEADLOCK FALSE
