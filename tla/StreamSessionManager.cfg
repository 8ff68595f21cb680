\* A start and two stops with every fault, racing transitions and late tracks.
SPECIFICATION FairSpec
CONSTANTS
  Starts = {s1}
  Stops = {u1, u2}
  None = None
  RacyTransitions = TRUE
  Faults = TRUE
  Video = TRUE
INVARIANTS
  TypeOK
  StreamHasAnEnd
PROPERTIES
  ConnectingEnds
  StopUnblocks
CHECK_DEADLOCK FALSE
