\* The factory of session.js (no suspension), two devices, a sidecar that may
\* die: device_busy, and that deletes and the shutdown come to an end.
SPECIFICATION FairSpec
CONSTANTS
  Creates = {s1, s2}
  Deletes = {x1}
  Devices = {d1, d2}
  MaxConcurrent = 2
  MaxInFlight = 2
  SlowFactory = FALSE
  MaxCrashes = 1
INVARIANTS
  OneSessionPerDevice
PROPERTIES
  DeleteFreesCapacity
  AcloseTerminates
