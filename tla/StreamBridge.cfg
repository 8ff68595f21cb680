\* Three creates race for one slot, two deletes race for the same sessions,
\* one crash of either process.
SPECIFICATION Spec
CONSTANTS
  Creates = {s1, s2, s3}
  Deletes = {x1, x2}
  Devices = {d1}
  MaxConcurrent = 1
  MaxInFlight = 2
  SlowFactory = TRUE
  MaxCrashes = 1
INVARIANTS
  TypeOK
  OvershootBounded
  NoSilentOrphan
  DeletedIsGone
SYMMETRY CallSymmetry
