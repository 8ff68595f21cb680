\* Two callers, three tokens, one crash.
SPECIFICATION FairSpec
CONSTANTS
  Callers = {c1, c2}
  Nobody = Nobody
  MaxToken = 3
  MaxCrashes = 1
INVARIANTS
  InvalidMeansRejected
  StoreFollowsRing
  RefreshIsNeeded
PROPERTIES
  RotatesInOrder
  CallReturns
