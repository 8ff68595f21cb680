SPECIFICATION Spec
CONSTANTS
  Requests = {p1, p2, p3}
  MaxGrants = 4
  NoRow = NoRow
INVARIANT RowFollowsRing
PROPERTIES InvalidationIsExplained ImplementsCredential
