SPECIFICATION FairSpec
CONSTANTS
  Callers = {c1, c2}
  Ops = {"devices", "snapshot"}
  DevicesTtl = 2
  HistoryTtl = 1
  Initial = 1
  MaxBackoff = 2
  Max5xx = 1
  Settle = 1
  RetryAfters = {3}
  MaxVersion = 1
  None = None
INVARIANTS TypeOK FiveHundredsBounded RetryAfterHonoured
PROPERTIES PutNeverDecides OperationEnds ReadsCatchUp
