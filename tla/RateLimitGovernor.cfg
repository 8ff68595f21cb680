\* Two callers compete for two slots per three ticks: safety, the refinement
\* of the abstract limiter, and that every acquire() comes to an end.
SPECIFICATION FairSpec
CONSTANTS
  Callers = {c1, c2}
  NoCaller = NoCaller
  MaxPerMinute = 2
  QueueWait = 2
  Window = 3
  MaxTime = 7
INVARIANTS
  TypeOK
  AdmissionsPerWindow
  NoIdleCapacity
PROPERTIES
  ImplementsLimiter
  AcquireReturns
