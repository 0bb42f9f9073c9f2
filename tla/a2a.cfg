\* One slot for two invocations, and two calls of Cancel.
SPECIFICATION FairSpec
CONSTANTS
  Run = {r1, r2}
  Canceler = {k1, k2}
  None = none
  Limit = 1
INVARIANTS HandoverConsistent CancelIsKept
PROPERTIES TasksEnd
