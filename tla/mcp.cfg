\* A run and a discovery share one slot; Cancel or Close is called twice.
SPECIFICATION FairSpec
CONSTANTS
  Run = {r1}
  Discovery = {d1}
  Stopper = {k1, k2}
  None = none
  Limit = 1
CHECK_DEADLOCK FALSE
INVARIANTS SessionsAccounted CancelIsHeeded
PROPERTIES SessionsEnd
