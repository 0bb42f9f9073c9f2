\* One invocation, nobody cancels.
SPECIFICATION Spec
CONSTANTS
  Run = {r1}
  Canceler = {}
  None = none
  Limit = 1
INVARIANT NoneMeansNothingSent
