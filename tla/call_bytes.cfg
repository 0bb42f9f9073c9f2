\* Byte quotas, events and results, two payload sizes, every state.
SPECIFICATION Spec
CONSTANTS
  a = a
  b = b
  small = small
  large = large
  CallID = {1, 2, 3, 4}
  Identity = {a, b}
  Payload = {small, large}
  Size <- TwoSizes
  NoResult = NoResult
  Target <- AllTargets
  MaxIdentityActive = 1
  MaxGlobalActive = 2
  MaxIdentityRetained = 3
  MaxGlobalRetained = 3
  MaxIdentityBytes = 3
  MaxGlobalBytes = 5
  MaxEvents = 1
  MaxEventBytes = 2
  TicksPerSecond = 2
  MaxClock = 0
INVARIANTS BytesWithinQuota UsageAgrees ResultIffCompleted AdmissionComplete
PROPERTIES TerminalIsFinal OthersPrunedOnlyWhenFull
