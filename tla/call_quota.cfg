\* Admission, quotas and pruning.
SPECIFICATION Spec
CONSTANTS
  a = a
  b = b
  small = small
  large = large
  CallID = {1, 2, 3, 4}
  Identity = {a, b}
  Payload = {small}
  Size <- OneSize
  NoResult = NoResult
  Target <- AppTargets
  MaxIdentityActive = 1
  MaxGlobalActive = 2
  MaxIdentityRetained = 2
  MaxGlobalRetained = 3
  MaxIdentityBytes = 10
  MaxGlobalBytes = 10
  MaxEvents = 0
  MaxEventBytes = 0
  TicksPerSecond = 2
  MaxClock = 1
INVARIANTS TypeOK ActiveWithinQuota RetainedWithinQuota
PROPERTIES ImplementsLifecycle
