\* Three requests of two callers; as many tokens, one more than may be pending.
SPECIFICATION Spec
SYMMETRY Symmetry
CONSTANTS
  Identity = {a, b}
  Capability = {cap}
  Input = {x, y}
  Token = {t1, t2, t3}
  NoToken = NoToken
  NoChallenge = NoChallenge
  Run = {r1, r2, r3}
  MaxPending = 2
  TTL = 1
  MaxRevision = 2
  MaxClock = 1
INVARIANTS StartsAreApproved TokenStartsOnce RunsCurrentVersion PendingOrderly
PROPERTIES TokensLostOnlyWhenFull
