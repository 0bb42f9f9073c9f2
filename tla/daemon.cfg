\* Two clients and three daemons one after, or beside, the other; two tokens.
SPECIFICATION Spec
SYMMETRY Symmetric
CONSTANTS
  Client = {c1, c2}
  Daemon = {d1, d2, d3}
  Token = {t1, t2}
  None = none
  Empty = empty
CHECK_DEADLOCK FALSE
INVARIANTS RequestsKept AdminIsServed
