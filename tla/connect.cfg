\* Two versions of an HTTP source and two agents; a connect and doctor --fix.
SPECIFICATION ScopedSpec
CONSTANTS
  Version = {v1, v2}
  Client = {"connect", "doctor"}
  None = none
  Operation = {x, y}
  Skill = z
  Url = {here, there}
  Source <- Sources
SYMMETRY Symmetric
ACTION_CONSTRAINT Scoped
INVARIANTS RuntimeAgrees AllOrNothing AttachMends
PROPERTIES UserDirectoryKept
