\* Two runs of any capability, one slot, two writers of one secret.
SPECIFICATION Spec
CONSTANTS
  Ref = {secretRef}
  Value = {v1, v2}
  Writer = {w1, w2}
  None = none
  Run = {r1, r2}
  Capability <- Sources
  ref = secretRef
  Slots = 1
INVARIANTS SecretsConsistent OneCredentialPerRun EffectsAnnounced
PROPERTY FailureKeepsValue
SYMMETRY Symmetric
