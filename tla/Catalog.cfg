SPECIFICATION Spec
CONSTANTS
  Variants = {v1, v2}
  Syncs = {s1}
  Hooks = {h1}
  Limits = {1, 2}
  MaxVersion = 3
  NoRow = NoRow
SYMMETRY Symmetric
INVARIANTS
  ArchivedWasGone
  CompleteIsStored
PROPERTIES
  ReplicaSpec
  Converges
