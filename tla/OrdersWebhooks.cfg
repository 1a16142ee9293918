SPECIFICATION Spec
CONSTANTS
  a = a
  b = b
  Orders = {a, b}
  Present = {b}
  PageOf <- TwoPages
  LastPage = 2
  Runs = {r1}
  Kinds = {"historical", "incremental"}
  Hooks = {h1, h2}
  Limits = {1, 2}
  Erased = {b}
  MaxNow = 3
  MaxFaults = 1
  NoRow = NoRow
  NoTx = NoTx
SYMMETRY Symmetric
PROPERTIES
  WithinPlan
  ReplicaSpec
  RedactionLasts
CHECK_DEADLOCK FALSE
