SPECIFICATION Spec
CONSTANTS
  a = a
  b = b
  Orders = {a, b}
  Present = {a, b}
  PageOf <- TwoPages
  LastPage = 2
  Runs = {r1, r2}
  Kinds = {"historical", "incremental"}
  Hooks = {}
  Limits = {1, 2}
  Erased = {}
  MaxNow = 2
  MaxFaults = 1
  NoRow = NoRow
  NoTx = NoTx
SYMMETRY Symmetric
INVARIANTS
  CursorCovers
  ImportComplete
CHECK_DEADLOCK FALSE
