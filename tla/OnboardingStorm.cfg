SPECIFICATION Spec
CONSTANTS
  Workers = {w1, w2}
  Clients = {c1}
  MaxAttempts = 1
  Kinds = {"beat", "uninstall", "backfill", "block", "resume", "auth"}
  MaxEvents = 2
  MaxRuns = 6
  NoWorker = NoWorker
  NoJob = NoJob
  NoRow = NoRow
SYMMETRY Symmetric
PROPERTIES
  LinkedJobIsLive
  QueuedInOrder
CHECK_DEADLOCK FALSE
