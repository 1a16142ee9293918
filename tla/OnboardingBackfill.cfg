SPECIFICATION Spec
CONSTANTS
  Workers = {w1}
  Clients = {c1}
  MaxAttempts = 1
  Kinds = {"backfill"}
  MaxEvents = 1
  MaxRuns = 5
  NoWorker = NoWorker
  NoJob = NoJob
  NoRow = NoRow
SYMMETRY Symmetric
INVARIANTS
  FailsOnlyOnHandlerError
CHECK_DEADLOCK FALSE
