SPECIFICATION FairSpec
CONSTANTS
  Workers = {w1}
  Clients = {c1, c2}
  MaxAttempts = 2
  Kinds = {"crash", "auth", "quiet resume", "throw"}
  MaxEvents = 2
  MaxRuns = 7
  NoWorker = NoWorker
  NoJob = NoJob
  NoRow = NoRow
INVARIANTS
  OneLiveJob
PROPERTIES
  PipelineSpec
  Settles
CHECK_DEADLOCK FALSE
