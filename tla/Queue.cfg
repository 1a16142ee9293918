SPECIFICATION LoopSpec
CONSTANTS
  Jobs = {j1}
  Stores = {s1}
  Workers = {w1, w2}
  Sweepers = {p1}
  Operators = {o1}
  StoreOf <- OneStore
  Priority <- SamePriority
  MaxAttempts <- TwoAttempts
  Bootstrap = {j1}
  LockDuration = 1
  HeartbeatLock = 1
  BaseDelay = 1
  MaxDelay = 1
  MaxJitter = 0
  MaxSweep = 1
  MaxFaults = 1
  MaxInterventions = 1
  MaxClaims = 10
  NoWorker = NoWorker
  NoJob = NoJob
INVARIANTS
  OnlyActiveJobsLocked
  NoStrandedJob
  DeadLetterExhausted
  AttemptsAccounted
PROPERTIES
  SweepsSpareHealthy
  LeaseSpec
  CompletedNeverReruns
  EveryJobSettles
  LossNoticed
