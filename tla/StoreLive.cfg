SPECIFICATION FairLifecycle
CONSTANTS
  Events = {u1}
  Uninstalls = {u1}
  Charged = {}
  Headless = {}
  Deliveries = {d1, d2}
  MaxFaults = 2
  MaxDuplicates = 1
  MaxAuths = 2
  MaxThrows = 0
  MaxStarts = 0
  MaxTries = 2
  Nobody = Nobody
  NoEvent = NoEvent
INVARIANTS
  AckedWasDone
  SingleFlight
  NoLeakedLease
  UninstallTakesEffect
PROPERTIES
  ProcessedIsFinal
  UninstallSettles
  Spec
CHECK_DEADLOCK FALSE
