SPECIFICATION LifecycleSpec
CONSTANTS
  Events = {u1, b1}
  Uninstalls = {u1}
  Charged = {b1}
  Headless = {}
  Deliveries = {d1}
  MaxFaults = 0
  MaxDuplicates = 0
  MaxAuths = 2
  MaxThrows = 1
  MaxStarts = 2
  MaxTries = 2
  Nobody = Nobody
  NoEvent = NoEvent
INVARIANTS
  UninstallCancelsJobs
  OneTrial
CHECK_DEADLOCK FALSE
