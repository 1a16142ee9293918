SPECIFICATION FairSpec
CONSTANTS
  x1 = x1
  x2 = x2
  y1 = y1
  Automations = {x1, x2, y1}
  KeyOf <- Keys
  Unsupported = {x2}
  Requests = {r1, r2}
  MaxAttempts = 2
  Edits = {{}}
  MaxFaults = 2
  NoAutomation = NoAutomation
INVARIANTS
  ExecutedMeansDone
  OnePerSource
PROPERTIES
  RequestsEnd
  EffectsSpec
CHECK_DEADLOCK FALSE
