SPECIFICATION Spec
CONSTANTS
  x1 = x1
  x2 = x2
  y1 = y1
  Automations = {x1}
  KeyOf <- Keys
  Unsupported = {}
  Requests = {r1}
  MaxAttempts = 2
  Edits = {{}}
  MaxFaults = 0
  NoAutomation = NoAutomation
PROPERTIES
  CancelledIsFinal
CHECK_DEADLOCK FALSE
