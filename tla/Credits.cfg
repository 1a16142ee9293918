SPECIFICATION Spec
CONSTANTS
  report = report
  Agents = {a1, a2}
  Records = {report}
  MetricOf <- Metric
  Cost <- Credits
  Limits = {0, 2}
  LastMonth = 2
  DebitRetries = 2
  ProviderAttempts = 2
  MaxFaults = 1
  NoRun = NoRun
SYMMETRY Symmetric
VIEW View
INVARIANTS
  WithinBudget
  ChargedOnce
  RecordsAgree
PROPERTIES
  PrepaidSpec
CHECK_DEADLOCK FALSE
