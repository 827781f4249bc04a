\* dapp-simulate: a first poll that fails.
SPECIFICATION DappSpec
PROPERTY FailedPollRepeats
CHECK_DEADLOCK FALSE
CONSTANTS
  Requests = {1}
  BenchIds = {}
  e1 = e1
  e2 = e2
  e3 = e3
  d1 = d1
  d2 = d2
  Executors = {e1, e2, e3}
  Data = {d1}
  Threshold <- ThresholdTwo
  MAX_LIMIT = 20
  WINDOW = 10
  MaxFaults = 1
  PAGE_DEFAULT = 5
  PAGE_MAX = 200
  Wanted = 1
  MaxPolls = 2
  Initialised = FALSE
