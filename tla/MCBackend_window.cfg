SPECIFICATION FairSpec
CONSTANTS
  d1 = d1
  e1 = e1
  e2 = e2
  e3 = e3
  h1 = h1
  h2 = h2
  w1 = w1
  w2 = w2
  NoReport = NoReport
  NoRequest = NoRequest
  Requests = {1, 2, 3}
  BenchIds = {3}
  Executors = {e1, e2}
  Data = {d1}
  Threshold <- ThresholdMixed
  MAX_LIMIT = 1
  WINDOW = 2
  MaxFaults = 1
  Handlers = {h1}
  Workers = {w1}
  GasCap = 0
  Embedded = {w1}
  ExternalOwner = TRUE
PROPERTIES
  WindowDrains
  LedgerSpec
