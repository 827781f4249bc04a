\* Pages of one entry over two requests that finish during the walk; two
\* handlers overshoot the threshold of one, so that reports are trimmed.
SPECIFICATION ListsSpec
INVARIANT WalkComplete
INVARIANT OnlyFinishedShown
SYMMETRY HandlerSym
CHECK_DEADLOCK FALSE
CONSTANTS
  Requests = {1, 2}
  BenchIds = {}
  Executors = {1, 2}
  d1 = d1
  h1 = h1
  h2 = h2
  w1 = w1
  Data = {d1}
  Handlers = {h1, h2}
  Workers = {w1}
  Embedded = {w1}
  ExternalOwner = FALSE
  Threshold <- ThresholdOne
  MAX_LIMIT = 20
  WINDOW = 10
  MaxFaults = 0
  GasCap = 0
  NoReport = NoReport
  NoRequest = NoRequest
  PAGE_DEFAULT = 5
  PAGE_MAX = 200
  Reader = 1
  limitPerPage = 1
  Hash <- Numbered
  NoLeaf = NoLeaf
