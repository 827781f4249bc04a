\* Proofs while reports come, are trimmed and an owner registers a root.
SPECIFICATION ProofsSpec
INVARIANT ProofTypeOK
INVARIANT ProofConvinces
INVARIANT FoundIffCovered
SYMMETRY HandlerSym
CHECK_DEADLOCK FALSE
CONSTANTS
  Requests = {1}
  BenchIds = {}
  Executors = {1, 2, 3}
  d1 = d1
  h1 = h1
  h2 = h2
  w1 = w1
  Data = {d1}
  Handlers = {h1, h2}
  Workers = {w1}
  Embedded = {w1}
  ExternalOwner = TRUE
  Threshold <- ThresholdTwo
  MAX_LIMIT = 20
  WINDOW = 10
  MaxFaults = 1
  GasCap = 0
  NoReport = NoReport
  NoRequest = NoRequest
  PAGE_DEFAULT = 5
  PAGE_MAX = 200
  Reader = 1
  limitPerPage = 1
  Hash <- Numbered
  NoLeaf = NoLeaf
