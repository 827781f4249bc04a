SPECIFICATION FairSpec
CONSTANTS
  d1 = d1
  e1 = e1
  e2 = e2
  e3 = e3
  h1 = h1
  h2 = h2
  w1 = w1
  w2 = w2
  NoReport = NoReport
  NoRequest = NoRequest
  Requests = {1}
  BenchIds = {}
  Executors = {e1, e2, e3}
  Data = {d1}
  Threshold <- ThresholdTwo
  MAX_LIMIT = 20
  WINDOW = 10
  MaxFaults = 1
  Handlers = {h1, h2}
  Workers = {w1}
  GasCap = 1
  Embedded = {w1}
  ExternalOwner = TRUE
INVARIANTS
  TypeOK
  OvershootBounded
  NoDuplicateRoots
  AloneControl
PROPERTIES
  LedgerSpec
  EnoughReportsSubmitted
  RegisteredRootTaken
