SPECIFICATION Spec
CONSTANTS
  d1 = d1
  e1 = e1
  e2 = e2
  e3 = e3
  h1 = h1
  h2 = h2
  w1 = w1
  w2 = w2
  NoReport = NoReport
  NoRequest = NoRequest
  Requests = {1}
  BenchIds = {}
  Executors = {e1, e2}
  Data = {d1}
  Threshold <- ThresholdOne
  MAX_LIMIT = 20
  WINDOW = 10
  MaxFaults = 1
  Handlers = {h1, h2}
  Workers = {w1, w2}
  GasCap = 0
  Embedded = {w1}
  ExternalOwner = TRUE
SYMMETRY ExecHandlersSym
INVARIANTS
  WorkerControl
  SubmittedHasLeaves
  RegisteredHasRoot
PROPERTIES
  RequestNeverForgotten
