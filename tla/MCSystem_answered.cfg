\* Two executors for a threshold of one, one worker, one failure anywhere.
SPECIFICATION SystemSpec
INVARIANT DoneMeansSettled
PROPERTY ListensUnlessDeaf
PROPERTY RequestAnswered
PROPERTY PollingEnds
CHECK_DEADLOCK FALSE
CONSTANTS
  Requests = {1}
  BenchIds = {}
  e1 = e1
  e2 = e2
  d1 = d1
  d2 = d2
  p1 = p1
  p2 = p2
  w1 = w1
  w2 = w2
  Executors = {e1, e2}
  Data = {d1}
  Processes = {p1, p2}
  Sockets = {1}
  Owner <- OwnOwner
  Threshold <- ThresholdOne
  Handlers <- TaskHandlers
  Txs <- OneTx
  RejectionKills = TRUE
  Workers = {w1}
  Embedded = {w1}
  ExternalOwner = FALSE
  GasCap = 1
  NoReport = NoReport
  NoRequest = NoRequest
  MAX_LIMIT = 20
  WINDOW = 10
  MaxFaults = 1
  PAGE_DEFAULT = 5
  PAGE_MAX = 200
  Wanted = 1
  MaxPolls = 1
  Initialised = TRUE
