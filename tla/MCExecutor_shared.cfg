\* Two programs on one mnemonic that may get different results; two failures
\* of any kind.
SPECIFICATION ExecSpec
INVARIANT ExecTypeOK
INVARIANT OneConnection
INVARIANT TakenUpOnce
INVARIANT DoneMeansSettled
INVARIANT OnlyHeardReports
INVARIANT UniqueReport
CHECK_DEADLOCK FALSE
CONSTANTS
  Requests = {1, 2}
  BenchIds = {}
  e1 = e1
  d1 = d1
  p1 = p1
  p2 = p2
  Executors = {e1}
  d2 = d2
  Data = {d1, d2}
  Processes = {p1, p2}
  Sockets = {1, 2}
  Owner <- SharedOwner
  Threshold <- ThresholdOne
  Handlers <- TaskHandlers
  Txs <- MixedTxs
  RejectionKills = FALSE
  NoReport = NoReport
  MAX_LIMIT = 20
  WINDOW = 10
  MaxFaults = 2
