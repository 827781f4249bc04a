\* The dapp: three executors with two possible payloads, a threshold of two,
\* pages of two, three polls, one failure.  The script runner: two sources
\* with a test case each, one text or none.  The connection: two calls of the API and the
\* interval loop on two databases, two signals.  The start: any .env file, a
\* pin of two characters, five keys, one or two in a chunk.
SPECIFICATION PartsSpec
INVARIANTS
  DappTypeOK
  CollectedEnough
  ScriptTypeOK
  ResultsAttributed
  ConnectionTypeOK
  OneClient
  StartTypeOK
PROPERTIES
  EnoughReportsCollected
  CallersAnswered
  TypedPinRuns
CHECK_DEADLOCK FALSE
CONSTANTS
  e1 = e1
  e2 = e2
  e3 = e3
  d1 = d1
  d2 = d2
  Requests = {1, 2}
  BenchIds = {}
  Executors = {e1, e2, e3}
  Data = {d1, d2}
  Threshold <- ThresholdTwo
  MAX_LIMIT = 20
  WINDOW = 10
  MaxFaults = 1
  PAGE_DEFAULT = 2
  PAGE_MAX = 200
  Wanted = 1
  MaxPolls = 2
  Initialised = TRUE
  Sources = 2
  TestCases = 1
  Texts = {"1"}
  Callers = {c1, c2, loop}
  Loop = loop
  Databases = {db1, db2}
  Signals = {sigint, sigterm}
  Chars = {"1", "2"}
  RightPin <- PinOneTwo
  MaxKeys = 5
