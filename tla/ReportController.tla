-------------------------- MODULE ReportController --------------------------
(***************************************************************************)
(* POST /report, the handler through which executors hand in reports, and  *)
(* POST /test, the benchmark endpoint that writes into the same "requests" *)
(* collection.  Node interleaves handlers at every await, so each awaited  *)
(* call of submitReport is one action and what it read stays in the        *)
(* handler.  The request's existence and threshold never change on-chain,  *)
(* so the getRequest call is folded into the step that receives the post.  *)
(***************************************************************************)
EXTENDS OracleStore

CONSTANTS
  Handlers,   \* POST /report requests that may be in flight together
  NoReport    \* the body of a handler that is not running

ASSUME HandlerAssumption ==
  /\ IsFiniteSet(Handlers)
  /\ NoReport \notin Reports

VARIABLES
  hpc,        \* the await each handler is at
  body        \* the report each handler was posted

handlerVars == <<hpc, body>>

HandlerSteps ==
  {"idle", "checkSender", "findReport", "count", "insertRequest", "insertReport"}

HandlerInit ==
  /\ hpc = [h \in Handlers |-> "idle"]
  /\ body = [h \in Handlers |-> NoReport]

HandlerTypeOK ==
  /\ hpc \in [Handlers -> HandlerSteps]
  /\ body \in [Handlers -> Reports \cup {NoReport}]
  /\ \A h \in Handlers : hpc[h] # "idle" => body[h] \in Reports

GoTo(h, step) == hpc' = [hpc EXCEPT ![h] = step] /\ UNCHANGED body

Respond(h) ==
  /\ hpc' = [hpc EXCEPT ![h] = "idle"]
  /\ body' = [body EXCEPT ![h] = NoReport]

\* The server's process ends: so do its handlers.
HandlersGone ==
  /\ hpc' = [h \in Handlers |-> "idle"]
  /\ body' = [h \in Handlers |-> NoReport]

-----------------------------------------------------------------------------
\* A report arrives and the contract knows the request it is for.
ReceiveReport(h) ==
  /\ hpc[h] = "idle"
  /\ \E x \in Reports :
       /\ x.requestId \notin BenchIds
       /\ body' = [body EXCEPT ![h] = x]
  /\ hpc' = [hpc EXCEPT ![h] = "checkSender"]
  /\ UNCHANGED storeVars

\* isWhiteListed asks the contract, whose list may change at any time, and
\* verifySignature checks the body: either answer may come.
CheckSender(h) ==
  /\ hpc[h] = "checkSender"
  /\ \/ GoTo(h, "findReport")
     \/ Respond(h)
  /\ UNCHANGED storeVars

FindReport(h) ==
  /\ hpc[h] = "findReport"
  /\ IF findReport(body[h].requestId, body[h].executor) = {}
     THEN GoTo(h, "count") ELSE Respond(h)
  /\ UNCHANGED storeVars

\* Mutant: reportCount <= threshold
NotAboveThreshold(r) == countExecutorReports(r) <= Threshold[r]

\* reportCount < threshold
BelowThreshold(r) == countExecutorReports(r) < Threshold[r]

CountReports(h) ==
  /\ hpc[h] = "count"
  /\ IF BelowThreshold(body[h].requestId)
     THEN GoTo(h, "insertRequest") ELSE Respond(h)
  /\ UNCHANGED storeVars

InsertRequest(h) ==
  /\ hpc[h] = "insertRequest"
  /\ insertRequest(body[h].requestId)
  /\ GoTo(h, "insertReport")
  /\ UNCHANGED <<executorCollection, merkleCollection, chainRoot, faults>>

InsertReport(h) ==
  /\ hpc[h] = "insertReport"
  /\ insertExecutorReport(body[h])
  /\ Respond(h)
  /\ UNCHANGED <<requestCollection, merkleCollection, chainRoot, faults>>

\* insertOne meets the _id of a report stored meanwhile: 400 to the executor.
RefuseDuplicate(h) ==
  /\ hpc[h] = "insertReport"
  /\ findReport(body[h].requestId, body[h].executor) # {}
  /\ Respond(h)
  /\ UNCHANGED storeVars

\* An awaited call throws: the handler answers with an error and ends.
HandlerFails(h) ==
  /\ hpc[h] # "idle"
  /\ Fault
  /\ Respond(h)
  /\ UNCHANGED <<executorCollection, requestCollection, merkleCollection,
                 chainRoot>>

\* TestnetController.submitReport: a document under a random id; the report
\* itself goes to the benchmark contract's database.
BenchmarkPost(r) ==
  /\ requestCollection[r] = "absent"
  /\ insertRequest(r)
  /\ UNCHANGED <<executorCollection, merkleCollection, chainRoot, faults,
                 handlerVars>>

HandlerNext ==
  \/ \E h \in Handlers :
       \/ ReceiveReport(h)
       \/ CheckSender(h)
       \/ FindReport(h)
       \/ CountReports(h)
       \/ InsertRequest(h)
       \/ InsertReport(h)
       \/ RefuseDuplicate(h)
       \/ HandlerFails(h)
  \/ \E r \in BenchIds : BenchmarkPost(r)
=============================================================================
