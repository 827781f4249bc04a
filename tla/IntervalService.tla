-------------------------- MODULE IntervalService --------------------------
(***************************************************************************)
(* The interval loop that turns a request's reports into a merkle root.    *)
(* A worker is one process running it: the API server itself (main.ts,     *)
(* RUN_INTERVAL = '1') or the stand-alone `commander interval`.  A round   *)
(* is submitReportInterval; every awaited call of it is one action, and    *)
(* what the call returned stays in the worker while others run.            *)
(***************************************************************************)
EXTENDS OracleStore

CONSTANTS
  Workers,     \* the processes that run the interval loop
  NoRequest,   \* cur of a worker between two requests
  GasCap       \* bound: how often a worker's gas price is raised (0: the RPC
               \* client's errors carry no status, so it never is)

ASSUME WorkerAssumption ==
  /\ NoRequest \notin Requests
  /\ GasCap \in Nat

VARIABLES
  wpc,      \* the await each worker is at
  todo,     \* requests the round's loop (or the writes after it) still has
  cur,      \* requestId of the loop's current iteration
  batch,    \* the reports the last report query returned
  surplus,  \* numRedundant
  outbox,   \* requestsData and msgs: the roots to send in a transaction
  gas       \* gasPrices, in steps of 0.002 above BASE_GAS_PRICES

localVars == <<todo, cur, batch, surplus, outbox>>
workerVars == <<wpc, localVars, gas>>

SubmittedSteps == {"findRoot", "insertRoot", "findRequest", "updateStatus"}
TxSteps == {"execute", "storeRoots", "storeRest", "bulkUpdate"}
LoopSteps == {"count", "query", "getRequest", "findSubmitted", "remove",
              "querySurplus", "deleteSurplus"}
WorkerSteps == {"sleep", "loop"} \cup LoopSteps \cup SubmittedSteps \cup TxSteps

Trees == [requestId : Requests, root : Roots]
Ids(T) == {t.requestId : t \in T}

WorkerInit ==
  /\ wpc = [w \in Workers |-> "sleep"]
  /\ todo = [w \in Workers |-> {}]
  /\ cur = [w \in Workers |-> NoRequest]
  /\ batch = [w \in Workers |-> {}]
  /\ surplus = [w \in Workers |-> 0]
  /\ outbox = [w \in Workers |-> {}]
  /\ gas = [w \in Workers |-> 0]

WorkerTypeOK ==
  /\ wpc \in [Workers -> WorkerSteps]
  /\ todo \in [Workers -> SUBSET Requests]
  /\ cur \in [Workers -> Requests \cup {NoRequest}]
  /\ batch \in [Workers -> Roots]
  /\ surplus \in [Workers -> Nat]
  /\ outbox \in [Workers -> SUBSET Trees]
  /\ gas \in [Workers -> 0..GasCap]

\* What a worker knows at an await.  Between findMerkleRoot and the update of
\* the status the root is one of this request's reports and is stored; and a
\* request found submitted before removeRedundantRequests still is.
Control(w) ==
  /\ wpc[w] \in LoopSteps \cup SubmittedSteps => cur[w] \in Requests
  /\ wpc[w] \in SubmittedSteps \cup {"getRequest"}
       => \A x \in batch[w] : x.requestId = cur[w]
  /\ wpc[w] \in SubmittedSteps => batch[w] # NoRoot
  /\ wpc[w] \in {"findRequest", "updateStatus"} => batch[w] \in StoredRoots
  /\ wpc[w] = "remove" => IsSubmitted(cur[w])

WorkerControl == \A w \in Workers : Control(w)

-----------------------------------------------------------------------------
\* Control flow: the next await, the next iteration, the end of the round.

At(w, step) == wpc' = [wpc EXCEPT ![w] = step]

Await(w, step) ==
  At(w, step) /\ UNCHANGED <<todo, cur, surplus, outbox, gas>>

Continue(w) ==
  /\ At(w, "loop")
  /\ cur' = [cur EXCEPT ![w] = NoRequest]
  /\ batch' = [batch EXCEPT ![w] = {}]
  /\ surplus' = [surplus EXCEPT ![w] = 0]
  /\ UNCHANGED <<todo, gas>>

EndRound(w, price) ==
  /\ At(w, "sleep")
  /\ todo' = [todo EXCEPT ![w] = {}]
  /\ cur' = [cur EXCEPT ![w] = NoRequest]
  /\ batch' = [batch EXCEPT ![w] = {}]
  /\ surplus' = [surplus EXCEPT ![w] = 0]
  /\ outbox' = [outbox EXCEPT ![w] = {}]
  /\ gas' = [gas EXCEPT ![w] = price]

-----------------------------------------------------------------------------
\* The loop of submitReportInterval

StartRound(w) ==
  /\ wpc[w] = "sleep"
  /\ IF findUnsubmittedRequests = {}
     THEN EndRound(w, 0)
     ELSE /\ At(w, "loop")
          /\ todo' = [todo EXCEPT ![w] = findUnsubmittedRequests]
          /\ UNCHANGED <<cur, batch, surplus, outbox, gas>>
  /\ UNCHANGED storeVars

NextRequest(w) ==
  /\ wpc[w] = "loop"
  /\ \E r \in todo[w] :
       /\ \A q \in todo[w] : q <= r
       /\ cur' = [cur EXCEPT ![w] = r]
       /\ todo' = [todo EXCEPT ![w] = @ \ {r}]
  /\ At(w, "count")
  /\ UNCHANGED <<batch, surplus, outbox, gas>>
  /\ UNCHANGED storeVars

\* Mutants: the difference the wrong way round, and no difference at all.
SurplusSwapped(w) == Threshold[cur[w]] - countExecutorReports(cur[w])
SurplusAll(w) == countExecutorReports(cur[w])

\* numRedundant
Surplus(w) == countExecutorReports(cur[w]) - Threshold[cur[w]]

CountStored(w) ==
  /\ wpc[w] = "count"
  /\ LET reportCount == countExecutorReports(cur[w])
         threshold == Threshold[cur[w]]
     IN \/ /\ reportCount = threshold
           /\ At(w, "query")
           /\ UNCHANGED surplus
        \/ /\ reportCount < threshold
           /\ At(w, "findSubmitted")
           /\ UNCHANGED surplus
        \/ /\ reportCount > threshold
           /\ At(w, "querySurplus")
           /\ surplus' = [surplus EXCEPT ![w] = Surplus(w)]
  /\ UNCHANGED <<todo, cur, batch, outbox, gas>>
  /\ UNCHANGED storeVars

QueryReports(w) ==
  /\ wpc[w] = "query"
  /\ \E S \in queryExecutorReportsWithThreshold(cur[w], Threshold[cur[w]]) :
       batch' = [batch EXCEPT ![w] = S]
  /\ Await(w, "getRequest")
  /\ UNCHANGED storeVars

\* The root to submit: data.merkle_root || newRoot.
RootOf(w) ==
  IF chainRoot[cur[w]] # NoRoot THEN chainRoot[cur[w]] ELSE batch[w]

\* if (root)
HasRoot(w) == RootOf(w) # NoRoot

CompareRoot(w) ==
  /\ wpc[w] = "getRequest"
  /\ \/ /\ ~HasRoot(w)
        /\ outbox' = [outbox EXCEPT ![w] =
                        @ \cup {[requestId |-> cur[w], root |-> RootOf(w)]}]
        /\ Continue(w)
     \/ /\ HasRoot(w)
        /\ RootOf(w) # batch[w]   \* inconsistent: skip this request
        /\ Continue(w)
        /\ UNCHANGED outbox
     \/ /\ HasRoot(w)
        /\ RootOf(w) = batch[w]
        /\ Await(w, "findRoot")
        /\ UNCHANGED batch
  /\ UNCHANGED storeVars

FindSubmitted(w) ==
  /\ wpc[w] = "findSubmitted"
  /\ IF IsSubmitted(cur[w])
     THEN Await(w, "remove") /\ UNCHANGED batch
     ELSE Continue(w) /\ UNCHANGED outbox
  /\ UNCHANGED storeVars

RemoveRedundant(w) ==
  /\ wpc[w] = "remove"
  /\ removeRedundantRequests(cur[w])
  /\ Continue(w)
  /\ UNCHANGED outbox
  /\ UNCHANGED <<executorCollection, merkleCollection, chainRoot, faults>>

QuerySurplus(w) ==
  /\ wpc[w] = "querySurplus"
  /\ \E S \in queryExecutorReportsWithThreshold(cur[w], surplus[w]) :
       batch' = [batch EXCEPT ![w] = S]
  /\ Await(w, "deleteSurplus")
  /\ UNCHANGED storeVars

DeleteSurplus(w) ==
  /\ wpc[w] = "deleteSurplus"
  /\ deleteReports(cur[w], batch[w])
  /\ Continue(w)
  /\ UNCHANGED outbox
  /\ UNCHANGED <<requestCollection, merkleCollection, chainRoot, faults>>

-----------------------------------------------------------------------------
\* processSubmittedRequest, past the comparison of the roots

\* Mutants: the test negated, and left out.
RootFound(w) == batch[w] \in StoredRoots
RootIgnored(w) == TRUE

\* if (!merkleRoot)
RootMissing(w) == batch[w] \notin StoredRoots

FindMerkleRoot(w) ==
  /\ wpc[w] = "findRoot"
  /\ Await(w, IF RootMissing(w) THEN "insertRoot" ELSE "findRequest")
  /\ UNCHANGED batch
  /\ UNCHANGED storeVars

InsertMerkleRoot(w) ==
  /\ wpc[w] = "insertRoot"
  /\ insertMerkleRoot(batch[w])
  /\ Await(w, "findRequest")
  /\ UNCHANGED batch
  /\ UNCHANGED <<executorCollection, requestCollection, chainRoot, faults>>

\* findRequest only finds unsubmitted documents; taking `submitted` from its
\* null answer throws, and the catch ends the iteration.
FindRequest(w) ==
  /\ wpc[w] = "findRequest"
  /\ IF requestCollection[cur[w]] = "unsubmitted"
     THEN Await(w, "updateStatus") /\ UNCHANGED batch
     ELSE Continue(w) /\ UNCHANGED outbox
  /\ UNCHANGED storeVars

UpdateStatus(w) ==
  /\ wpc[w] = "updateStatus"
  /\ updateReportsStatus(cur[w])
  /\ Continue(w)
  /\ UNCHANGED outbox
  /\ UNCHANGED <<executorCollection, merkleCollection, chainRoot, faults>>

SubmittedRequestFails(w) ==
  /\ wpc[w] \in SubmittedSteps
  /\ Continue(w)
  /\ UNCHANGED outbox

-----------------------------------------------------------------------------
\* After the loop: processUnsubmittedRequests if there is something to send

FinishLoop(w) ==
  /\ wpc[w] = "loop"
  /\ todo[w] = {}
  /\ outbox[w] = {}
  /\ EndRound(w, 0)
  /\ UNCHANGED storeVars

\* broadcastMerkleRoot sends outbox to the websocket clients; then execute.
Broadcast(w) ==
  /\ wpc[w] = "loop"
  /\ todo[w] = {}
  /\ outbox[w] # {}
  /\ At(w, "execute")
  /\ UNCHANGED <<localVars, gas>>
  /\ UNCHANGED storeVars

\* The contract takes all messages of a transaction or none, and none for a
\* request that has its merkle root.
Commit(T) ==
  /\ \A t \in T : chainRoot[t.requestId] = NoRoot
  /\ chainRoot' = [r \in Requests |->
                     IF r \in Ids(T)
                     THEN (CHOOSE t \in T : t.requestId = r).root
                     ELSE chainRoot[r]]

ExecuteCommitted(w) ==
  /\ wpc[w] = "execute"
  /\ Commit(outbox[w])
  /\ At(w, "storeRoots")
  /\ todo' = [todo EXCEPT ![w] = Ids(outbox[w])]
  /\ UNCHANGED <<cur, batch, surplus, outbox, gas>>
  /\ UNCHANGED <<executorCollection, requestCollection, merkleCollection, faults>>

\* executeMultiple throws: rejected, or committed and the answer lost.  The
\* error is swallowed, so the round still counts as successful.
ExecuteThrows(w) ==
  /\ wpc[w] = "execute"
  /\ \/ UNCHANGED <<chainRoot, faults>>
     \/ Fault /\ Commit(outbox[w])
  /\ EndRound(w, 0)
  /\ UNCHANGED <<executorCollection, requestCollection, merkleCollection>>

\* Promise.all over insertMerkleRoot: the writes land in any order, and those
\* still under way land after one of them failed ("storeRest").
StoreRoot(w) ==
  /\ wpc[w] \in {"storeRoots", "storeRest"}
  /\ \E t \in outbox[w] :
       /\ t.requestId \in todo[w]
       /\ insertMerkleRoot(t.root)
       /\ todo' = [todo EXCEPT ![w] = @ \ {t.requestId}]
  /\ UNCHANGED <<wpc, cur, batch, surplus, outbox, gas>>
  /\ UNCHANGED <<executorCollection, requestCollection, chainRoot, faults>>

StoreRootFails(w) ==
  /\ wpc[w] \in {"storeRoots", "storeRest"}
  /\ \E r \in todo[w] : todo' = [todo EXCEPT ![w] = @ \ {r}]
  /\ At(w, "storeRest")
  /\ UNCHANGED <<cur, batch, surplus, outbox, gas>>

\* Mutant: Promise.allSettled, which a failed insert does not reject.
InsertsSettled(w) == wpc[w] \in {"storeRoots", "storeRest"}

\* Promise.all resolves: no insert has failed.
InsertsDone(w) == wpc[w] = "storeRoots"

RootsStored(w) ==
  /\ wpc[w] \in {"storeRoots", "storeRest"}
  /\ todo[w] = {}
  /\ IF InsertsDone(w)
     THEN /\ At(w, "bulkUpdate")
          /\ todo' = [todo EXCEPT ![w] = Ids(outbox[w])]
          /\ UNCHANGED <<cur, batch, surplus, outbox, gas>>
     ELSE EndRound(w, 0)
  /\ UNCHANGED storeVars

BulkUpdate(w) ==
  /\ wpc[w] = "bulkUpdate"
  /\ \E r \in todo[w] :
       /\ \A q \in todo[w] : q <= r
       /\ bulkUpdateRequest(r)
       /\ IF todo[w] = {r}
          THEN EndRound(w, 0)
          ELSE /\ todo' = [todo EXCEPT ![w] = @ \ {r}]
               /\ UNCHANGED <<wpc, cur, batch, surplus, outbox, gas>>
  /\ UNCHANGED <<executorCollection, merkleCollection, chainRoot, faults>>

BulkUpdateFails(w) ==
  /\ wpc[w] = "bulkUpdate"
  /\ EndRound(w, 0)

-----------------------------------------------------------------------------
\* A call outside every try of the round throws: runInterval catches it.  The
\* price rises if the error has a field status of 400, which of these calls
\* only the contract query may answer with, and only under an RPC client that
\* copies the status of the answer to its error: GasCap = 0 is one that does not.
RoundFails(w) ==
  /\ wpc[w] \in {"sleep"} \cup LoopSteps
  /\ \E price \in {gas[w], gas[w] + 1} :
       /\ price = gas[w] + 1 => wpc[w] = "getRequest" /\ price <= GasCap
       /\ EndRound(w, price)

\* The steps a running worker takes by itself.
WorkerStep(w) ==
  \/ StartRound(w)
  \/ NextRequest(w)
  \/ CountStored(w)
  \/ QueryReports(w)
  \/ CompareRoot(w)
  \/ FindSubmitted(w)
  \/ RemoveRedundant(w)
  \/ QuerySurplus(w)
  \/ DeleteSurplus(w)
  \/ FindMerkleRoot(w)
  \/ InsertMerkleRoot(w)
  \/ FindRequest(w)
  \/ UpdateStatus(w)
  \/ FinishLoop(w)
  \/ Broadcast(w)
  \/ ExecuteCommitted(w)
  \/ ExecuteThrows(w)
  \/ StoreRoot(w)
  \/ RootsStored(w)
  \/ BulkUpdate(w)

\* A call of it throws: the store stays as it is.
WorkerFault(w) ==
  /\ \/ SubmittedRequestFails(w)
     \/ StoreRootFails(w)
     \/ BulkUpdateFails(w)
     \/ RoundFails(w)
  /\ Fault
  /\ UNCHANGED <<executorCollection, requestCollection, merkleCollection,
                 chainRoot>>
=============================================================================
