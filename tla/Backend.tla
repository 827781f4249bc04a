------------------------------ MODULE Backend ------------------------------
(***************************************************************************)
(* The backend as deployed: the API server with its POST handlers, the     *)
(* interval workers (one inside the server when RUN_INTERVAL = '1', others *)
(* started by `commander interval`), the database they share and the       *)
(* contract.  Processes interleave at every awaited call, may crash at any *)
(* point and are restarted (restart: on-failure), and any call may fail.   *)
(***************************************************************************)
EXTENDS ReportController, IntervalService

CONSTANTS
  Embedded,       \* the workers that run inside the API server's process
  ExternalOwner   \* whether someone else registers roots on-chain

ASSUME BackendAssumption ==
  /\ Embedded \subseteq Workers
  /\ ExternalOwner \in BOOLEAN

vars == <<storeVars, handlerVars, workerVars>>

Init == StoreInit /\ HandlerInit /\ WorkerInit

TypeOK == StoreTypeOK /\ HandlerTypeOK /\ WorkerTypeOK

\* How many reports a root covers: the threshold, or what a query can return.
Leaves(r) == Lesser(Threshold[r], MAX_LIMIT)

-----------------------------------------------------------------------------
\* External: the holder of the contract's admin key registers the root of
\* enough stored reports, as the branch for a root that already exists on
\* the chain (interval.service.ts:89) expects.
OwnerRegisters(r) ==
  /\ ExternalOwner
  /\ chainRoot[r] = NoRoot
  /\ \E S \in SUBSET ReportsOf(r) :
       /\ Cardinality(S) = Leaves(r)
       /\ chainRoot' = [chainRoot EXCEPT ![r] = S]
  /\ UNCHANGED <<executorCollection, requestCollection, merkleCollection, faults>>
  /\ UNCHANGED <<handlerVars, workerVars>>

\* SIGTERM or a crash of the server: handlers and embedded workers are gone,
\* and after the restart the worker begins with the base gas price.
ServerCrash ==
  /\ Fault
  /\ HandlersGone
  /\ wpc' = [w \in Workers |-> IF w \in Embedded THEN "sleep" ELSE wpc[w]]
  /\ todo' = [w \in Workers |-> IF w \in Embedded THEN {} ELSE todo[w]]
  /\ cur' = [w \in Workers |-> IF w \in Embedded THEN NoRequest ELSE cur[w]]
  /\ batch' = [w \in Workers |-> IF w \in Embedded THEN {} ELSE batch[w]]
  /\ surplus' = [w \in Workers |-> IF w \in Embedded THEN 0 ELSE surplus[w]]
  /\ outbox' = [w \in Workers |-> IF w \in Embedded THEN {} ELSE outbox[w]]
  /\ gas' = [w \in Workers |-> IF w \in Embedded THEN 0 ELSE gas[w]]
  /\ UNCHANGED <<executorCollection, requestCollection, merkleCollection,
                 chainRoot>>

IntervalCrash(w) ==
  /\ w \notin Embedded
  /\ Fault
  /\ EndRound(w, 0)
  /\ UNCHANGED <<executorCollection, requestCollection, merkleCollection,
                 chainRoot, handlerVars>>

WorkerNext ==
  /\ \E w \in Workers : WorkerStep(w) \/ WorkerFault(w)
  /\ UNCHANGED handlerVars

Next ==
  \/ HandlerNext /\ UNCHANGED workerVars
  \/ WorkerNext
  \/ \E r \in Requests \ BenchIds : OwnerRegisters(r)
  \/ ServerCrash
  \/ \E w \in Workers : IntervalCrash(w)

Spec == Init /\ [][Next]_vars

\* A worker that is not interrupted goes on: its awaits return and its
\* setTimeout fires.  Nothing is assumed of executors, of handlers or of the
\* owner; faults are finitely many (MaxFaults).
FairSpec ==
  /\ Spec
  /\ \A w \in Workers : WF_vars(WorkerStep(w) /\ UNCHANGED handlerVars)

-----------------------------------------------------------------------------
(* Safety, whatever the number of workers *)

\* Handlers that passed the count of submitReport still insert when the
\* threshold has been reached meanwhile: the reports beyond it are at most
\* the other handlers in flight, counting those that will still insert.
Inserting(r) ==
  {h \in Handlers : /\ hpc[h] \in {"insertRequest", "insertReport"}
                    /\ body[h].requestId = r}

OvershootBounded ==
  \A r \in Requests :
    countExecutorReports(r) + Cardinality(Inserting(r))
      <= Threshold[r] + Cardinality(Handlers) - 1

\* What processSubmittedRequest is for: a request it marks as submitted has
\* leaves in the database from which ProofController can build proofs, even
\* with several workers, failed calls and crashes between the two writes.
\* Requests that bulkUpdateRequests closes are not among them ("registered"):
\* they have an empty root and no leaves.
RootsFor(r) == {S \in StoredRoots : S # NoRoot /\ S \subseteq Reports
                                    /\ \A x \in S : x.requestId = r}

SubmittedHasLeaves ==
  \A r \in Requests : requestCollection[r] = "submitted" => RootsFor(r) # {}

\* processUnsubmittedRequests marks a request only when the root of its
\* transaction is stored, also when some of the parallel inserts fail or the
\* process dies before bulkWrite.  That root is always the empty one, since
\* `data.merkle_root || newRoot` is truthy as soon as a query returned a
\* report: a request reaches the transaction path when another worker trimmed
\* its reports between the count and the query.
RegisteredHasRoot ==
  \A r \in Requests : requestCollection[r] = "registered" => NoRoot \in StoredRoots

\* A request that was taken up is never dropped or reopened:
\* removeRedundantRequests, run after a lookup that is stale by then, must
\* not delete a request that is open or submitted.
Rank(status) ==
  CASE status = "absent" -> 0
    [] status = "unsubmitted" -> 1
    [] status = "submitted" -> 2
    [] status = "registered" -> 3

RequestNeverForgotten ==
  [][\A r \in Requests :
       Rank(requestCollection[r]) <= Rank(requestCollection'[r])]_vars

-----------------------------------------------------------------------------
(* One worker *)

OneWorker == \A v, w \in Workers : v = w

\* What the only worker knows at an await.  Handlers may add reports and
\* open requests meanwhile, but nobody else trims, stores or submits.
Alone(w) ==
  /\ wpc[w] \notin TxSteps \cup {"remove"}
  /\ outbox[w] = {}
  /\ \A r \in todo[w] : requestCollection[r] = "unsubmitted"
  /\ wpc[w] \in LoopSteps \cup SubmittedSteps
       => requestCollection[cur[w]] = "unsubmitted" /\ cur[w] \notin todo[w]
  /\ wpc[w] = "query" => countExecutorReports(cur[w]) >= Threshold[cur[w]]
  /\ wpc[w] = "querySurplus"
       => countExecutorReports(cur[w]) >= Threshold[cur[w]] + surplus[w]
  /\ wpc[w] = "deleteSurplus"
       => /\ batch[w] \subseteq ReportsOf(cur[w])
          /\ countExecutorReports(cur[w]) >= Threshold[cur[w]] + Cardinality(batch[w])
  /\ wpc[w] \in {"getRequest"} \cup SubmittedSteps
       => /\ batch[w] \subseteq ReportsOf(cur[w])
          /\ Cardinality(batch[w]) = Leaves(cur[w])
  /\ wpc[w] = "insertRoot" => batch[w] \notin StoredRoots

\* Nothing the only worker counted, queried or looked up is stale when it
\* acts on it: it trims no more than the surplus, stores a root of the
\* agreed size of reports that are still there, only of open requests, and
\* never sends a transaction.
AloneControl == \A w \in Workers : Alone(w)

\* findMerkleRoot before insertMerkleRoot keeps the roots distinct.
NoDuplicateRoots ==
  \A i, j \in DOMAIN merkleCollection :
    merkleCollection[i] = merkleCollection[j] => i = j

\* The ledger's view of the database.
accepted == [r \in Requests |-> ReportsOf(r)]
certified == [r \in Requests |-> RootsFor(r)]
sealed == {r \in Requests : IsSubmitted(r)}

Ledger == INSTANCE RequestLedger WITH
  Stages <- Requests,
  Entries <- Reports,
  Needed <- Threshold,
  Covered <- [r \in Requests |-> Leaves(r)],
  Overshoot <- Cardinality(Handlers) - 1

\* The backend with one worker keeps the promises of RequestLedger.
LedgerSpec == Ledger!Spec

-----------------------------------------------------------------------------
(* Liveness *)

\* submitReportInterval picks up a request once enough reports are stored,
\* through surplus reports, failures and crashes, when its round can see
\* every request.
EnoughReportsSubmitted ==
  \A r \in Requests \ BenchIds :
    countExecutorReports(r) >= Threshold[r]
      ~> IsSubmitted(r) \/ chainRoot[r] # NoRoot

\* A request that findUnsubmittedRequests keeps returning does not keep its
\* threshold of reports for ever: it leaves the window submitted.
WindowDrains ==
  \A r \in Requests :
    ~ <>[](/\ r \in findUnsubmittedRequests
           /\ countExecutorReports(r) >= Threshold[r]
           /\ chainRoot[r] = NoRoot)

\* A root the owner registers for the reports a request holds is taken over
\* by a later round, and its leaves are stored for the proofs: it does not
\* stay aside for ever unless the reports change, after which the two roots
\* differ and every round skips the request (interval.service.ts:141).
RegisteredRootTaken ==
  \A r \in Requests :
    ~ <>[](/\ chainRoot[r] # NoRoot
           /\ chainRoot[r] = ReportsOf(r)
           /\ ~ (IsSubmitted(r) /\ chainRoot[r] \in StoredRoots))

-----------------------------------------------------------------------------
(* What comments of the code say and the code does not do *)

\* "only store root on backend after successfully store on-chain"
\* (interval.service.ts:193)
StoredRootIsOnChain ==
  \A root \in StoredRoots : \E r \in Requests : chainRoot[r] = root

\* "update the reports so they have equal threshold"
\* (interval.service.ts:118): a trim never goes below the threshold.
TrimKeepsThreshold ==
  [][\A r \in Requests :
       countExecutorReports(r) >= Threshold[r]
         => countExecutorReports(r)' >= Threshold[r]]_vars
=============================================================================
