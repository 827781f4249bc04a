---------------------------- MODULE OracleStore ----------------------------
(***************************************************************************)
(* The state the backend's processes share: the three MongoDB collections  *)
(* of one contract's database, and the merkle roots the contract keeps     *)
(* on-chain.  The repository classes of packages/backend/src/repositories  *)
(* become one operator per method: a query is the value (or the set of the *)
(* values) it may return, an update is an action on its collection.  Every *)
(* MongoDB call is one atomic step, since a single-document operation is.  *)
(*                                                                         *)
(* A merkle root is the hash of the sorted leaves (MerkleProofTree is      *)
(* built with sort: true), so with collision-free hashing a root stands    *)
(* for the SET of reports it was formed from and formTree is the identity  *)
(* on that set.  The empty set is the root of a tree without leaves, which *)
(* getHexRoot renders as '', the same falsy string as the contract's       *)
(* merkle_root before a root is registered.                                *)
(***************************************************************************)
EXTENDS Naturals, FiniteSets, Sequences

CONSTANTS
  Requests,    \* request ids (stages of the contract), ordered numbers
  BenchIds,    \* the ids TestnetController may draw, unknown to the contract
  Executors,   \* executor addresses
  Data,        \* payloads of a report (data and signature)
  Threshold,   \* Threshold[r]: the threshold the contract holds for r
  MAX_LIMIT,   \* cap of a report query (20 in the code)
  WINDOW,      \* requests one round takes up (10 in the code)
  MaxFaults    \* bound: how many faults (errors, crashes) a behaviour has

ASSUME StoreAssumption ==
  /\ Requests \subseteq Nat
  /\ IsFiniteSet(Requests)
  /\ BenchIds \subseteq Requests
  /\ Threshold \in [Requests -> Nat \ {0}]
  /\ MAX_LIMIT \in Nat \ {0}
  /\ WINDOW \in Nat \ {0}
  /\ MaxFaults \in Nat

VARIABLES
  executorCollection,  \* "executors": the stored reports
  requestCollection,   \* "requests": the state of each request's document
  merkleCollection,    \* "merkle_roots": the documents, in insertion order
  chainRoot,           \* the contract's merkle_root of each request
  faults               \* how many faults have happened

storeVars ==
  <<executorCollection, requestCollection, merkleCollection, chainRoot, faults>>

(***************************************************************************)
(* Documents.  A request document is absent, unsubmitted (no submitted     *)
(* field), submitted (updateReportsStatus) or registered (submitted with   *)
(* the txhash and merkleRoot of bulkUpdateRequests).                       *)
(***************************************************************************)
Reports == [requestId : Requests, executor : Executors, data : Data]
Roots == SUBSET Reports
NoRoot == {}
Statuses == {"absent", "unsubmitted", "submitted", "registered"}

IsSubmitted(r) == requestCollection[r] \in {"submitted", "registered"}
StoredRoots == {merkleCollection[i] : i \in DOMAIN merkleCollection}

Lesser(m, n) == IF m < n THEN m ELSE n

-----------------------------------------------------------------------------
\* ExecutorRepository

ReportsOf(r) == {x \in executorCollection : x.requestId = r}

findReport(r, e) == {x \in ReportsOf(r) : x.executor = e}

countExecutorReports(r) == Cardinality(ReportsOf(r))

\* Mutant: the query without its cap.
LeafLimitUncapped(n) == n

LeafLimit(n) == IF n > MAX_LIMIT THEN MAX_LIMIT ELSE n

\* The query has no sort, so any LeafLimit(n) of the request's reports.
queryExecutorReportsWithThreshold(r, n) ==
  {S \in SUBSET ReportsOf(r) :
     Cardinality(S) = Lesser(LeafLimit(n), countExecutorReports(r))}

\* Mutant: insertOne under a generated _id.
insertExecutorReportAnyId(x) ==
  executorCollection' = executorCollection \cup {x}

\* insertOne under the unique _id "requestId-executor".
insertExecutorReport(x) ==
  /\ findReport(x.requestId, x.executor) = {}
  /\ executorCollection' = executorCollection \cup {x}

\* deleteMany of the _ids collected by the preceding query.
deleteReports(r, S) ==
  executorCollection' =
    executorCollection \ UNION {findReport(r, x.executor) : x \in S}

-----------------------------------------------------------------------------
\* RequestRepository

SetStatus(r, s) == requestCollection' = [requestCollection EXCEPT ![r] = s]

\* Upsert with $setOnInsert: an existing document is left alone.
insertRequest(r) ==
  IF requestCollection[r] = "absent"
  THEN SetStatus(r, "unsubmitted") ELSE UNCHANGED requestCollection

Unsubmitted == {r \in Requests : requestCollection[r] = "unsubmitted"}

\* sort({_id: -1}).limit(10): the newest unsubmitted requests.
findUnsubmittedRequests ==
  {r \in Unsubmitted : Cardinality({q \in Unsubmitted : q > r}) < WINDOW}

\* Mutant: the filter matches no document.
updateReportsStatusMisses(r) == UNCHANGED requestCollection

\* updateOne({_id, requestId}, {submitted: true}).
updateReportsStatus(r) ==
  IF requestCollection[r] = "unsubmitted"
  THEN SetStatus(r, "submitted") ELSE UNCHANGED requestCollection

\* Mutant: deleteMany({requestId}).
removeRequests(r) == SetStatus(r, "absent")

\* deleteMany({requestId, submitted: null}).
removeRedundantRequests(r) ==
  IF requestCollection[r] = "unsubmitted"
  THEN SetStatus(r, "absent") ELSE UNCHANGED requestCollection

\* bulkWrite: one updateOne, without upsert, per request, in order; no
\* transaction holds them together, so this is the write of one of them.
bulkUpdateRequest(r) ==
  IF requestCollection[r] # "absent"
  THEN SetStatus(r, "registered") ELSE UNCHANGED requestCollection

-----------------------------------------------------------------------------
\* MerkleRepository: insertOne under a generated _id, so never refused.

insertMerkleRoot(root) == merkleCollection' = Append(merkleCollection, root)

-----------------------------------------------------------------------------
\* The contract and the environment

Fault == faults < MaxFaults /\ faults' = faults + 1

StoreInit ==
  /\ executorCollection = {}
  /\ requestCollection = [r \in Requests |-> "absent"]
  /\ merkleCollection = <<>>
  /\ chainRoot = [r \in Requests |-> NoRoot]
  /\ faults = 0

StoreTypeOK ==
  /\ executorCollection \subseteq Reports
  /\ IsFiniteSet(executorCollection)
  /\ requestCollection \in [Requests -> Statuses]
  /\ merkleCollection \in Seq(Roots)
  /\ chainRoot \in [Requests -> Roots]
  /\ faults \in 0..MaxFaults

-----------------------------------------------------------------------------
(* Property *)

\* "request ID + executor should be unique" (executor.repository.ts:96):
\* handlers that both passed findReport store one report of an executor.
UniqueReport ==
  \A x, y \in executorCollection :
    x.requestId = y.requestId /\ x.executor = y.executor => x = y
=============================================================================
