--------------------------- MODULE Backend_proofs ---------------------------
(***************************************************************************)
(* What holds of Backend for any number of requests, executors, handlers   *)
(* and workers, any thresholds, and any bound on the faults; and what more *)
(* holds with one worker.                                                  *)
(***************************************************************************)
EXTENDS Backend, ReportController_proofs

-----------------------------------------------------------------------------
(* The operators of the store *)

\* Reports that a query returns are stored reports of the request.
LEMMA QueryType ==
  ASSUME StoreTypeOK, NEW r, NEW n,
         NEW S \in queryExecutorReportsWithThreshold(r, n)
  PROVE  S \in Roots /\ \A x \in S : x.requestId = r
BY DEF StoreTypeOK, queryExecutorReportsWithThreshold, ReportsOf, Roots

\* A merkle root that is inserted is stored, and so is what was stored before.
LEMMA StoredGrows ==
  ASSUME StoreTypeOK, NEW root \in Roots, insertMerkleRoot(root)
  PROVE  /\ StoredRoots' = StoredRoots \cup {root}
         /\ merkleCollection' \in Seq(Roots)
BY DEF StoreTypeOK, insertMerkleRoot, StoredRoots

\* Writing a status keeps the collection well typed.
LEMMA SetStatusType ==
  ASSUME StoreTypeOK, NEW r, NEW s \in Statuses, SetStatus(r, s)
  PROVE  requestCollection' \in [Requests -> Statuses]
BY DEF StoreTypeOK, SetStatus

\* A committed transaction leaves a root for every request.
LEMMA CommitType ==
  ASSUME StoreTypeOK, NEW T \in SUBSET Trees, Commit(T)
  PROVE  chainRoot' \in [Requests -> Roots]
<1>1. ASSUME NEW r \in Ids(T)
      PROVE  (CHOOSE t \in T : t.requestId = r).root \in Roots
  <2>1. PICK t \in T : t.requestId = r
    BY <1>1 DEF Ids
  <2> QED
    BY <2>1 DEF Trees
<1> QED
  BY <1>1 DEF Commit, StoreTypeOK

-----------------------------------------------------------------------------
(* Type correctness *)

\* The ends of an iteration and of a round keep the workers' types.
LEMMA ContinueTypes ==
  ASSUME WorkerTypeOK, NEW w \in Workers, Continue(w),
         outbox' \in [Workers -> SUBSET Trees]
  PROVE  WorkerTypeOK'
<1>1. {} \in Roots
  BY DEF Roots
<1>2. wpc' \in [Workers -> WorkerSteps]
  BY DEF Continue, At, WorkerTypeOK, WorkerSteps
<1> QED
  BY <1>1, <1>2 DEF Continue, WorkerTypeOK

LEMMA EndRoundTypes ==
  ASSUME WorkerTypeOK, NEW w \in Workers, NEW price \in 0..GasCap,
         EndRound(w, price)
  PROVE  WorkerTypeOK'
<1>1. {} \in Roots
  BY DEF Roots
<1>2. wpc' \in [Workers -> WorkerSteps]
  BY DEF EndRound, At, WorkerTypeOK, WorkerSteps
<1> QED
  BY <1>1, <1>2 DEF EndRound, WorkerTypeOK

\* A worker's step keeps the types of the store and of the workers.
LEMMA WorkerTypes ==
  ASSUME StoreAssumption, WorkerAssumption,
         StoreTypeOK, WorkerTypeOK, WorkerControl,
         NEW w \in Workers, WorkerStep(w)
  PROVE  StoreTypeOK' /\ WorkerTypeOK'
<1> USE DEF WorkerTypeOK, WorkerSteps, LoopSteps, SubmittedSteps, TxSteps
<1> DEFINE Goal == StoreTypeOK' /\ WorkerTypeOK'
<1>0. 0 \in 0..GasCap
  BY DEF WorkerAssumption
<1>1. ASSUME StartRound(w) PROVE Goal
  <2>1. findUnsubmittedRequests \subseteq Requests
    BY DEF findUnsubmittedRequests, Unsubmitted
  <2> QED
    <3>1. StoreTypeOK'
      BY <1>1, StoreFrame DEF StartRound
    <3>2. CASE findUnsubmittedRequests = {}
      BY <1>0, <1>1, <3>1, <3>2, EndRoundTypes DEF StartRound
    <3>3. CASE findUnsubmittedRequests # {}
      <4>1. /\ wpc' = [wpc EXCEPT ![w] = "loop"]
            /\ todo' = [todo EXCEPT ![w] = findUnsubmittedRequests]
            /\ UNCHANGED <<cur, batch, surplus, outbox, gas>>
        BY <1>1, <3>3 DEF StartRound, At
      <4> QED
        BY <2>1, <3>1, <4>1
    <3> QED
      BY <3>2, <3>3
<1>2. ASSUME NextRequest(w) PROVE Goal
  BY <1>2, StoreFrame DEF NextRequest, At
<1>3. ASSUME CountStored(w) PROVE Goal
  <2>1. cur[w] \in Requests
    BY <1>3 DEF CountStored, WorkerControl, Control
  <2>2. countExecutorReports(cur[w]) \in Nat /\ Threshold[cur[w]] \in Nat
    BY <2>1, CountType DEF StoreAssumption
  <2> QED
    BY <1>3, <2>2, StoreFrame DEF CountStored, Surplus, At
<1>4. ASSUME QueryReports(w) PROVE Goal
  <2>1. PICK S \in queryExecutorReportsWithThreshold(cur[w], Threshold[cur[w]]) :
          batch' = [batch EXCEPT ![w] = S]
    BY <1>4 DEF QueryReports
  <2>2. S \in Roots
    BY QueryType
  <2> QED
    BY <1>4, <2>1, <2>2, StoreFrame DEF QueryReports, Await, At
<1>5. ASSUME CompareRoot(w) PROVE Goal
  <2>1. cur[w] \in Requests
    BY <1>5 DEF CompareRoot, WorkerControl, Control
  <2>2. [requestId |-> cur[w], root |-> RootOf(w)] \in Trees
    BY <2>1 DEF RootOf, Trees, StoreTypeOK
  <2> QED
    BY <1>5, <2>2, StoreFrame, ContinueTypes DEF CompareRoot, HasRoot, Await, At
<1>6. ASSUME FindSubmitted(w) PROVE Goal
  BY <1>6, StoreFrame, ContinueTypes DEF FindSubmitted, Await, At
<1>7. ASSUME RemoveRedundant(w) PROVE Goal
  BY <1>7, ContinueTypes DEF RemoveRedundant, removeRedundantRequests, SetStatus,
     Statuses, StoreTypeOK
<1>8. ASSUME QuerySurplus(w) PROVE Goal
  <2>1. PICK S \in queryExecutorReportsWithThreshold(cur[w], surplus[w]) :
          batch' = [batch EXCEPT ![w] = S]
    BY <1>8 DEF QuerySurplus
  <2>2. S \in Roots
    BY QueryType
  <2> QED
    BY <1>8, <2>1, <2>2, StoreFrame DEF QuerySurplus, Await, At
<1>9. ASSUME DeleteSurplus(w) PROVE Goal
  <2>1. executorCollection' \subseteq executorCollection
    BY <1>9 DEF DeleteSurplus, deleteReports
  <2>2. IsFiniteSet(executorCollection')
    BY <2>1, FS_Subset DEF StoreTypeOK
  <2> QED
    BY <1>9, <2>1, <2>2, ContinueTypes DEF DeleteSurplus, StoreTypeOK
<1>10. ASSUME FindMerkleRoot(w) PROVE Goal
  BY <1>10, StoreFrame DEF FindMerkleRoot, Await, At
<1>11. ASSUME InsertMerkleRoot(w) PROVE Goal
  BY <1>11, StoredGrows DEF InsertMerkleRoot, Await, At, StoreTypeOK
<1>12. ASSUME FindRequest(w) PROVE Goal
  BY <1>12, StoreFrame, ContinueTypes DEF FindRequest, Await, At
<1>13. ASSUME UpdateStatus(w) PROVE Goal
  BY <1>13, ContinueTypes DEF UpdateStatus, updateReportsStatus, SetStatus,
     Statuses, StoreTypeOK
<1>14. ASSUME FinishLoop(w) PROVE Goal
  BY <1>0, <1>14, StoreFrame, EndRoundTypes DEF FinishLoop
<1>15. ASSUME Broadcast(w) PROVE Goal
  BY <1>15, StoreFrame DEF Broadcast, At, localVars
<1>16. ASSUME ExecuteCommitted(w) PROVE Goal
  <2>1. Ids(outbox[w]) \subseteq Requests
    BY DEF Ids, Trees
  <2>2. chainRoot' \in [Requests -> Roots]
    BY <1>16, CommitType DEF ExecuteCommitted
  <2> QED
    BY <1>16, <2>1, <2>2 DEF ExecuteCommitted, At, StoreTypeOK
<1>17. ASSUME ExecuteThrows(w) PROVE Goal
  <2>1. chainRoot' \in [Requests -> Roots] /\ faults' \in 0..MaxFaults
    BY <1>17, CommitType DEF ExecuteThrows, Fault, StoreTypeOK, StoreAssumption
  <2> QED
    BY <1>0, <1>17, <2>1, EndRoundTypes DEF ExecuteThrows, StoreTypeOK
<1>18. ASSUME StoreRoot(w) PROVE Goal
  <2>1. PICK t \in outbox[w] : /\ insertMerkleRoot(t.root)
                              /\ todo' = [todo EXCEPT ![w] = @ \ {t.requestId}]
    BY <1>18 DEF StoreRoot
  <2>2. t.root \in Roots
    BY DEF Trees
  <2>3. merkleCollection' \in Seq(Roots)
    BY <2>1, <2>2, StoredGrows
  <2> QED
    BY <1>18, <2>1, <2>3 DEF StoreRoot, StoreTypeOK
<1>19. ASSUME RootsStored(w) PROVE Goal
  <2>1. Ids(outbox[w]) \subseteq Requests
    BY DEF Ids, Trees
  <2> QED
    BY <1>0, <1>19, <2>1, StoreFrame, EndRoundTypes DEF RootsStored, At
<1>20. ASSUME BulkUpdate(w) PROVE Goal
  <2>1. StoreTypeOK'
    BY <1>20 DEF BulkUpdate, bulkUpdateRequest, SetStatus, Statuses, StoreTypeOK
  <2> QED
    BY <1>0, <1>20, <2>1, EndRoundTypes DEF BulkUpdate
<1> QED
  BY <1>1, <1>2, <1>3, <1>4, <1>5, <1>6, <1>7, <1>8, <1>9, <1>10, <1>11, <1>12,
     <1>13, <1>14, <1>15, <1>16, <1>17, <1>18, <1>19, <1>20 DEF WorkerStep

\* So does a fault of a worker.
LEMMA WorkerFaultTypes ==
  ASSUME StoreAssumption, WorkerAssumption, StoreTypeOK, WorkerTypeOK,
         NEW w \in Workers, WorkerFault(w)
  PROVE  StoreTypeOK' /\ WorkerTypeOK'
<1>0. StoreTypeOK'
  BY DEF WorkerFault, Fault, StoreTypeOK, StoreAssumption
<1>1. CASE SubmittedRequestFails(w)
  BY <1>0, <1>1, ContinueTypes DEF SubmittedRequestFails, WorkerTypeOK
<1>2. CASE StoreRootFails(w)
  BY <1>0, <1>2 DEF StoreRootFails, At, WorkerTypeOK, WorkerSteps, TxSteps
<1>3. CASE BulkUpdateFails(w)
  BY <1>0, <1>3, EndRoundTypes DEF BulkUpdateFails, WorkerAssumption
<1>4. CASE RoundFails(w)
  <2>1. PICK price \in 0..GasCap : EndRound(w, price)
    BY <1>4 DEF RoundFails, WorkerTypeOK
  <2> QED
    BY <1>0, <2>1, EndRoundTypes
<1> QED
  BY <1>1, <1>2, <1>3, <1>4 DEF WorkerFault

-----------------------------------------------------------------------------
(* What only grows: stored roots, and the progress of a request *)

Grows ==
  /\ StoredRoots \subseteq StoredRoots'
  /\ \A r \in Requests : Rank(requestCollection[r]) <= Rank(requestCollection'[r])

\* A step that leaves both collections alone.
LEMMA GrowsFrame ==
  ASSUME StoreTypeOK, UNCHANGED <<requestCollection, merkleCollection>>
  PROVE  Grows
BY DEF Grows, StoredRoots, StoreTypeOK, Statuses, Rank

\* A request's document moves up the statuses.
LEMMA GrowsStatus ==
  ASSUME StoreTypeOK, NEW r, NEW s \in Statuses, SetStatus(r, s),
         r \in Requests => Rank(requestCollection[r]) <= Rank(s),
         UNCHANGED merkleCollection
  PROVE  Grows
BY DEF Grows, StoredRoots, StoreTypeOK, SetStatus, Statuses, Rank

\* What is submitted stays submitted.
LEMMA SubmittedStays ==
  ASSUME StoreTypeOK, StoreTypeOK', Grows, NEW r \in Requests, IsSubmitted(r)
  PROVE  IsSubmitted(r)'
BY DEF Grows, IsSubmitted, StoreTypeOK, Statuses, Rank

LEMMA HandlerGrows ==
  ASSUME StoreAssumption, StoreTypeOK, HandlerNext
  PROVE  Grows
<1>1. ASSUME NEW r, insertRequest(r), UNCHANGED merkleCollection
      PROVE  Grows
  <2>1. CASE UNCHANGED requestCollection
    BY <1>1, <2>1, GrowsFrame
  <2>2. CASE requestCollection[r] = "absent" /\ SetStatus(r, "unsubmitted")
    BY <1>1, <2>2, GrowsStatus DEF Statuses, Rank
  <2> QED
    BY <1>1, <2>1, <2>2 DEF insertRequest
<1>2. CASE UNCHANGED <<requestCollection, merkleCollection>>
  BY <1>2, GrowsFrame
<1> QED
  BY <1>1, <1>2 DEF HandlerNext, ReceiveReport, CheckSender, FindReport,
     CountReports, InsertRequest, InsertReport, RefuseDuplicate, HandlerFails,
     BenchmarkPost, storeVars

LEMMA WorkerGrows ==
  ASSUME StoreTypeOK, WorkerTypeOK, WorkerControl,
         NEW w \in Workers, WorkerStep(w) \/ WorkerFault(w)
  PROVE  Grows
<1>1. CASE UNCHANGED <<requestCollection, merkleCollection>>
  BY <1>1, GrowsFrame
<1>2. CASE RemoveRedundant(w)
  <2>1. IsSubmitted(cur[w])
    BY <1>2 DEF RemoveRedundant, WorkerControl, Control
  <2> QED
    BY <1>2, <2>1, GrowsFrame DEF RemoveRedundant, removeRedundantRequests,
       IsSubmitted
<1>3. CASE InsertMerkleRoot(w)
  <2>1. batch[w] \in Roots
    BY DEF WorkerTypeOK
  <2>2. StoredRoots \subseteq StoredRoots'
    BY <1>3, <2>1, StoredGrows DEF InsertMerkleRoot
  <2> QED
    BY <1>3, <2>2 DEF InsertMerkleRoot, Grows, StoreTypeOK, Statuses, Rank
<1>4. CASE UpdateStatus(w)
  BY <1>4, GrowsFrame, GrowsStatus DEF UpdateStatus, updateReportsStatus,
     Statuses, Rank
<1>5. CASE StoreRoot(w)
  <2>1. PICK t \in outbox[w] : insertMerkleRoot(t.root)
    BY <1>5 DEF StoreRoot
  <2>2. t.root \in Roots
    BY DEF WorkerTypeOK, Trees
  <2>3. StoredRoots \subseteq StoredRoots'
    BY <2>1, <2>2, StoredGrows
  <2> QED
    BY <1>5, <2>3 DEF StoreRoot, Grows, StoreTypeOK, Statuses, Rank
<1>6. CASE BulkUpdate(w)
  <2>1. PICK r \in todo[w] : bulkUpdateRequest(r)
    BY <1>6 DEF BulkUpdate
  <2>2. r \in Requests
    BY DEF WorkerTypeOK
  <2>3. Rank(requestCollection[r]) <= Rank("registered")
    BY <2>2 DEF StoreTypeOK, Statuses, Rank
  <2> QED
    BY <1>6, <2>1, <2>3, GrowsFrame, GrowsStatus DEF BulkUpdate,
       bulkUpdateRequest, Statuses
<1> QED
  BY <1>1, <1>2, <1>3, <1>4, <1>5, <1>6 DEF WorkerStep, WorkerFault, storeVars,
     StartRound, NextRequest, CountStored, QueryReports, CompareRoot,
     FindSubmitted, QuerySurplus, DeleteSurplus, FindMerkleRoot, FindRequest,
     FinishLoop, Broadcast, ExecuteCommitted, ExecuteThrows, RootsStored,
     SubmittedRequestFails, StoreRootFails, BulkUpdateFails, RoundFails

-----------------------------------------------------------------------------
(* What a worker knows at an await *)

\* A worker that does not move keeps its knowledge: roots stay stored and
\* submitted requests stay submitted.
LEMMA ControlFrame ==
  ASSUME StoreTypeOK, StoreTypeOK', Grows, NEW w, Control(w),
         wpc'[w] = wpc[w], cur'[w] = cur[w], batch'[w] = batch[w]
  PROVE  Control(w)'
<1>1. wpc[w] = "remove" => IsSubmitted(cur[w])'
  BY SubmittedStays DEF Control, LoopSteps
<1> QED
  BY <1>1 DEF Control, Grows

\* Between two requests and asleep there is nothing to know.
LEMMA ControlIdle ==
  ASSUME NEW w, wpc'[w] \in {"sleep", "loop"} \cup TxSteps
  PROVE  Control(w)'
BY DEF Control, LoopSteps, SubmittedSteps, TxSteps

LEMMA WorkerKeepsControl ==
  ASSUME StoreAssumption, StoreTypeOK, StoreTypeOK', WorkerTypeOK, WorkerControl,
         Grows, NEW w \in Workers, WorkerStep(w) \/ WorkerFault(w)
  PROVE  WorkerControl'
<1> USE DEF WorkerTypeOK, Await, At, LoopSteps, SubmittedSteps
<1> DEFINE Idle == wpc'[w] \in {"sleep", "loop"} \cup TxSteps
<1>1. ASSUME NEW v \in Workers, v # w PROVE Control(v)'
  <2>1. wpc'[v] = wpc[v] /\ cur'[v] = cur[v] /\ batch'[v] = batch[v]
    BY <1>1 DEF WorkerStep, WorkerFault, StartRound, NextRequest, CountStored,
       QueryReports, CompareRoot, FindSubmitted, RemoveRedundant, QuerySurplus,
       DeleteSurplus, FindMerkleRoot, InsertMerkleRoot, FindRequest,
       UpdateStatus, FinishLoop, Broadcast, ExecuteCommitted, ExecuteThrows,
       StoreRoot, RootsStored, BulkUpdate, SubmittedRequestFails,
       StoreRootFails, BulkUpdateFails, RoundFails, Continue, EndRound, localVars
  <2> QED
    BY <1>1, <2>1, ControlFrame DEF WorkerControl
<1> SUFFICES Control(w)'
  BY <1>1 DEF WorkerControl
<1>2. Control(w)
  BY DEF WorkerControl
<1>3. CASE Idle
  BY <1>3, ControlIdle
<1>4. CASE NextRequest(w)
  BY <1>4 DEF NextRequest, Control
<1>5. CASE CountStored(w)
  BY <1>2, <1>5 DEF CountStored, Control
<1>6. CASE QueryReports(w)
  <2>1. PICK S \in queryExecutorReportsWithThreshold(cur[w], Threshold[cur[w]]) :
          batch' = [batch EXCEPT ![w] = S]
    BY <1>6 DEF QueryReports
  <2>2. \A x \in S : x.requestId = cur[w]
    BY QueryType
  <2> QED
    BY <1>2, <1>6, <2>1, <2>2 DEF QueryReports, Control
<1>7. CASE CompareRoot(w)
  BY <1>2, <1>3, <1>7 DEF CompareRoot, HasRoot, Continue, Control
<1>8. CASE FindSubmitted(w)
  BY <1>2, <1>3, <1>8 DEF FindSubmitted, Continue, Control, IsSubmitted, storeVars
<1>9. CASE QuerySurplus(w)
  BY <1>2, <1>9 DEF QuerySurplus, Control
<1>10. CASE FindMerkleRoot(w)
  BY <1>2, <1>10 DEF FindMerkleRoot, RootMissing, Control, storeVars, StoredRoots
<1>11. CASE InsertMerkleRoot(w)
  <2>1. batch[w] \in StoredRoots'
    BY <1>11, StoredGrows DEF InsertMerkleRoot
  <2> QED
    BY <1>2, <1>11, <2>1 DEF InsertMerkleRoot, Control
<1>12. CASE FindRequest(w)
  BY <1>2, <1>3, <1>12 DEF FindRequest, Continue, Control, storeVars, StoredRoots
<1>13. CASE StoreRoot(w) \/ StoreRootFails(w)
  BY <1>3, <1>13 DEF StoreRoot, StoreRootFails, TxSteps
<1>14. CASE BulkUpdate(w)
  BY <1>3, <1>14 DEF BulkUpdate, EndRound, TxSteps
<1> QED
  BY <1>3, <1>4, <1>5, <1>6, <1>7, <1>8, <1>9, <1>10, <1>11, <1>12, <1>13, <1>14
     DEF WorkerStep, WorkerFault, StartRound, RemoveRedundant, DeleteSurplus,
     UpdateStatus, FinishLoop, Broadcast, ExecuteCommitted, ExecuteThrows,
     RootsStored, SubmittedRequestFails, BulkUpdateFails, RoundFails, Continue,
     EndRound, TxSteps

-----------------------------------------------------------------------------
(* The inductive invariant: types and what the workers know *)

Inv == TypeOK /\ WorkerControl

LEMMA InvInit == Init => Inv
<1> SUFFICES ASSUME Init PROVE Inv
  OBVIOUS
<1>1. StoreTypeOK
  BY FS_EmptySet, StoreAssumption DEF Init, StoreInit, StoreTypeOK,
     StoreAssumption, Statuses, NoRoot, Roots
<1>2. HandlerTypeOK
  BY DEF Init, HandlerInit, HandlerTypeOK, HandlerSteps
<1>3. WorkerTypeOK
  BY WorkerAssumption DEF Init, WorkerInit, WorkerTypeOK, WorkerAssumption,
     WorkerSteps, Roots
<1>4. WorkerControl
  BY DEF Init, WorkerInit, WorkerControl, Control, LoopSteps, SubmittedSteps
<1> QED
  BY <1>1, <1>2, <1>3, <1>4 DEF Inv, TypeOK

\* Every worker that is not on its way stays where it is or starts over.
LEMMA RestartKeepsControl ==
  ASSUME StoreTypeOK, StoreTypeOK', WorkerControl, Grows,
         \A w \in Workers :
           \/ wpc'[w] = "sleep"
           \/ wpc'[w] = wpc[w] /\ cur'[w] = cur[w] /\ batch'[w] = batch[w]
  PROVE  WorkerControl'
BY ControlFrame, ControlIdle DEF WorkerControl

\* Every step keeps the invariant, and what only grows grows.
LEMMA InvNext == Inv /\ [Next]_vars => Inv' /\ Grows
<1> SUFFICES ASSUME Inv, [Next]_vars PROVE Inv' /\ Grows
  OBVIOUS
<1> USE StoreAssumption, HandlerAssumption, WorkerAssumption, BackendAssumption
<1>0. StoreTypeOK /\ HandlerTypeOK /\ WorkerTypeOK /\ WorkerControl
  BY DEF Inv, TypeOK
<1>1. CASE HandlerNext /\ UNCHANGED workerVars
  <2>1. StoreTypeOK' /\ HandlerTypeOK' /\ Grows
    BY <1>0, <1>1, HandlerTypes, HandlerGrows
  <2>2. WorkerTypeOK'
    BY <1>0, <1>1 DEF WorkerTypeOK, workerVars, localVars
  <2>3. WorkerControl'
    BY <1>0, <1>1, <2>1, RestartKeepsControl DEF workerVars, localVars
  <2> QED
    BY <2>1, <2>2, <2>3 DEF Inv, TypeOK
<1>2. CASE WorkerNext
  <2>1. PICK w \in Workers : WorkerStep(w) \/ WorkerFault(w)
    BY <1>2 DEF WorkerNext
  <2>2. StoreTypeOK' /\ WorkerTypeOK' /\ Grows
    BY <1>0, <2>1, WorkerTypes, WorkerFaultTypes, WorkerGrows
  <2>3. HandlerTypeOK'
    BY <1>0, <1>2 DEF WorkerNext, handlerVars, HandlerTypeOK
  <2>4. WorkerControl'
    BY <1>0, <2>1, <2>2, WorkerKeepsControl
  <2> QED
    BY <2>2, <2>3, <2>4 DEF Inv, TypeOK
<1>3. ASSUME NEW r \in Requests \ BenchIds, OwnerRegisters(r)
      PROVE  Inv' /\ Grows
  <2>1. Grows
    BY <1>0, <1>3, GrowsFrame DEF OwnerRegisters
  <2>2. StoreTypeOK'
    BY <1>0, <1>3 DEF OwnerRegisters, StoreTypeOK, ReportsOf, Roots
  <2>3. HandlerTypeOK' /\ WorkerTypeOK'
    BY <1>0, <1>3 DEF OwnerRegisters, HandlerTypeOK, WorkerTypeOK, handlerVars,
       workerVars, localVars
  <2>4. WorkerControl'
    BY <1>0, <1>3, <2>1, <2>2, RestartKeepsControl DEF OwnerRegisters,
       workerVars, localVars
  <2> QED
    BY <2>1, <2>2, <2>3, <2>4 DEF Inv, TypeOK
<1>4. CASE ServerCrash
  <2>1. Grows
    BY <1>0, <1>4, GrowsFrame DEF ServerCrash
  <2>2. StoreTypeOK'
    BY <1>0, <1>4 DEF ServerCrash, StoreTypeOK, Fault, StoreAssumption
  <2>3. HandlerTypeOK'
    BY <1>0, <1>4 DEF ServerCrash, HandlersGone, HandlerTypeOK, HandlerSteps
  <2>4. WorkerTypeOK'
    BY <1>0, <1>4 DEF ServerCrash, WorkerTypeOK, WorkerSteps, WorkerAssumption,
       Roots
  <2>5. WorkerControl'
    BY <1>0, <1>4, <2>1, <2>2, RestartKeepsControl DEF ServerCrash
  <2> QED
    BY <2>1, <2>2, <2>3, <2>4, <2>5 DEF Inv, TypeOK
<1>5. ASSUME NEW w \in Workers, IntervalCrash(w)
      PROVE  Inv' /\ Grows
  <2>1. Grows
    BY <1>0, <1>5, GrowsFrame DEF IntervalCrash
  <2>2. StoreTypeOK'
    BY <1>0, <1>5 DEF IntervalCrash, StoreTypeOK, Fault, StoreAssumption
  <2>3. HandlerTypeOK'
    BY <1>0, <1>5 DEF IntervalCrash, handlerVars, HandlerTypeOK
  <2>4. WorkerTypeOK'
    <3>1. EndRound(w, 0) /\ 0 \in 0..GasCap
      BY <1>5 DEF IntervalCrash, WorkerAssumption
    <3> QED
      BY <1>0, <3>1, EndRoundTypes
  <2>5. WorkerControl'
    BY <1>0, <1>5, <2>1, <2>2, RestartKeepsControl DEF IntervalCrash, EndRound,
       At, WorkerTypeOK
  <2> QED
    BY <2>1, <2>2, <2>3, <2>4, <2>5 DEF Inv, TypeOK
<1>6. CASE UNCHANGED vars
  <2>1. Grows
    BY <1>0, <1>6, GrowsFrame DEF vars, storeVars
  <2>2. StoreTypeOK'
    BY <1>0, <1>6, StoreFrame DEF vars
  <2>3. HandlerTypeOK' /\ WorkerTypeOK'
    BY <1>0, <1>6 DEF vars, HandlerTypeOK, WorkerTypeOK, handlerVars, workerVars,
       localVars
  <2>4. WorkerControl'
    BY <1>0, <1>6, <2>1, <2>2, RestartKeepsControl DEF vars, workerVars,
       localVars
  <2> QED
    BY <2>1, <2>2, <2>3, <2>4 DEF Inv, TypeOK
<1> QED
  BY <1>1, <1>2, <1>3, <1>4, <1>5, <1>6 DEF Next

\* A step beside the backend that only counts a fault keeps the invariant.
LEMMA InvBeside ==
  ASSUME Inv, faults' \in 0..MaxFaults,
         UNCHANGED <<executorCollection, requestCollection, merkleCollection,
                     chainRoot, handlerVars, workerVars>>
  PROVE  Inv' /\ Grows
<1>0. StoreTypeOK /\ HandlerTypeOK /\ WorkerTypeOK /\ WorkerControl
  BY DEF Inv, TypeOK
<1>1. Grows
  BY <1>0, GrowsFrame
<1>2. StoreTypeOK'
  BY <1>0 DEF StoreTypeOK
<1>3. HandlerTypeOK' /\ WorkerTypeOK'
  BY <1>0 DEF HandlerTypeOK, WorkerTypeOK, handlerVars, workerVars, localVars
<1>4. WorkerControl'
  BY <1>0, <1>1, <1>2, RestartKeepsControl DEF workerVars, localVars
<1> QED
  BY <1>1, <1>2, <1>3, <1>4 DEF Inv, TypeOK

\* Every variable keeps its type, for any instance.
THEOREM TypeCorrect == Spec => []TypeOK
<1>1. Inv => TypeOK
  BY DEF Inv
<1> QED
  BY InvInit, InvNext, <1>1, PTL DEF Spec

\* What a worker learned at an await still holds when it acts on it, whatever
\* handlers, other workers and faults did meanwhile.
THEOREM ControlCorrect == Spec => []WorkerControl
<1>1. Inv => WorkerControl
  BY DEF Inv
<1> QED
  BY InvInit, InvNext, <1>1, PTL DEF Spec

\* No step deletes or reopens a request: the delete of
\* removeRedundantRequests only ever meets a submitted document.
THEOREM NeverForgotten == Spec => RequestNeverForgotten
<1>1. Inv /\ [Next]_vars =>
        [\A r \in Requests :
           Rank(requestCollection[r]) <= Rank(requestCollection'[r])]_vars
  BY InvNext DEF Grows
<1> QED
  BY InvInit, InvNext, <1>1, PTL DEF Spec, RequestNeverForgotten

-----------------------------------------------------------------------------
(* The transaction path: what it sends, and what it stores before it marks *)

\* No transaction carries the root of a report: `data.merkle_root || newRoot`
\* sends every request with reports to processSubmittedRequest instead.
OnlyEmptyRootsQueued ==
  \A w \in Workers : \A t \in outbox[w] : t.root = NoRoot

LEMMA OutboxNext ==
  ASSUME Inv, OnlyEmptyRootsQueued, [Next]_vars
  PROVE  OnlyEmptyRootsQueued'
<1>0. WorkerTypeOK
  BY DEF Inv, TypeOK
<1>1. ASSUME NEW v \in Workers, NEW t \in outbox'[v] PROVE t.root = NoRoot
  <2>1. CASE t \in outbox[v]
    BY <2>1 DEF OnlyEmptyRootsQueued
  <2>2. CASE t \notin outbox[v]
    <3>1. PICK w \in Workers : CompareRoot(w)
      BY <1>0, <1>1, <2>2 DEF Next, HandlerNext, WorkerNext, WorkerStep,
         WorkerFault, OwnerRegisters, ServerCrash, IntervalCrash, vars,
         workerVars, localVars, WorkerTypeOK, StartRound, NextRequest,
         CountStored, QueryReports, FindSubmitted, RemoveRedundant,
         QuerySurplus, DeleteSurplus, FindMerkleRoot, InsertMerkleRoot,
         FindRequest, UpdateStatus, FinishLoop, Broadcast, ExecuteCommitted,
         ExecuteThrows, StoreRoot, RootsStored, BulkUpdate,
         SubmittedRequestFails, StoreRootFails, BulkUpdateFails, RoundFails,
         Await, EndRound
    <3>2. t = [requestId |-> cur[w], root |-> RootOf(w)] /\ RootOf(w) = NoRoot
      BY <1>0, <1>1, <2>2, <3>1 DEF CompareRoot, HasRoot, Await, WorkerTypeOK
    <3> QED
      BY <3>2
  <2> QED
    BY <2>1, <2>2
<1> QED
  BY <1>1 DEF OnlyEmptyRootsQueued

\* What a worker has stored on its way to bulkWrite: the root of every insert
\* that is behind, so all of them when none is left and none has failed.
RootsAhead(w) ==
  /\ wpc[w] = "storeRoots" /\ todo[w] # Ids(outbox[w]) => NoRoot \in StoredRoots
  /\ wpc[w] = "bulkUpdate" /\ todo[w] # {} => NoRoot \in StoredRoots

LEMMA AheadFrame ==
  ASSUME Grows, NEW v, RootsAhead(v),
         \/ wpc'[v] \notin {"storeRoots", "bulkUpdate"}
         \/ wpc'[v] = wpc[v] /\ todo'[v] = todo[v] /\ outbox'[v] = outbox[v]
  PROVE  RootsAhead(v)'
BY DEF RootsAhead, Grows, Ids

LEMMA AheadSteps ==
  ASSUME StoreTypeOK, WorkerTypeOK, OnlyEmptyRootsQueued, Grows,
         NEW w \in Workers, RootsAhead(w), WorkerStep(w) \/ WorkerFault(w)
  PROVE  RootsAhead(w)'
<1> USE DEF WorkerTypeOK
<1>1. CASE ExecuteCommitted(w)
  <2>1. wpc'[w] = "storeRoots" /\ todo'[w] = Ids(outbox[w]) /\ outbox' = outbox
    BY <1>1 DEF ExecuteCommitted, At
  <2> QED
    BY <2>1 DEF RootsAhead, Ids
<1>2. CASE StoreRoot(w)
  <2>1. PICK t \in outbox[w] : insertMerkleRoot(t.root)
    BY <1>2 DEF StoreRoot
  <2>2. t.root = NoRoot
    BY DEF OnlyEmptyRootsQueued
  <2>3. insertMerkleRoot(NoRoot) /\ NoRoot \in Roots
    BY <2>1, <2>2 DEF NoRoot, Roots
  <2>4. NoRoot \in StoredRoots'
    BY <2>3, StoredGrows
  <2> QED
    BY <2>4 DEF RootsAhead
<1>3. CASE RootsStored(w) /\ InsertsDone(w)
  <2>1. /\ wpc[w] = "storeRoots" /\ todo[w] = {}
        /\ wpc'[w] = "bulkUpdate" /\ todo'[w] = Ids(outbox[w])
    BY <1>3 DEF RootsStored, InsertsDone, At
  <2> QED
    BY <2>1 DEF RootsAhead, Grows
<1>4. CASE BulkUpdate(w)
  BY <1>4 DEF BulkUpdate, EndRound, At, RootsAhead, Grows
<1>5. CASE StoreRootFails(w)
  BY <1>5, AheadFrame DEF StoreRootFails, At
<1>6. CASE RootsStored(w) /\ ~InsertsDone(w)
  BY <1>6, AheadFrame DEF RootsStored, EndRound, At
<1> QED
  BY <1>1, <1>2, <1>3, <1>4, <1>5, <1>6, AheadFrame
  DEF WorkerStep, WorkerFault, StartRound, NextRequest, CountStored, QueryReports,
      CompareRoot, FindSubmitted, RemoveRedundant, QuerySurplus, DeleteSurplus,
      FindMerkleRoot, InsertMerkleRoot, FindRequest, UpdateStatus, FinishLoop,
      Broadcast, ExecuteThrows, SubmittedRequestFails, BulkUpdateFails, RoundFails,
      Await, Continue, EndRound, At

RegisteredInv ==
  /\ OnlyEmptyRootsQueued
  /\ \A w \in Workers : RootsAhead(w)
  /\ RegisteredHasRoot

\* Only bulkUpdateRequests marks a request as registered.
LEMMA RegisteredByBulk ==
  ASSUME StoreTypeOK, [Next]_vars, NEW r \in Requests,
         requestCollection'[r] = "registered", requestCollection[r] # "registered"
  PROVE  \E w \in Workers : BulkUpdate(w)
BY DEF Next, HandlerNext, WorkerNext, WorkerStep,
   WorkerFault, OwnerRegisters, ServerCrash, IntervalCrash, vars,
   storeVars, StoreTypeOK, ReceiveReport, CheckSender, FindReport,
   CountReports, InsertRequest, InsertReport, RefuseDuplicate,
   HandlerFails, BenchmarkPost, insertRequest, SetStatus, StartRound,
   NextRequest, CountStored, QueryReports, CompareRoot, FindSubmitted,
   RemoveRedundant, removeRedundantRequests, QuerySurplus, DeleteSurplus,
   FindMerkleRoot, InsertMerkleRoot, FindRequest, UpdateStatus, updateReportsStatus,
   FinishLoop, Broadcast, ExecuteCommitted, ExecuteThrows, StoreRoot, RootsStored,
   SubmittedRequestFails, StoreRootFails, BulkUpdateFails, RoundFails

LEMMA RegisteredNext ==
  ASSUME Inv, RegisteredInv, [Next]_vars
  PROVE  RegisteredInv'
<1>0. StoreTypeOK /\ WorkerTypeOK /\ Grows
  BY InvNext DEF Inv, TypeOK
<1>1. OnlyEmptyRootsQueued'
  BY OutboxNext DEF RegisteredInv
<1>2. ASSUME NEW v \in Workers PROVE RootsAhead(v)'
  <2>1. RootsAhead(v)
    BY DEF RegisteredInv
  <2>2. ASSUME NEW w \in Workers, WorkerStep(w) \/ WorkerFault(w) PROVE RootsAhead(v)'
    <3>1. CASE v = w
      BY <1>0, <2>1, <2>2, <3>1, AheadSteps DEF RegisteredInv
    <3>2. CASE v # w
      <4>1. wpc'[v] = wpc[v] /\ todo'[v] = todo[v] /\ outbox'[v] = outbox[v]
        BY <1>0, <2>2, <3>2 DEF WorkerTypeOK, WorkerStep, WorkerFault, StartRound,
           NextRequest, CountStored, QueryReports, CompareRoot, FindSubmitted,
           RemoveRedundant, QuerySurplus, DeleteSurplus, FindMerkleRoot,
           InsertMerkleRoot, FindRequest, UpdateStatus, FinishLoop, Broadcast,
           ExecuteCommitted, ExecuteThrows, StoreRoot, RootsStored, BulkUpdate,
           SubmittedRequestFails, StoreRootFails, BulkUpdateFails, RoundFails,
           Await, Continue, EndRound, At, localVars
      <4> QED
        BY <1>0, <2>1, <4>1, AheadFrame
    <3> QED
      BY <3>1, <3>2
  <2>3. CASE ServerCrash
    BY <1>0, <2>1, <2>3, AheadFrame DEF ServerCrash
  <2>4. ASSUME NEW w \in Workers, IntervalCrash(w) PROVE RootsAhead(v)'
    BY <1>0, <2>1, <2>4, AheadFrame DEF IntervalCrash, EndRound, At, WorkerTypeOK
  <2>5. CASE UNCHANGED workerVars
    BY <1>0, <2>1, <2>5, AheadFrame DEF workerVars, localVars
  <2> QED
    BY <2>2, <2>3, <2>4, <2>5 DEF Next, WorkerNext, OwnerRegisters, vars
<1>3. ASSUME NEW r \in Requests, requestCollection'[r] = "registered"
      PROVE  NoRoot \in StoredRoots'
  <2>1. CASE requestCollection[r] = "registered"
    BY <1>0, <2>1 DEF RegisteredInv, RegisteredHasRoot, Grows
  <2>2. CASE requestCollection[r] # "registered"
    <3>1. PICK w \in Workers : BulkUpdate(w)
      BY <1>0, <1>3, <2>2, RegisteredByBulk
    <3>2. wpc[w] = "bulkUpdate" /\ todo[w] # {}
      BY <3>1 DEF BulkUpdate
    <3> QED
      BY <1>0, <3>2 DEF RegisteredInv, RootsAhead, Grows
  <2> QED
    BY <2>1, <2>2
<1> QED
  BY <1>1, <1>2, <1>3 DEF RegisteredInv, RegisteredHasRoot

LEMMA RegisteredInit == Init => RegisteredInv
BY DEF Init, StoreInit, WorkerInit, RegisteredInv, OnlyEmptyRootsQueued, RootsAhead,
   RegisteredHasRoot

\* A request that bulkUpdateRequests marked has the root of its transaction in
\* the database, for any number of workers, through crashes and inserts that
\* fail while others land.
THEOREM RootBeforeRegistered == Spec => []RegisteredHasRoot
<1>1. Inv /\ RegisteredInv /\ [Next]_vars => RegisteredInv'
  BY RegisteredNext
<1>2. RegisteredInv => RegisteredHasRoot
  BY DEF RegisteredInv
<1> QED
  BY InvInit, InvNext, RegisteredInit, <1>1, <1>2, PTL DEF Spec

-----------------------------------------------------------------------------
(* A submitted request has leaves *)

LEMMA LeavesNext ==
  ASSUME Inv, SubmittedHasLeaves, [Next]_vars
  PROVE  SubmittedHasLeaves'
<1>0. StoreTypeOK /\ WorkerTypeOK /\ WorkerControl
  BY DEF Inv, TypeOK
<1>1. ASSUME NEW r \in Requests PROVE RootsFor(r) \subseteq RootsFor(r)'
  BY InvNext DEF Grows, RootsFor
<1>2. ASSUME NEW r \in Requests, requestCollection'[r] = "submitted"
      PROVE  RootsFor(r)' # {}
  <2>1. CASE requestCollection[r] = "submitted"
    BY <1>1, <2>1 DEF SubmittedHasLeaves
  <2>2. CASE requestCollection[r] # "submitted"
    <3>1. PICK w \in Workers : UpdateStatus(w)
      BY <1>0, <1>2, <2>2 DEF Next, HandlerNext, WorkerNext, WorkerStep,
         WorkerFault, OwnerRegisters, ServerCrash, IntervalCrash, vars,
         storeVars, StoreTypeOK, ReceiveReport, CheckSender, FindReport,
         CountReports, InsertRequest, InsertReport, RefuseDuplicate,
         HandlerFails, BenchmarkPost, insertRequest, SetStatus, StartRound,
         NextRequest, CountStored, QueryReports, CompareRoot, FindSubmitted,
         RemoveRedundant, removeRedundantRequests, QuerySurplus, DeleteSurplus,
         FindMerkleRoot, InsertMerkleRoot, FindRequest, FinishLoop, Broadcast,
         ExecuteCommitted, ExecuteThrows, StoreRoot, RootsStored, BulkUpdate,
         bulkUpdateRequest, SubmittedRequestFails, StoreRootFails,
         BulkUpdateFails, RoundFails
    <3>2. cur[w] = r
      BY <1>0, <1>2, <2>2, <3>1 DEF UpdateStatus, updateReportsStatus, SetStatus,
         StoreTypeOK
    <3>3. /\ batch[w] \in StoredRoots /\ batch[w] # NoRoot
          /\ \A x \in batch[w] : x.requestId = r
          /\ batch[w] \subseteq Reports
      BY <1>0, <3>1, <3>2 DEF UpdateStatus, WorkerControl, Control,
         SubmittedSteps, WorkerTypeOK, Roots
    <3> QED
      BY <1>1, <3>3 DEF RootsFor
  <2> QED
    BY <2>1, <2>2
<1> QED
  BY <1>2 DEF SubmittedHasLeaves

\* A request that processSubmittedRequest marked as submitted has the leaves of
\* a tree of its own reports in the database, for any number of workers and
\* handlers and through any crash or failed call.
THEOREM LeavesBeforeSubmitted == Spec => []SubmittedHasLeaves
<1>1. Init => SubmittedHasLeaves
  BY DEF Init, StoreInit, SubmittedHasLeaves
<1>2. Inv /\ SubmittedHasLeaves /\ [Next]_vars => SubmittedHasLeaves'
  BY LeavesNext
<1> QED
  BY InvInit, InvNext, <1>1, <1>2, PTL DEF Spec

-----------------------------------------------------------------------------
(* One report per executor *)

\* Workers only ever delete reports.
LEMMA WorkerOnlyDeletes ==
  ASSUME WorkerNext
  PROVE  executorCollection' \subseteq executorCollection
BY DEF WorkerNext, WorkerStep, WorkerFault, storeVars, StartRound,
   NextRequest, CountStored, QueryReports, CompareRoot, FindSubmitted,
   RemoveRedundant, QuerySurplus, DeleteSurplus, deleteReports,
   FindMerkleRoot, InsertMerkleRoot, FindRequest, UpdateStatus, FinishLoop,
   Broadcast, ExecuteCommitted, ExecuteThrows, StoreRoot, RootsStored,
   BulkUpdate, SubmittedRequestFails, StoreRootFails, BulkUpdateFails,
   RoundFails

LEMMA UniqueNext ==
  ASSUME Inv, UniqueReport, [Next]_vars
  PROVE  UniqueReport'
<1>1. CASE executorCollection' \subseteq executorCollection
  BY <1>1 DEF UniqueReport
<1>2. ASSUME NEW h \in Handlers, InsertReport(h) PROVE UniqueReport'
  <2>1. executorCollection' = executorCollection \cup {body[h]}
    BY <1>2 DEF InsertReport, insertExecutorReport
  <2>2. \A y \in executorCollection :
          ~ (y.requestId = body[h].requestId /\ y.executor = body[h].executor)
    BY <1>2 DEF InsertReport, insertExecutorReport, findReport, ReportsOf
  <2> QED
    BY <2>1, <2>2 DEF UniqueReport
<1>3. CASE HandlerNext
  BY <1>1, <1>2, <1>3 DEF HandlerNext, ReceiveReport, CheckSender, FindReport,
     CountReports, InsertRequest, RefuseDuplicate, HandlerFails, BenchmarkPost,
     storeVars
<1>4. CASE WorkerNext
  BY <1>1, <1>4, WorkerOnlyDeletes
<1> QED
  BY <1>1, <1>3, <1>4 DEF Next, OwnerRegisters, ServerCrash, IntervalCrash,
     vars, storeVars

\* No executor ever has two reports stored for one request, even when two of
\* its posts passed findReport before either was inserted.
THEOREM OneReportEach == Spec => []UniqueReport
<1>1. Init => UniqueReport
  BY DEF Init, StoreInit, UniqueReport
<1>2. Inv /\ UniqueReport /\ [Next]_vars => UniqueReport'
  BY UniqueNext
<1> QED
  BY InvInit, InvNext, <1>1, <1>2, PTL DEF Spec

-----------------------------------------------------------------------------
(* The overshoot of the threshold *)

LEMMA InsertingType ==
  ASSUME HandlerAssumption, NEW r
  PROVE  /\ IsFiniteSet(Inserting(r)) /\ Cardinality(Inserting(r)) \in Nat
         /\ Cardinality(Inserting(r)) <= Cardinality(Handlers)
         /\ Cardinality(Handlers) \in Nat
<1>1. Inserting(r) \subseteq Handlers
  BY DEF Inserting
<1> QED
  BY <1>1, FS_Subset, FS_CardinalityType DEF HandlerAssumption

\* Fewer reports and fewer handlers about to insert keep the bound.
LEMMA OvershootShrinks ==
  ASSUME StoreAssumption, HandlerAssumption, StoreTypeOK, NEW r \in Requests,
         ReportsOf(r)' \subseteq ReportsOf(r),
         Inserting(r)' \subseteq Inserting(r)
  PROVE  countExecutorReports(r)' + Cardinality(Inserting(r)')
           <= countExecutorReports(r) + Cardinality(Inserting(r))
<1>1. Cardinality(ReportsOf(r)') <= Cardinality(ReportsOf(r))
  BY CountType, FS_Subset
<1>2. Cardinality(Inserting(r)') <= Cardinality(Inserting(r))
  BY InsertingType, FS_Subset
<1>3. /\ Cardinality(ReportsOf(r)) \in Nat /\ Cardinality(Inserting(r)) \in Nat
      /\ Cardinality(ReportsOf(r)') \in Nat /\ Cardinality(Inserting(r)') \in Nat
  BY CountType, InsertingType, FS_Subset, FS_CardinalityType
<1> QED
  BY <1>1, <1>2, <1>3 DEF countExecutorReports

LEMMA OvershootNext ==
  ASSUME Inv, OvershootBounded, [Next]_vars
  PROVE  OvershootBounded'
<1> USE StoreAssumption, HandlerAssumption
<1>0. StoreTypeOK /\ HandlerTypeOK
  BY DEF Inv, TypeOK
<1> SUFFICES ASSUME NEW r \in Requests
             PROVE  countExecutorReports(r)' + Cardinality(Inserting(r)')
                      <= Threshold[r] + Cardinality(Handlers) - 1
  BY DEF OvershootBounded
<1> DEFINE Bound == Threshold[r] + Cardinality(Handlers) - 1
<1>1. /\ countExecutorReports(r) \in Nat /\ countExecutorReports(r)' \in Nat
      /\ Cardinality(Inserting(r)) \in Nat /\ Cardinality(Inserting(r)') \in Nat
      /\ Cardinality(Inserting(r)') <= Cardinality(Handlers)
      /\ Threshold[r] \in Nat /\ Cardinality(Handlers) \in Nat
  <2>1. StoreTypeOK'
    BY InvNext DEF Inv, TypeOK
  <2>2. countExecutorReports(r) \in Nat /\ countExecutorReports(r)' \in Nat
    <3>1. IsFiniteSet(ReportsOf(r)')
      BY <2>1, FS_Subset DEF ReportsOf, StoreTypeOK
    <3> QED
      BY <1>0, <3>1, CountType, FS_CardinalityType DEF countExecutorReports
  <2>3. /\ Cardinality(Inserting(r)') \in Nat
        /\ Cardinality(Inserting(r)') <= Cardinality(Handlers)
    <3>1. Inserting(r)' \subseteq Handlers
      BY DEF Inserting
    <3> QED
      BY <3>1, FS_Subset, FS_CardinalityType DEF HandlerAssumption
  <2> QED
    BY <2>2, <2>3, InsertingType DEF StoreAssumption
<1>2. countExecutorReports(r) + Cardinality(Inserting(r)) <= Bound
  BY DEF OvershootBounded
<1>3. CASE /\ ReportsOf(r)' \subseteq ReportsOf(r)
           /\ Inserting(r)' \subseteq Inserting(r)
  BY <1>0, <1>1, <1>2, <1>3, OvershootShrinks
<1>4. ASSUME NEW h \in Handlers, CountReports(h), body[h].requestId = r,
             hpc'[h] = "insertRequest"
      PROVE  countExecutorReports(r)' + Cardinality(Inserting(r)') <= Bound
  <2>1. countExecutorReports(r) < Threshold[r]
    BY <1>0, <1>4 DEF CountReports, BelowThreshold, Respond, HandlerTypeOK
  <2>2. countExecutorReports(r)' = countExecutorReports(r)
    BY <1>4 DEF CountReports, storeVars, countExecutorReports, ReportsOf
  <2> QED
    BY <1>1, <2>1, <2>2
<1>5. ASSUME NEW h \in Handlers, InsertReport(h), body[h].requestId = r
      PROVE  countExecutorReports(r)' + Cardinality(Inserting(r)') <= Bound
  <2>1. ReportsOf(r)' = ReportsOf(r) \cup {body[h]}
    BY <1>5 DEF InsertReport, insertExecutorReport, ReportsOf
  <2>2. countExecutorReports(r)' <= countExecutorReports(r) + 1
    <3>1. IsFiniteSet(ReportsOf(r)) /\ Cardinality(ReportsOf(r)) \in Nat
      BY <1>0, CountType DEF countExecutorReports
    <3>2. Cardinality(ReportsOf(r) \cup {body[h]}) <= Cardinality(ReportsOf(r)) + 1
      <4>1. Cardinality(ReportsOf(r) \cup {body[h]})
              = IF body[h] \in ReportsOf(r) THEN Cardinality(ReportsOf(r))
                ELSE Cardinality(ReportsOf(r)) + 1
        BY <3>1, FS_AddElement
      <4> QED
        BY <3>1, <4>1
    <3> QED
      BY <2>1, <3>2 DEF countExecutorReports
  <2>3. h \in Inserting(r) /\ Inserting(r)' = Inserting(r) \ {h}
    BY <1>0, <1>5 DEF InsertReport, Inserting, Respond, HandlerTypeOK
  <2>4. Cardinality(Inserting(r)') = Cardinality(Inserting(r)) - 1
    BY <2>3, InsertingType, FS_RemoveElement
  <2> QED
    BY <1>1, <1>2, <2>2, <2>4
<1>6. ASSUME UNCHANGED handlerVars, executorCollection' \subseteq executorCollection
      PROVE  ReportsOf(r)' \subseteq ReportsOf(r) /\ Inserting(r)' \subseteq Inserting(r)
  BY <1>6 DEF handlerVars, ReportsOf, Inserting
<1>7. CASE HandlerNext
  <2>1. ASSUME NEW h \in Handlers, UNCHANGED executorCollection,
               \/ hpc'[h] \notin {"insertRequest", "insertReport"}
               \/ /\ hpc[h] \in {"insertRequest", "insertReport"}
                  /\ body'[h] = body[h]
               \/ body'[h] = body[h] /\ body[h].requestId # r,
               \A g \in Handlers \ {h} : hpc'[g] = hpc[g] /\ body'[g] = body[g]
        PROVE  ReportsOf(r)' \subseteq ReportsOf(r) /\ Inserting(r)' \subseteq Inserting(r)
    BY <2>1 DEF ReportsOf, Inserting
  <2>2. ASSUME NEW h \in Handlers, InsertReport(h), body[h].requestId # r
        PROVE  ReportsOf(r)' \subseteq ReportsOf(r) /\ Inserting(r)' \subseteq Inserting(r)
    BY <1>0, <2>2 DEF InsertReport, insertExecutorReport, Respond, ReportsOf,
       Inserting, HandlerTypeOK
  <2>3. ASSUME NEW h \in Handlers, CountReports(h),
               ~ (body[h].requestId = r /\ hpc'[h] = "insertRequest")
        PROVE  ReportsOf(r)' \subseteq ReportsOf(r) /\ Inserting(r)' \subseteq Inserting(r)
    BY <1>0, <2>1, <2>3 DEF CountReports, GoTo, Respond, HandlerTypeOK, storeVars
  <2>4. ASSUME NEW h \in Handlers,
               \/ ReceiveReport(h) \/ CheckSender(h) \/ FindReport(h)
               \/ InsertRequest(h) \/ RefuseDuplicate(h) \/ HandlerFails(h)
        PROVE  ReportsOf(r)' \subseteq ReportsOf(r) /\ Inserting(r)' \subseteq Inserting(r)
    <3>1. CASE ReceiveReport(h)
      BY <1>0, <2>1, <3>1 DEF ReceiveReport, HandlerTypeOK, storeVars
    <3>2. CASE CheckSender(h) \/ FindReport(h)
      BY <1>0, <2>1, <3>2 DEF CheckSender, FindReport, GoTo, Respond,
         HandlerTypeOK, storeVars
    <3>3. CASE InsertRequest(h)
      BY <1>0, <2>1, <3>3 DEF InsertRequest, GoTo, HandlerTypeOK
    <3>4. CASE RefuseDuplicate(h) \/ HandlerFails(h)
      BY <1>0, <2>1, <3>4 DEF RefuseDuplicate, HandlerFails, Respond,
         HandlerTypeOK, storeVars
    <3> QED
      BY <2>4, <3>1, <3>2, <3>3, <3>4
  <2>5. ASSUME NEW q \in BenchIds, BenchmarkPost(q)
        PROVE  ReportsOf(r)' \subseteq ReportsOf(r) /\ Inserting(r)' \subseteq Inserting(r)
    BY <1>6, <2>5 DEF BenchmarkPost
  <2> QED
    BY <1>3, <1>4, <1>5, <1>7, <2>2, <2>3, <2>4, <2>5 DEF HandlerNext
<1>8. CASE WorkerNext
  <2>1. executorCollection' \subseteq executorCollection
    BY <1>8, WorkerOnlyDeletes
  <2> QED
    BY <1>3, <1>6, <1>8, <2>1 DEF WorkerNext
<1>9. CASE ServerCrash
  BY <1>3, <1>9 DEF ServerCrash, HandlersGone, ReportsOf, Inserting
<1>10. CASE (\E q \in Requests \ BenchIds : OwnerRegisters(q))
            \/ (\E w \in Workers : IntervalCrash(w)) \/ UNCHANGED vars
  BY <1>3, <1>6, <1>10 DEF OwnerRegisters, IntervalCrash, vars, storeVars
<1> QED
  BY <1>7, <1>8, <1>9, <1>10 DEF Next

LEMMA OvershootInit == Init => OvershootBounded
<1> SUFFICES ASSUME Init, NEW r \in Requests
             PROVE  countExecutorReports(r) + Cardinality(Inserting(r))
                      <= Threshold[r] + Cardinality(Handlers) - 1
  BY DEF OvershootBounded
<1>1. ReportsOf(r) = {} /\ Inserting(r) = {}
  BY DEF Init, StoreInit, HandlerInit, ReportsOf, Inserting
<1>2. countExecutorReports(r) = 0 /\ Cardinality(Inserting(r)) = 0
  BY <1>1, FS_EmptySet DEF countExecutorReports
<1>3. Threshold[r] \in Nat \ {0} /\ Cardinality(Handlers) \in Nat
  BY StoreAssumption, HandlerAssumption, FS_CardinalityType
     DEF StoreAssumption, HandlerAssumption
<1> QED
  BY <1>2, <1>3

\* The reports stored for a request never exceed its threshold by more than
\* the handlers that can be in flight together less one, however their counts
\* and inserts interleave with the trims of any number of workers.
THEOREM Overshoot == Spec => []OvershootBounded
<1>1. Inv /\ OvershootBounded /\ [Next]_vars => OvershootBounded'
  BY OvershootNext
<1> QED
  BY OvershootInit, InvInit, InvNext, <1>1, PTL DEF Spec

(***************************************************************************)
(* One worker: what it knows is never stale, and the detailed              *)
(* specification implements RequestLedger.                                 *)
(***************************************************************************)

-----------------------------------------------------------------------------
(* Reports of a request, and what a query returns of them *)

LEMMA ReportsGrow ==
  ASSUME StoreTypeOK, StoreTypeOK', executorCollection \subseteq executorCollection', NEW r
  PROVE  /\ ReportsOf(r) \subseteq ReportsOf(r)'
         /\ countExecutorReports(r) <= countExecutorReports(r)'
         /\ countExecutorReports(r) \in Nat /\ countExecutorReports(r)' \in Nat
<1>1. ReportsOf(r) \subseteq ReportsOf(r)'
  BY DEF ReportsOf
<1>2. IsFiniteSet(ReportsOf(r)')
  BY FS_Subset DEF StoreTypeOK, ReportsOf
<1>3. Cardinality(ReportsOf(r)') \in Nat
  BY <1>2, FS_CardinalityType
<1> QED
  BY <1>1, <1>2, <1>3, FS_Subset, CountType DEF countExecutorReports

\* A query for n of at least n reports returns n of them, or the cap.
LEMMA QueryCount ==
  ASSUME StoreAssumption, StoreTypeOK, NEW r, NEW n \in Nat \ {0},
         countExecutorReports(r) >= n,
         NEW S \in queryExecutorReportsWithThreshold(r, n)
  PROVE  /\ S \subseteq ReportsOf(r)
         /\ Cardinality(S) = Lesser(n, MAX_LIMIT)
<1>1. S \subseteq ReportsOf(r) /\ Cardinality(S) = Lesser(LeafLimit(n), countExecutorReports(r))
  BY DEF queryExecutorReportsWithThreshold
<1>2. countExecutorReports(r) \in Nat /\ MAX_LIMIT \in Nat \ {0}
  BY CountType DEF StoreAssumption
<1> QED
  BY <1>1, <1>2 DEF Lesser, LeafLimit

\* A query for n returns at most n reports.
LEMMA QueryAtMost ==
  ASSUME StoreAssumption, StoreTypeOK, NEW r, NEW n \in Nat,
         NEW S \in queryExecutorReportsWithThreshold(r, n)
  PROVE  S \subseteq ReportsOf(r) /\ Cardinality(S) \in Nat /\ Cardinality(S) <= n
<1>1. S \subseteq ReportsOf(r) /\ Cardinality(S) = Lesser(LeafLimit(n), countExecutorReports(r))
  BY DEF queryExecutorReportsWithThreshold
<1>2. countExecutorReports(r) \in Nat /\ MAX_LIMIT \in Nat \ {0}
  BY CountType DEF StoreAssumption
<1> QED
  BY <1>1, <1>2 DEF Lesser, LeafLimit

\* Deleting what a query returned leaves the rest, for there is one report of
\* an executor.
LEMMA DeleteCount ==
  ASSUME StoreTypeOK, UniqueReport, NEW r, NEW S, S \subseteq ReportsOf(r),
         deleteReports(r, S)
  PROVE  /\ executorCollection' = executorCollection \ S
         /\ Cardinality(ReportsOf(r)') = countExecutorReports(r) - Cardinality(S)
         /\ \A q : q # r => ReportsOf(q)' = ReportsOf(q)
<1>1. ASSUME NEW x \in S PROVE findReport(r, x.executor) = {x}
  <2>1. x \in findReport(r, x.executor)
    BY DEF findReport, ReportsOf
  <2>2. ASSUME NEW y \in findReport(r, x.executor) PROVE y = x
    BY <2>2 DEF findReport, ReportsOf, UniqueReport
  <2> QED
    BY <2>1, <2>2
<1>2. UNION {findReport(r, x.executor) : x \in S} = S
  BY <1>1
<1>3. executorCollection' = executorCollection \ S
  BY <1>2 DEF deleteReports
<1>4. ReportsOf(r)' = ReportsOf(r) \ S
  BY <1>3 DEF ReportsOf
<1>5. Cardinality(ReportsOf(r) \ S) = Cardinality(ReportsOf(r)) - Cardinality(ReportsOf(r) \cap S)
  BY CountType, FS_Difference
<1>6. ReportsOf(r) \cap S = S
  OBVIOUS
<1>7. \A q : q # r => ReportsOf(q)' = ReportsOf(q)
  BY <1>3 DEF ReportsOf
<1> QED
  BY <1>3, <1>4, <1>5, <1>6, <1>7 DEF countExecutorReports

-----------------------------------------------------------------------------
(* What the only worker knows *)

\* Handlers and the owner leave it true.
LEMMA AloneFrame ==
  ASSUME StoreTypeOK, StoreTypeOK', StoreAssumption, WorkerTypeOK, WorkerControl,
         NEW w \in Workers, Alone(w),
         wpc'[w] = wpc[w], todo'[w] = todo[w], cur'[w] = cur[w], batch'[w] = batch[w],
         surplus'[w] = surplus[w], outbox'[w] = outbox[w], UNCHANGED merkleCollection,
         executorCollection \subseteq executorCollection',
         \A r \in Requests : requestCollection[r] = "unsubmitted"
                               => requestCollection'[r] = "unsubmitted"
  PROVE  Alone(w)'
<1>1. wpc[w] \in LoopSteps \cup SubmittedSteps => cur[w] \in Requests
  BY DEF WorkerControl, Control
<1>0. wpc[w] \in LoopSteps => Threshold[cur[w]] \in Nat
  BY <1>1 DEF StoreAssumption
<1>2. wpc[w] \in LoopSteps \cup SubmittedSteps
        => requestCollection'[cur[w]] = "unsubmitted" /\ cur[w] \notin todo[w]
  BY <1>1 DEF Alone
<1>3. \A r \in todo[w] : requestCollection'[r] = "unsubmitted"
  BY DEF Alone, WorkerTypeOK
<1>4. StoredRoots' = StoredRoots
  BY DEF StoredRoots
<1>5. ReportsOf(cur[w]) \subseteq ReportsOf(cur[w])'
  BY ReportsGrow
<1>6. countExecutorReports(cur[w]) <= countExecutorReports(cur[w])'
      /\ countExecutorReports(cur[w]) \in Nat /\ countExecutorReports(cur[w])' \in Nat
  BY ReportsGrow
<1>7. ASSUME NEW n \in Int, countExecutorReports(cur[w]) >= n
      PROVE  countExecutorReports(cur[w])' >= n
  BY <1>6, <1>7
<1>8. wpc[w] = "query" => countExecutorReports(cur[w])' >= Threshold[cur[w]]
  <2> HAVE wpc[w] = "query"
  <2>1. Threshold[cur[w]] \in Int
    BY <1>0 DEF LoopSteps
  <2> QED
    BY <1>7, <2>1 DEF Alone
<1>9. wpc[w] = "querySurplus"
        => countExecutorReports(cur[w])' >= Threshold[cur[w]] + surplus[w]
  <2> HAVE wpc[w] = "querySurplus"
  <2>1. Threshold[cur[w]] + surplus[w] \in Int
    BY <1>0 DEF LoopSteps, WorkerTypeOK
  <2> QED
    BY <1>7, <2>1 DEF Alone
<1>10. wpc[w] = "deleteSurplus"
        => countExecutorReports(cur[w])' >= Threshold[cur[w]] + Cardinality(batch[w])
  <2> HAVE wpc[w] = "deleteSurplus"
  <2>1. batch[w] \subseteq ReportsOf(cur[w])
    BY DEF Alone
  <2>2. Cardinality(batch[w]) \in Nat
    BY <2>1, CountType, FS_Subset, FS_CardinalityType
  <2>3. Threshold[cur[w]] + Cardinality(batch[w]) \in Int
    BY <1>0, <2>2 DEF LoopSteps
  <2> QED
    BY <1>7, <2>3 DEF Alone
<1> QED
  BY <1>2, <1>3, <1>4, <1>5, <1>8, <1>9, <1>10 DEF Alone, Leaves

\* Asleep or between two requests only the rest of the round is known.
LEMMA AloneIdle ==
  ASSUME NEW w \in Workers, wpc'[w] \in {"sleep", "loop"}, outbox'[w] = {},
         \A r \in todo'[w] : requestCollection'[r] = "unsubmitted"
  PROVE  Alone(w)'
BY DEF Alone, LoopSteps, SubmittedSteps, TxSteps

LEMMA AloneRestarts ==
  ASSUME WorkerTypeOK, NEW w \in Workers, NEW price, EndRound(w, price)
  PROVE  Alone(w)'
BY AloneIdle DEF EndRound, At, WorkerTypeOK

\* The worker's own steps establish what the next await relies on.
LEMMA AloneSteps ==
  ASSUME StoreAssumption, StoreTypeOK, StoreTypeOK', WorkerTypeOK, WorkerControl, UniqueReport,
         NEW w \in Workers, Alone(w), WorkerStep(w) \/ WorkerFault(w)
  PROVE  Alone(w)'
<1> USE DEF WorkerTypeOK, LoopSteps, SubmittedSteps, TxSteps
<1>0. /\ wpc[w] \in LoopSteps \cup SubmittedSteps => cur[w] \in Requests
      /\ wpc[w] \in LoopSteps => Threshold[cur[w]] \in Nat \ {0}
      /\ countExecutorReports(cur[w]) \in Nat
  BY CountType DEF WorkerControl, Control, StoreAssumption
<1>1. ASSUME NEW price, EndRound(w, price) PROVE Alone(w)'
  BY <1>1, AloneRestarts
<1>2. ASSUME Continue(w), outbox'[w] = {},
             \A r \in todo[w] : requestCollection'[r] = "unsubmitted"
      PROVE  Alone(w)'
  BY <1>2, AloneIdle DEF Continue, At
<1>3. CASE StartRound(w)
  <2>1. CASE findUnsubmittedRequests = {}
    BY <1>1, <1>3, <2>1 DEF StartRound
  <2>2. CASE findUnsubmittedRequests # {}
    <3>1. \A r \in findUnsubmittedRequests : requestCollection[r] = "unsubmitted"
      BY DEF findUnsubmittedRequests, Unsubmitted
    <3> QED
      BY <1>3, <2>2, <3>1, AloneIdle DEF StartRound, At, storeVars, Alone
  <2> QED
    BY <2>1, <2>2
<1>4. CASE NextRequest(w)
  BY <1>4 DEF NextRequest, At, storeVars, Alone
<1>5. CASE CountStored(w)
  <2>1. /\ UNCHANGED <<storeVars, todo, cur, batch, outbox>>
        /\ requestCollection[cur[w]] = "unsubmitted" /\ cur[w] \notin todo[w]
        /\ outbox[w] = {} /\ \A r \in todo[w] : requestCollection[r] = "unsubmitted"
    BY <1>5 DEF CountStored, Alone
  <2>2. countExecutorReports(cur[w])' = countExecutorReports(cur[w])
    BY <2>1 DEF storeVars, countExecutorReports, ReportsOf
  <2>3. /\ wpc'[w] \in {"query", "findSubmitted", "querySurplus"}
        /\ wpc'[w] = "query" => countExecutorReports(cur[w]) = Threshold[cur[w]]
        /\ wpc'[w] = "querySurplus"
             => countExecutorReports(cur[w]) = Threshold[cur[w]] + surplus'[w]
    BY <1>0, <1>5 DEF CountStored, Surplus, At
  <2> QED
    BY <1>0, <1>5, <2>1, <2>2, <2>3 DEF storeVars, Alone
<1>6. CASE QueryReports(w)
  <2>1. PICK S \in queryExecutorReportsWithThreshold(cur[w], Threshold[cur[w]]) :
          batch' = [batch EXCEPT ![w] = S]
    BY <1>6 DEF QueryReports
  <2>2. S \subseteq ReportsOf(cur[w]) /\ Cardinality(S) = Leaves(cur[w])
    BY <1>0, <1>6, QueryCount DEF QueryReports, Alone, Leaves
  <2> QED
    BY <1>6, <2>1, <2>2 DEF QueryReports, Await, At, storeVars, Alone, ReportsOf, Leaves
<1>7. CASE CompareRoot(w)
  <2>1. RootOf(w) # NoRoot
    <3>1. Cardinality(batch[w]) = Leaves(cur[w]) /\ Leaves(cur[w]) # 0
      BY <1>0, <1>7 DEF CompareRoot, Alone, Leaves, Lesser, StoreAssumption
    <3>2. batch[w] # {}
      BY <3>1, FS_EmptySet
    <3> QED
      BY <3>2 DEF RootOf, NoRoot
  <2>2. CASE Continue(w)
    <3>1. UNCHANGED <<storeVars, outbox>>
      BY <1>7, <2>1 DEF CompareRoot, HasRoot, Await
    <3> QED
      BY <1>2, <2>2, <3>1 DEF storeVars, Alone
  <2>3. CASE Await(w, "findRoot") /\ UNCHANGED batch
    BY <1>7, <2>3 DEF CompareRoot, Await, At, storeVars, Alone, ReportsOf, Leaves
  <2> QED
    BY <1>7, <2>1, <2>2, <2>3 DEF CompareRoot, HasRoot
<1>8. CASE FindSubmitted(w)
  BY <1>2, <1>8 DEF FindSubmitted, IsSubmitted, storeVars, Alone
<1>9. CASE QuerySurplus(w)
  <2>1. PICK S \in queryExecutorReportsWithThreshold(cur[w], surplus[w]) :
          batch' = [batch EXCEPT ![w] = S]
    BY <1>9 DEF QuerySurplus
  <2>2. S \subseteq ReportsOf(cur[w]) /\ Cardinality(S) \in Nat /\ Cardinality(S) <= surplus[w]
    BY <1>9, <2>1, QueryAtMost
  <2>3. countExecutorReports(cur[w]) >= Threshold[cur[w]] + Cardinality(S)
    BY <1>0, <1>9, <2>2 DEF QuerySurplus, Alone
  <2>4. /\ UNCHANGED <<storeVars, todo, cur, outbox>>
        /\ wpc'[w] = "deleteSurplus" /\ batch'[w] = S
        /\ requestCollection[cur[w]] = "unsubmitted" /\ cur[w] \notin todo[w]
        /\ outbox[w] = {} /\ \A r \in todo[w] : requestCollection[r] = "unsubmitted"
    BY <1>9, <2>1 DEF QuerySurplus, Await, At, Alone
  <2>5. /\ ReportsOf(cur[w])' = ReportsOf(cur[w])
        /\ countExecutorReports(cur[w])' = countExecutorReports(cur[w])
    BY <2>4 DEF storeVars, countExecutorReports, ReportsOf
  <2>6. /\ batch'[w] \subseteq ReportsOf(cur[w])'
        /\ countExecutorReports(cur[w])' >= Threshold[cur'[w]] + Cardinality(batch'[w])
    BY <2>2, <2>3, <2>4, <2>5
  <2> QED
    BY <2>4, <2>6 DEF storeVars, Alone
<1>10. CASE DeleteSurplus(w)
  BY <1>2, <1>10 DEF DeleteSurplus, Alone
<1>11. CASE FindMerkleRoot(w)
  BY <1>11 DEF FindMerkleRoot, RootMissing, Await, At, storeVars, Alone, ReportsOf,
     Leaves, StoredRoots
<1>12. CASE InsertMerkleRoot(w)
  BY <1>12 DEF InsertMerkleRoot, Await, At, Alone, ReportsOf, Leaves
<1>13. CASE FindRequest(w)
  BY <1>2, <1>13 DEF FindRequest, Await, At, storeVars, Alone, ReportsOf, Leaves
<1>14. CASE UpdateStatus(w)
  <2>1. \A r \in todo[w] : requestCollection'[r] = "unsubmitted"
    BY <1>14 DEF UpdateStatus, updateReportsStatus, SetStatus, StoreTypeOK, Alone
  <2> QED
    BY <1>2, <1>14, <2>1 DEF UpdateStatus, Alone
<1>15. CASE FinishLoop(w)
  BY <1>1, <1>15 DEF FinishLoop
<1>16. CASE WorkerFault(w)
  BY <1>1, <1>2, <1>16 DEF WorkerFault, SubmittedRequestFails, StoreRootFails,
     BulkUpdateFails, RoundFails, Alone
<1> QED
  BY <1>3, <1>4, <1>5, <1>6, <1>7, <1>8, <1>9, <1>10, <1>11, <1>12, <1>13, <1>14,
     <1>15, <1>16 DEF WorkerStep, RemoveRedundant, Broadcast, ExecuteCommitted,
     ExecuteThrows, StoreRoot, RootsStored, BulkUpdate, Alone

\* Stored reports only go when the worker trims.
LEMMA HandlersKeep ==
  ASSUME HandlerNext, StoreTypeOK
  PROVE  /\ executorCollection \subseteq executorCollection'
         /\ UNCHANGED merkleCollection
         /\ \A r \in Requests : requestCollection[r] = "unsubmitted"
                                => requestCollection'[r] = "unsubmitted"
BY DEF HandlerNext, ReceiveReport, CheckSender, FindReport, CountReports, InsertRequest,
   InsertReport, insertExecutorReport, RefuseDuplicate, HandlerFails, BenchmarkPost,
   insertRequest, SetStatus, StoreTypeOK, storeVars

LEMMA AloneNext ==
  ASSUME OneWorker, Inv, UniqueReport, AloneControl, [Next]_vars
  PROVE  AloneControl'
<1> USE StoreAssumption
<1>0. /\ StoreTypeOK /\ WorkerTypeOK /\ WorkerControl
      /\ StoreTypeOK'
  BY InvNext DEF Inv, TypeOK
<1> SUFFICES ASSUME NEW w \in Workers PROVE Alone(w)'
  BY DEF AloneControl
<1>1. Alone(w)
  BY DEF AloneControl
<1>2. CASE HandlerNext /\ UNCHANGED workerVars
  BY <1>0, <1>1, <1>2, HandlersKeep, AloneFrame DEF workerVars, localVars
<1>3. CASE WorkerNext
  <2>1. WorkerStep(w) \/ WorkerFault(w)
    BY <1>3 DEF WorkerNext, OneWorker
  <2> QED
    BY <1>0, <1>1, <2>1, AloneSteps
<1>4. CASE \E r \in Requests \ BenchIds : OwnerRegisters(r)
  BY <1>0, <1>1, <1>4, AloneFrame DEF OwnerRegisters, workerVars, localVars
<1>5. CASE ServerCrash
  <2>1. CASE w \in Embedded
    BY <1>5, <2>1, AloneIdle DEF ServerCrash
  <2>2. CASE w \notin Embedded
    BY <1>0, <1>1, <1>5, <2>2, AloneFrame DEF ServerCrash
  <2> QED
    BY <2>1, <2>2
<1>6. CASE \E v \in Workers : IntervalCrash(v)
  <2>1. PICK v \in Workers : IntervalCrash(v)
    BY <1>6
  <2>2. v = w
    BY DEF OneWorker
  <2> QED
    BY <1>0, <2>1, <2>2, AloneRestarts DEF IntervalCrash
<1>7. CASE UNCHANGED vars
  BY <1>0, <1>1, <1>7, AloneFrame DEF vars, storeVars, workerVars, localVars
<1> QED
  BY <1>2, <1>3, <1>4, <1>5, <1>6, <1>7 DEF Next

-----------------------------------------------------------------------------
(* Each step of the backend is a step of the ledger or none *)

\* The ledger counts as the backend does.
LEMMA LedgerCardinality == \A S : Ledger!Cardinality(S) = Cardinality(S)
BY DEF Ledger!Cardinality, Cardinality

\* Nothing the ledger sees changes.
LEMMA LedgerStutters ==
  ASSUME UNCHANGED <<executorCollection, merkleCollection>>,
         \A r \in Requests : IsSubmitted(r)' <=> IsSubmitted(r)
  PROVE  UNCHANGED Ledger!vars
<1>1. \A r \in Requests : ReportsOf(r)' = ReportsOf(r) /\ RootsFor(r)' = RootsFor(r)
  BY DEF ReportsOf, RootsFor, StoredRoots
<1> QED
  BY <1>1 DEF Ledger!vars, accepted, certified, sealed

LEMMA InsertAccepts ==
  ASSUME HandlerAssumption, StoreAssumption, StoreTypeOK, HandlerTypeOK, OvershootBounded,
         NEW h \in Handlers, InsertReport(h)
  PROVE  Ledger!Accept(body[h].requestId)
<1> DEFINE r == body[h].requestId
<1>1. body[h] \in Reports /\ r \in Requests
  BY DEF InsertReport, HandlerTypeOK, Reports
<1>2. executorCollection' = executorCollection \cup {body[h]}
      /\ \A y \in ReportsOf(r) : y.executor # body[h].executor
  BY DEF InsertReport, insertExecutorReport, findReport
<1>3. Cardinality(ReportsOf(r)) < Threshold[r] + (Cardinality(Handlers) - 1)
  <2>1. h \in Inserting(r)
    BY DEF Inserting, InsertReport
  <2>2. IsFiniteSet(Inserting(r)) /\ Cardinality(Inserting(r)) \in Nat
        /\ Cardinality(Handlers) \in Nat
    BY InsertingType
  <2>3. Cardinality(Inserting(r)) >= 1
    BY <2>1, <2>2, FS_EmptySet
  <2>4. Cardinality(ReportsOf(r)) \in Nat /\ Threshold[r] \in Nat
    BY <1>1, CountType DEF countExecutorReports, StoreAssumption
  <2>5. Cardinality(ReportsOf(r)) + Cardinality(Inserting(r))
          <= Threshold[r] + Cardinality(Handlers) - 1
    BY <1>1 DEF OvershootBounded, countExecutorReports
  <2> QED
    BY <2>2, <2>3, <2>4, <2>5
<1>4. \A q \in Requests :
        ReportsOf(q)' = IF q = r THEN ReportsOf(q) \cup {body[h]} ELSE ReportsOf(q)
  BY <1>2 DEF ReportsOf
<1>5. \A q \in Requests : RootsFor(q)' = RootsFor(q) /\ (IsSubmitted(q)' <=> IsSubmitted(q))
  BY DEF InsertReport, RootsFor, StoredRoots, IsSubmitted
<1>6. accepted'
        = [accepted EXCEPT ![r] = @ \cup {body[h]}]
  BY <1>1, <1>4 DEF accepted
<1>7. /\ certified' = certified
      /\ sealed' = sealed
  BY <1>5 DEF certified, sealed
<1>8. accepted[r] = ReportsOf(r)
  BY <1>1 DEF accepted
<1> QED
  BY <1>1, <1>2, <1>3, <1>6, <1>7, <1>8, LedgerCardinality DEF Ledger!Accept

LEMMA TrimSheds ==
  ASSUME StoreAssumption, StoreTypeOK, WorkerTypeOK, WorkerControl, UniqueReport,
         NEW w \in Workers, Alone(w), DeleteSurplus(w)
  PROVE  Ledger!Shed(cur[w])
<1> DEFINE r == cur[w]
           kept == ReportsOf(r) \ batch[w]
<1>1. r \in Requests /\ requestCollection[r] = "unsubmitted"
  BY DEF DeleteSurplus, WorkerControl, Control, Alone, LoopSteps
<1>2. /\ batch[w] \subseteq ReportsOf(r)
      /\ countExecutorReports(r) >= Threshold[r] + Cardinality(batch[w])
  BY DEF DeleteSurplus, Alone
<1>3. executorCollection' = executorCollection \ batch[w]
  BY <1>2, DeleteCount DEF DeleteSurplus
<1>4. Cardinality(kept) >= Threshold[r]
  <2>1. IsFiniteSet(ReportsOf(r)) /\ countExecutorReports(r) \in Nat
    BY CountType
  <2>2. IsFiniteSet(batch[w]) /\ Cardinality(batch[w]) \in Nat
    BY <1>2, <2>1, FS_Subset, FS_CardinalityType
  <2>3. Cardinality(kept) = Cardinality(ReportsOf(r)) - Cardinality(ReportsOf(r) \cap batch[w])
    BY <2>1, FS_Difference
  <2>4. ReportsOf(r) \cap batch[w] = batch[w]
    BY <1>2
  <2>5. Threshold[r] \in Nat
    BY <1>1 DEF StoreAssumption
  <2> QED
    BY <1>2, <2>1, <2>2, <2>3, <2>4, <2>5 DEF countExecutorReports
<1>5. \A q \in Requests : ReportsOf(q)' = IF q = r THEN kept ELSE ReportsOf(q)
  BY <1>2, <1>3 DEF ReportsOf
<1>6. \A q \in Requests : RootsFor(q)' = RootsFor(q) /\ (IsSubmitted(q)' <=> IsSubmitted(q))
  BY DEF DeleteSurplus, RootsFor, StoredRoots, IsSubmitted
<1>7. accepted' = [accepted EXCEPT ![r] = kept]
  BY <1>1, <1>5 DEF accepted
<1>8. ~IsSubmitted(r)
  BY <1>1 DEF IsSubmitted
<1>9. /\ certified' = certified
      /\ sealed' = sealed
  BY <1>6 DEF certified, sealed
<1>10. kept \in SUBSET accepted[r] /\ r \notin sealed
  BY <1>1, <1>8 DEF accepted, sealed
<1> QED
  BY <1>4, <1>7, <1>9, <1>10, LedgerCardinality DEF Ledger!Shed

LEMMA InsertCertifies ==
  ASSUME StoreAssumption, StoreTypeOK, WorkerTypeOK, WorkerControl,
         NEW w \in Workers, Alone(w), InsertMerkleRoot(w)
  PROVE  Ledger!Certify(cur[w])
<1> DEFINE r == cur[w]
           root == batch[w]
<1>1. r \in Requests /\ requestCollection[r] = "unsubmitted"
  BY DEF InsertMerkleRoot, WorkerControl, Control, Alone, SubmittedSteps
<1>2. /\ root \subseteq ReportsOf(r) /\ Cardinality(root) = Leaves(r)
      /\ root \notin StoredRoots
  BY DEF InsertMerkleRoot, Alone, SubmittedSteps
<1>3. /\ root # NoRoot /\ root \subseteq Reports
      /\ \A x \in root : x.requestId = r
  BY <1>2 DEF InsertMerkleRoot, WorkerControl, Control, SubmittedSteps, ReportsOf, StoreTypeOK
<1>4. StoredRoots' = StoredRoots \cup {root}
  BY <1>3, StoredGrows DEF InsertMerkleRoot, Roots
<1>5. \A q \in Requests : RootsFor(q)' = IF q = r THEN RootsFor(q) \cup {root} ELSE RootsFor(q)
  BY <1>3, <1>4 DEF RootsFor, NoRoot
<1>6. \A q \in Requests : ReportsOf(q)' = ReportsOf(q) /\ (IsSubmitted(q)' <=> IsSubmitted(q))
  BY DEF InsertMerkleRoot, ReportsOf, IsSubmitted
<1>7. certified'
        = [certified EXCEPT ![r] = @ \cup {root}]
  BY <1>1, <1>5 DEF certified
<1>8. ~IsSubmitted(r) /\ root \notin RootsFor(r)
  BY <1>1, <1>2 DEF IsSubmitted, RootsFor
<1>9. /\ accepted' = accepted
      /\ sealed' = sealed
  BY <1>6 DEF accepted, sealed
<1>10. /\ root \in SUBSET accepted[r]
       /\ root \notin certified[r]
       /\ Cardinality(root) = [q \in Requests |-> Leaves(q)][r]
       /\ r \notin sealed
  BY <1>1, <1>2, <1>8 DEF accepted, certified, sealed
<1> QED
  BY <1>7, <1>9, <1>10, LedgerCardinality DEF Ledger!Certify

LEMMA UpdateSeals ==
  ASSUME StoreAssumption, StoreTypeOK, WorkerTypeOK, WorkerControl,
         NEW w \in Workers, Alone(w), UpdateStatus(w)
  PROVE  Ledger!Seal(cur[w])
<1> DEFINE r == cur[w]
           root == batch[w]
<1>1. r \in Requests /\ requestCollection[r] = "unsubmitted"
  BY DEF UpdateStatus, WorkerControl, Control, Alone, SubmittedSteps
<1>2. root \subseteq ReportsOf(r)
  BY DEF UpdateStatus, Alone, SubmittedSteps
<1>3. root \in RootsFor(r)
  BY <1>2 DEF UpdateStatus, WorkerControl, Control, SubmittedSteps, RootsFor, ReportsOf,
     StoreTypeOK
<1>4. requestCollection' = [requestCollection EXCEPT ![r] = "submitted"]
  BY <1>1 DEF UpdateStatus, updateReportsStatus, SetStatus
<1>5. \A q \in Requests : IsSubmitted(q)' <=> (IsSubmitted(q) \/ q = r)
  BY <1>1, <1>4 DEF IsSubmitted, StoreTypeOK
<1>6. \A q \in Requests : ReportsOf(q)' = ReportsOf(q) /\ RootsFor(q)' = RootsFor(q)
  BY DEF UpdateStatus, ReportsOf, RootsFor, StoredRoots
<1>7. sealed' = sealed \cup {r}
  BY <1>1, <1>5 DEF sealed
<1>8. /\ UNCHANGED <<accepted, certified>>
      /\ root \in certified[r] /\ root \subseteq accepted[r]
  BY <1>1, <1>2, <1>3, <1>6 DEF accepted, certified
<1> QED
  BY <1>7, <1>8 DEF Ledger!Seal

\* Handlers accept one report at a time.
LEMMA HandlersAccept ==
  ASSUME HandlerAssumption, StoreAssumption, StoreTypeOK, HandlerTypeOK, OvershootBounded,
         HandlerNext
  PROVE  [Ledger!Next]_(Ledger!vars)
<1>1. ASSUME NEW h \in Handlers, InsertReport(h) PROVE Ledger!Next
  <2>1. body[h].requestId \in Requests
    BY <1>1 DEF InsertReport, HandlerTypeOK, Reports
  <2>2. Ledger!Accept(body[h].requestId)
    BY <1>1, InsertAccepts
  <2> QED
    BY <2>1, <2>2 DEF Ledger!Next
<1>2. ASSUME NEW r \in Requests, insertRequest(r),
             UNCHANGED <<executorCollection, merkleCollection>>
      PROVE  UNCHANGED Ledger!vars
  BY <1>2, LedgerStutters DEF insertRequest, SetStatus, IsSubmitted, StoreTypeOK
<1>3. ASSUME NEW h \in Handlers, InsertRequest(h) PROVE UNCHANGED Ledger!vars
  <2>1. body[h].requestId \in Requests
    BY <1>3 DEF InsertRequest, HandlerTypeOK, Reports
  <2> QED
    BY <1>2, <1>3, <2>1 DEF InsertRequest
<1>4. ASSUME NEW r \in BenchIds, BenchmarkPost(r) PROVE UNCHANGED Ledger!vars
  BY <1>2, <1>4 DEF BenchmarkPost, StoreAssumption
<1>5. ASSUME NEW h \in Handlers,
             \/ ReceiveReport(h) \/ CheckSender(h) \/ FindReport(h)
             \/ CountReports(h) \/ RefuseDuplicate(h) \/ HandlerFails(h)
      PROVE  UNCHANGED Ledger!vars
  BY <1>5, LedgerStutters DEF ReceiveReport, CheckSender, FindReport, CountReports,
     RefuseDuplicate, HandlerFails, storeVars, IsSubmitted
<1> QED
  BY <1>1, <1>3, <1>4, <1>5 DEF HandlerNext

\* The worker sheds, certifies and seals; what is left of its steps only
\* reads, and those of a transaction are never reached.
LEMMA WorkerKeepsPromises ==
  ASSUME StoreAssumption, StoreTypeOK, WorkerTypeOK, WorkerControl, UniqueReport,
         NEW w \in Workers, Alone(w), WorkerStep(w) \/ WorkerFault(w)
  PROVE  [Ledger!Next]_(Ledger!vars)
<1>1. wpc[w] \in LoopSteps \cup SubmittedSteps => cur[w] \in Requests
  BY DEF WorkerControl, Control
<1>2. CASE DeleteSurplus(w)
  BY <1>1, <1>2, TrimSheds DEF Ledger!Next, DeleteSurplus, LoopSteps
<1>3. CASE InsertMerkleRoot(w)
  BY <1>1, <1>3, InsertCertifies DEF Ledger!Next, InsertMerkleRoot, SubmittedSteps
<1>4. CASE UpdateStatus(w)
  BY <1>1, <1>4, UpdateSeals DEF Ledger!Next, UpdateStatus, SubmittedSteps
<1>5. CASE UNCHANGED <<executorCollection, requestCollection, merkleCollection>>
  BY <1>5, LedgerStutters DEF IsSubmitted
<1>6. CASE WorkerFault(w)
  BY <1>5, <1>6 DEF WorkerFault
<1>7. CASE \/ StartRound(w) \/ NextRequest(w) \/ CountStored(w) \/ QueryReports(w)
           \/ CompareRoot(w) \/ FindSubmitted(w) \/ QuerySurplus(w)
           \/ FindMerkleRoot(w) \/ FindRequest(w) \/ FinishLoop(w)
  BY <1>5, <1>7 DEF StartRound, NextRequest, CountStored, QueryReports, CompareRoot,
     FindSubmitted, QuerySurplus, FindMerkleRoot, FindRequest, FinishLoop, storeVars
<1>8. ~ \/ RemoveRedundant(w) \/ Broadcast(w) \/ ExecuteCommitted(w) \/ ExecuteThrows(w)
        \/ StoreRoot(w) \/ RootsStored(w) \/ BulkUpdate(w)
  BY DEF RemoveRedundant, Broadcast, ExecuteCommitted, ExecuteThrows, StoreRoot,
     RootsStored, BulkUpdate, Alone, TxSteps
<1> QED
  BY <1>2, <1>3, <1>4, <1>6, <1>7, <1>8 DEF WorkerStep

LEMMA LedgerInit == Init => Ledger!Init
BY DEF Init, StoreInit, Ledger!Init, accepted, certified, sealed, ReportsOf, RootsFor,
   StoredRoots, IsSubmitted

LEMMA LedgerStep ==
  ASSUME OneWorker, Inv, UniqueReport, OvershootBounded, AloneControl, [Next]_vars
  PROVE  [Ledger!Next]_(Ledger!vars)
<1> USE StoreAssumption, HandlerAssumption
<1>0. StoreTypeOK /\ HandlerTypeOK /\ WorkerTypeOK /\ WorkerControl
  BY DEF Inv, TypeOK
<1>1. CASE HandlerNext /\ UNCHANGED workerVars
  BY <1>0, <1>1, HandlersAccept
<1>2. CASE WorkerNext
  <2>1. PICK w \in Workers : WorkerStep(w) \/ WorkerFault(w)
    BY <1>2 DEF WorkerNext
  <2> QED
    BY <1>0, <2>1, WorkerKeepsPromises DEF AloneControl
<1>3. CASE \/ \E r \in Requests \ BenchIds : OwnerRegisters(r)
           \/ ServerCrash
           \/ \E w \in Workers : IntervalCrash(w)
           \/ UNCHANGED vars
  <2>1. UNCHANGED <<executorCollection, requestCollection, merkleCollection>>
    BY <1>3 DEF OwnerRegisters, ServerCrash, IntervalCrash, vars, storeVars
  <2> QED
    BY <2>1, LedgerStutters DEF IsSubmitted
<1> QED
  BY <1>1, <1>2, <1>3 DEF Next

-----------------------------------------------------------------------------
(* Theorems *)

LEMMA AloneInit == Init => AloneControl
BY DEF Init, WorkerInit, AloneControl, Alone, LoopSteps, SubmittedSteps, TxSteps

\* With one interval worker nothing it counted, queried or looked up is stale
\* when it acts on it, whatever the handlers, the owner and faults do between
\* its awaits: a trim leaves the threshold, a stored root has the agreed size
\* and reports that are still there, and no transaction is ever sent.
THEOREM AloneCorrect == OneWorker /\ Spec => []AloneControl
<1> SUFFICES ASSUME OneWorker PROVE Spec => []AloneControl
  OBVIOUS
<1>1. Inv /\ UniqueReport /\ AloneControl /\ [Next]_vars => AloneControl'
  BY AloneNext
<1> QED
  BY AloneInit, OneReportEach, InvInit, InvNext, <1>1, PTL DEF Spec

\* With one interval worker findMerkleRoot before insertMerkleRoot keeps the
\* merkle_roots collection free of duplicates, although insertOne of
\* merkle.repository.ts refuses none.
THEOREM RootsDistinct == OneWorker /\ Spec => []NoDuplicateRoots
<1> SUFFICES ASSUME OneWorker PROVE Spec => []NoDuplicateRoots
  OBVIOUS
<1>1. Init => NoDuplicateRoots
  BY DEF Init, StoreInit, NoDuplicateRoots
<1>2. ASSUME Inv, AloneControl, NoDuplicateRoots, [Next]_vars
      PROVE  NoDuplicateRoots'
  <2>0. merkleCollection \in Seq(Roots)
    BY <1>2 DEF Inv, TypeOK, StoreTypeOK
  <2>1. CASE UNCHANGED merkleCollection
    BY <1>2, <2>1 DEF NoDuplicateRoots
  <2>2. ASSUME NEW w \in Workers, InsertMerkleRoot(w) PROVE NoDuplicateRoots'
    <3>1. batch[w] \notin StoredRoots
      BY <1>2, <2>2 DEF InsertMerkleRoot, AloneControl, Alone
    <3>2. merkleCollection' = Append(merkleCollection, batch[w])
      BY <2>2 DEF InsertMerkleRoot, insertMerkleRoot
    <3> DEFINE n == Len(merkleCollection)
    <3>3. /\ n \in Nat
          /\ DOMAIN merkleCollection = 1..n
          /\ DOMAIN merkleCollection' = 1..(n + 1)
          /\ \A i \in 1..n : merkleCollection'[i] = merkleCollection[i]
          /\ merkleCollection'[n + 1] = batch[w]
      BY <2>0, <3>2
    <3>4. \A i \in 1..n : merkleCollection[i] # batch[w]
      BY <3>1, <3>3 DEF StoredRoots
    <3> QED
      BY <1>2, <3>3, <3>4 DEF NoDuplicateRoots
  <2>3. ASSUME NEW w \in Workers, WorkerStep(w) \/ WorkerFault(w)
        PROVE  NoDuplicateRoots'
    <3>1. ~StoreRoot(w)
      BY <1>2 DEF StoreRoot, AloneControl, Alone, TxSteps
    <3> QED
      BY <2>1, <2>2, <2>3, <3>1 DEF WorkerStep, WorkerFault, StartRound, EndRound,
         NextRequest, CountStored, QueryReports, CompareRoot, FindSubmitted, RemoveRedundant,
         QuerySurplus, DeleteSurplus, FindMerkleRoot, FindRequest, UpdateStatus,
         FinishLoop, Broadcast, ExecuteCommitted, ExecuteThrows, RootsStored, BulkUpdate,
         storeVars
  <2>4. CASE HandlerNext
    BY <1>2, <2>1, <2>4, HandlersKeep DEF Inv, TypeOK
  <2> QED
    BY <1>2, <2>1, <2>3, <2>4 DEF Next, WorkerNext, OwnerRegisters, ServerCrash,
       IntervalCrash, vars, storeVars
<1>3. Inv /\ AloneControl /\ NoDuplicateRoots /\ [Next]_vars => NoDuplicateRoots'
  BY <1>2
<1> QED
  BY <1>1, <1>3, AloneCorrect, InvInit, InvNext, PTL DEF Spec

\* The backend with one interval worker implements RequestLedger, through
\* every interleaving with the handlers and every fault: each of its steps
\* accepts, sheds, certifies or seals as the ledger allows, or changes
\* nothing the ledger sees.
THEOREM ImplementsLedger == OneWorker /\ Spec => LedgerSpec
<1> SUFFICES ASSUME OneWorker PROVE Spec => LedgerSpec
  OBVIOUS
<1>1. Inv /\ UniqueReport /\ OvershootBounded /\ AloneControl /\ [Next]_vars
        => [Ledger!Next]_(Ledger!vars)
  BY LedgerStep
<1> QED
  BY <1>1, LedgerInit, InvInit, InvNext, OneReportEach, Overshoot, AloneCorrect, PTL
     DEF Spec, LedgerSpec, Ledger!Spec

\* A request whose reports are not thinned out has no fewer of them.
LEMMA CountGrows ==
  ASSUME StoreTypeOK, StoreTypeOK', NEW r, ReportsOf(r) \subseteq ReportsOf(r)'
  PROVE  /\ countExecutorReports(r) <= countExecutorReports(r)'
         /\ countExecutorReports(r) \in Nat /\ countExecutorReports(r)' \in Nat
<1>1. IsFiniteSet(ReportsOf(r)) /\ countExecutorReports(r) \in Nat
  BY CountType
<1>2. IsFiniteSet(ReportsOf(r)')
  <2>1. ReportsOf(r)' \subseteq executorCollection'
    BY DEF ReportsOf
  <2> QED
    BY <2>1, FS_Subset DEF StoreTypeOK
<1>3. Cardinality(ReportsOf(r)) <= Cardinality(ReportsOf(r)')
  BY <1>2, FS_Subset
<1> QED
  BY <1>1, <1>2, <1>3, FS_CardinalityType DEF countExecutorReports

\* With one interval worker a step thins out only the reports of a request
\* that keeps its threshold of them.
LEMMA ThinnedOut ==
  ASSUME Inv, Inv', UniqueReport, AloneControl, [Next]_vars, NEW r \in Requests
  PROVE  \/ ReportsOf(r) \subseteq ReportsOf(r)'
         \/ countExecutorReports(r)' >= Threshold[r]
<1> DEFINE Goal == \/ ReportsOf(r) \subseteq ReportsOf(r)'
                   \/ countExecutorReports(r)' >= Threshold[r]
<1>0. StoreTypeOK /\ StoreTypeOK' /\ Threshold[r] \in Nat
  BY StoreAssumption DEF Inv, TypeOK, StoreAssumption
<1>1. CASE executorCollection \subseteq executorCollection'
  BY <1>1 DEF ReportsOf
<1>2. ASSUME NEW w \in Workers, DeleteSurplus(w) PROVE Goal
  <2> PICK q : q = cur[w]
    OBVIOUS
  <2>1. /\ batch[w] \subseteq ReportsOf(q)
        /\ countExecutorReports(q) >= Threshold[q] + Cardinality(batch[w])
        /\ deleteReports(q, batch[w])
    BY <1>2 DEF DeleteSurplus, AloneControl, Alone
  <2>2. /\ Cardinality(ReportsOf(q)') = countExecutorReports(q) - Cardinality(batch[w])
        /\ \A p : p # q => ReportsOf(p)' = ReportsOf(p)
    BY <1>0, <2>1, DeleteCount
  <2>3. CASE r # q
    BY <2>2, <2>3
  <2>4. CASE r = q
    <3>1. IsFiniteSet(ReportsOf(r)) /\ countExecutorReports(r) \in Nat
      BY <1>0, CountType
    <3>2. Cardinality(batch[w]) \in Nat
      BY <2>1, <2>4, <3>1, FS_Subset, FS_CardinalityType
    <3>3. countExecutorReports(r)' = countExecutorReports(r) - Cardinality(batch[w])
      BY <2>2, <2>4 DEF countExecutorReports
    <3> QED
      BY <1>0, <2>1, <2>4, <3>1, <3>2, <3>3
  <2> QED
    BY <2>3, <2>4
<1>3. CASE HandlerNext
  BY <1>0, <1>1, <1>3, HandlersKeep
<1>4. ASSUME NEW w \in Workers, WorkerStep(w) \/ WorkerFault(w), ~DeleteSurplus(w)
      PROVE  UNCHANGED executorCollection
  BY <1>4 DEF WorkerStep, WorkerFault, StartRound, NextRequest, CountStored, QueryReports,
     CompareRoot, FindSubmitted, RemoveRedundant, QuerySurplus, FindMerkleRoot,
     InsertMerkleRoot, FindRequest, UpdateStatus, FinishLoop, Broadcast,
     ExecuteCommitted, ExecuteThrows, StoreRoot, RootsStored, BulkUpdate, storeVars
<1>5. CASE ~HandlerNext /\ ~WorkerNext
  BY <1>1, <1>5 DEF Next, OwnerRegisters, ServerCrash, IntervalCrash, vars, storeVars
<1>6. CASE WorkerNext
  BY <1>1, <1>2, <1>4, <1>6 DEF WorkerNext
<1> QED
  BY <1>3, <1>5, <1>6

\* With one interval worker the comment "update the reports so they have
\* equal threshold" (interval.service.ts:118) is right: no trim takes a
\* request below its threshold, as trims of two workers may.
THEOREM TrimSafeAlone == OneWorker /\ Spec => TrimKeepsThreshold
<1> SUFFICES ASSUME OneWorker PROVE Spec => TrimKeepsThreshold
  OBVIOUS
<1>1. ASSUME Inv, Inv', UniqueReport, AloneControl, [Next]_vars, NEW r \in Requests,
             countExecutorReports(r) >= Threshold[r]
      PROVE  countExecutorReports(r)' >= Threshold[r]
  <2>1. StoreTypeOK /\ StoreTypeOK' /\ Threshold[r] \in Nat
    BY <1>1, StoreAssumption DEF Inv, TypeOK, StoreAssumption
  <2>2. CASE ReportsOf(r) \subseteq ReportsOf(r)'
    <3>1. /\ countExecutorReports(r) <= countExecutorReports(r)'
          /\ countExecutorReports(r) \in Nat /\ countExecutorReports(r)' \in Nat
      BY <2>1, <2>2, CountGrows
    <3> QED
      BY <1>1, <2>1, <3>1
  <2> QED
    BY <1>1, <2>2, ThinnedOut
<1>2. Inv /\ Inv' /\ UniqueReport /\ AloneControl /\ [Next]_vars
        => [\A r \in Requests : countExecutorReports(r) >= Threshold[r]
                                  => countExecutorReports(r)' >= Threshold[r]]_vars
  BY <1>1
<1> QED
  BY <1>2, InvInit, InvNext, OneReportEach, AloneCorrect, PTL DEF Spec, TrimKeepsThreshold

-----------------------------------------------------------------------------
(* What roots are made of *)

\* A transaction registers nothing: it is only sent with empty roots.
LEMMA CommitIdle ==
  ASSUME StoreTypeOK, OnlyEmptyRootsQueued, NEW w \in Workers, Commit(outbox[w])
  PROVE  chainRoot' = chainRoot
<1>1. \A r \in Ids(outbox[w]) :
        /\ chainRoot[r] = NoRoot
        /\ (CHOOSE t \in outbox[w] : t.requestId = r).root = NoRoot
  BY DEF Ids, Commit, OnlyEmptyRootsQueued
<1> QED
  BY <1>1 DEF Commit, StoreTypeOK

\* A root on the chain stays there, and a new one covers stored reports.
ChainGrows ==
  \A r \in Requests :
    \/ chainRoot'[r] = chainRoot[r]
    \/ chainRoot[r] = NoRoot /\ chainRoot'[r] \subseteq executorCollection

LEMMA ChainNext ==
  ASSUME Inv, OnlyEmptyRootsQueued, [Next]_vars
  PROVE  ChainGrows
<1>0. StoreTypeOK
  BY DEF Inv, TypeOK
<1>1. CASE UNCHANGED chainRoot
  BY <1>1 DEF ChainGrows
<1>2. ASSUME NEW w \in Workers, WorkerStep(w) \/ WorkerFault(w)
      PROVE  UNCHANGED chainRoot
  <2>1. CASE ExecuteCommitted(w) \/ ExecuteThrows(w)
    BY <1>0, <2>1, CommitIdle DEF ExecuteCommitted, ExecuteThrows
  <2>2. CASE ~ (ExecuteCommitted(w) \/ ExecuteThrows(w))
    BY <1>2, <2>2 DEF WorkerStep, WorkerFault, storeVars, StartRound,
       NextRequest, CountStored, QueryReports, CompareRoot, FindSubmitted,
       RemoveRedundant, QuerySurplus, DeleteSurplus, FindMerkleRoot,
       InsertMerkleRoot, FindRequest, UpdateStatus, FinishLoop, Broadcast,
       StoreRoot, RootsStored, BulkUpdate
  <2> QED
    BY <2>1, <2>2
<1>3. ASSUME NEW r \in Requests \ BenchIds, OwnerRegisters(r) PROVE ChainGrows
  <2>1. PICK S \in SUBSET ReportsOf(r) :
          chainRoot[r] = NoRoot /\ chainRoot' = [chainRoot EXCEPT ![r] = S]
    BY <1>3 DEF OwnerRegisters
  <2>2. S \subseteq executorCollection
    BY DEF ReportsOf
  <2> QED
    BY <1>0, <2>1, <2>2 DEF ChainGrows, StoreTypeOK
<1>4. CASE HandlerNext
  BY <1>1, <1>4 DEF HandlerNext, BenchmarkPost, ReceiveReport, Respond, CheckSender,
     FindReport, CountReports, InsertRequest, InsertReport, RefuseDuplicate,
     HandlerFails, storeVars
<1>5. CASE UNCHANGED vars
  BY <1>1, <1>5 DEF vars, storeVars
<1> QED
  BY <1>1, <1>2, <1>3, <1>4, <1>5 DEF Next, WorkerNext, ServerCrash, IntervalCrash

\* A batch is what the worker had, nothing, or stored reports.
LEMMA BatchNext ==
  ASSUME Inv, [Next]_vars, NEW w \in Workers
  PROVE  batch'[w] = batch[w] \/ batch'[w] \subseteq executorCollection
<1>0. WorkerTypeOK
  BY DEF Inv, TypeOK
<1>1. CASE UNCHANGED batch
  BY <1>1
<1>2. ASSUME NEW v \in Workers, WorkerStep(v) \/ WorkerFault(v)
      PROVE  batch'[w] = batch[w] \/ batch'[w] \subseteq executorCollection
  <2>1. CASE QueryReports(v) \/ QuerySurplus(v)
    <3>1. PICK n : \E S \in queryExecutorReportsWithThreshold(cur[v], n) :
                     batch' = [batch EXCEPT ![v] = S]
      BY <2>1 DEF QueryReports, QuerySurplus
    <3>2. \A S \in queryExecutorReportsWithThreshold(cur[v], n) : S \subseteq executorCollection
      BY DEF queryExecutorReportsWithThreshold, ReportsOf
    <3> QED
      BY <1>0, <3>1, <3>2 DEF WorkerTypeOK
  <2>2. CASE Continue(v) \/ \E price : EndRound(v, price)
    BY <1>0, <2>2 DEF WorkerTypeOK, Continue, EndRound
  <2>3. CASE UNCHANGED batch
    BY <2>3
  <2> QED
    BY <1>2, <2>1, <2>2, <2>3 DEF WorkerStep, WorkerFault, StartRound,
       NextRequest, CountStored, CompareRoot, FindSubmitted, RemoveRedundant,
       DeleteSurplus, FindMerkleRoot, InsertMerkleRoot, FindRequest,
       UpdateStatus, FinishLoop, Broadcast, localVars, ExecuteCommitted,
       ExecuteThrows, StoreRoot, RootsStored, BulkUpdate,
       SubmittedRequestFails, StoreRootFails, BulkUpdateFails, RoundFails
<1>3. CASE ServerCrash
  BY <1>0, <1>3 DEF ServerCrash, WorkerTypeOK
<1>4. ASSUME NEW v \in Workers, IntervalCrash(v)
      PROVE  batch'[w] = batch[w] \/ batch'[w] \subseteq executorCollection
  BY <1>0, <1>4 DEF IntervalCrash, EndRound, WorkerTypeOK
<1>5. CASE UNCHANGED workerVars
  BY <1>1, <1>5 DEF workerVars, localVars
<1> QED
  BY <1>2, <1>3, <1>4, <1>5 DEF Next, WorkerNext, OwnerRegisters, vars

\* What is stored is the batch of a worker or the empty root.
LEMMA StoredNext ==
  ASSUME Inv, OnlyEmptyRootsQueued, [Next]_vars, NEW S \in StoredRoots'
  PROVE  S \in StoredRoots \/ S = NoRoot \/ \E w \in Workers : S = batch[w]
<1>0. StoreTypeOK /\ WorkerTypeOK
  BY DEF Inv, TypeOK
<1>1. CASE UNCHANGED merkleCollection
  BY <1>1 DEF StoredRoots
<1>2. ASSUME NEW root \in Roots, insertMerkleRoot(root)
      PROVE  S \in StoredRoots \/ S = root
  BY <1>0, <1>2, StoredGrows
<1>3. ASSUME NEW w \in Workers, WorkerStep(w) \/ WorkerFault(w), ~ UNCHANGED merkleCollection
      PROVE  S \in StoredRoots \/ S = NoRoot \/ \E v \in Workers : S = batch[v]
  <2>1. InsertMerkleRoot(w) \/ StoreRoot(w)
    BY <1>3 DEF WorkerStep, WorkerFault, storeVars, StartRound,
       NextRequest, CountStored, QueryReports, CompareRoot, FindSubmitted,
       RemoveRedundant, QuerySurplus, DeleteSurplus, FindMerkleRoot,
       FindRequest, UpdateStatus, FinishLoop, Broadcast, ExecuteCommitted,
       ExecuteThrows, RootsStored, BulkUpdate
  <2>2. CASE InsertMerkleRoot(w)
    BY <1>0, <1>2, <2>2 DEF InsertMerkleRoot, WorkerTypeOK
  <2>3. CASE StoreRoot(w)
    <3>1. PICK t \in outbox[w] : insertMerkleRoot(t.root)
      BY <2>3 DEF StoreRoot
    <3>2. t.root = NoRoot /\ NoRoot \in Roots
      BY DEF OnlyEmptyRootsQueued, NoRoot, Roots
    <3> QED
      BY <1>2, <3>1, <3>2
  <2> QED
    BY <2>1, <2>2, <2>3
<1>4. CASE HandlerNext
  BY <1>1, <1>4 DEF HandlerNext, BenchmarkPost, ReceiveReport, Respond, CheckSender,
     FindReport, CountReports, InsertRequest, InsertReport, RefuseDuplicate,
     HandlerFails, storeVars
<1>5. CASE UNCHANGED vars
  BY <1>1, <1>5 DEF vars, storeVars
<1> QED
  BY <1>1, <1>3, <1>4, <1>5 DEF Next, WorkerNext, ServerCrash, IntervalCrash,
     OwnerRegisters
=============================================================================
