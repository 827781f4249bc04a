----------------------- MODULE ReportController_proofs -----------------------
(***************************************************************************)
(* Lemmas about the store and the report handlers that the proofs about    *)
(* the backend and about the executors share.                              *)
(***************************************************************************)
EXTENDS ReportController, FiniteSetTheorems, TLAPS

\* A count of stored reports is a natural number.
LEMMA CountType ==
  ASSUME StoreTypeOK, NEW r
  PROVE  IsFiniteSet(ReportsOf(r)) /\ countExecutorReports(r) \in Nat
<1>1. ReportsOf(r) \subseteq executorCollection
  BY DEF ReportsOf
<1>2. IsFiniteSet(ReportsOf(r))
  BY <1>1, FS_Subset DEF StoreTypeOK
<1> QED
  BY <1>2, FS_CardinalityType DEF countExecutorReports

\* A step that leaves the store alone keeps its types.
LEMMA StoreFrame ==
  ASSUME StoreTypeOK, UNCHANGED storeVars
  PROVE  StoreTypeOK'
BY DEF StoreTypeOK, storeVars

\* The handlers' steps keep the types of the store and of the handlers.
LEMMA HandlerTypes ==
  ASSUME StoreAssumption, HandlerAssumption, StoreTypeOK, HandlerTypeOK,
         HandlerNext
  PROVE  StoreTypeOK' /\ HandlerTypeOK'
<1> USE DEF GoTo, Respond, HandlerTypeOK, HandlerSteps
<1>1. ASSUME NEW h \in Handlers, ReceiveReport(h)
      PROVE  StoreTypeOK' /\ HandlerTypeOK'
  BY <1>1 DEF ReceiveReport, storeVars, StoreTypeOK
<1>2. ASSUME NEW h \in Handlers, CheckSender(h)
      PROVE  StoreTypeOK' /\ HandlerTypeOK'
  BY <1>2 DEF CheckSender, storeVars, StoreTypeOK
<1>3. ASSUME NEW h \in Handlers, FindReport(h)
      PROVE  StoreTypeOK' /\ HandlerTypeOK'
  BY <1>3 DEF FindReport, storeVars, StoreTypeOK
<1>4. ASSUME NEW h \in Handlers, CountReports(h)
      PROVE  StoreTypeOK' /\ HandlerTypeOK'
  BY <1>4 DEF CountReports, storeVars, StoreTypeOK
<1>5. ASSUME NEW h \in Handlers, InsertRequest(h)
      PROVE  StoreTypeOK' /\ HandlerTypeOK'
  BY <1>5 DEF InsertRequest, insertRequest, SetStatus, StoreTypeOK, Statuses
<1>6. ASSUME NEW h \in Handlers, InsertReport(h)
      PROVE  StoreTypeOK' /\ HandlerTypeOK'
  <2>1. executorCollection' = executorCollection \cup {body[h]} /\ body[h] \in Reports
    BY <1>6 DEF InsertReport, insertExecutorReport
  <2>2. IsFiniteSet(executorCollection')
    BY <2>1, FS_AddElement DEF StoreTypeOK
  <2> QED
    BY <1>6, <2>1, <2>2 DEF InsertReport, StoreTypeOK
<1>7. ASSUME NEW h \in Handlers, RefuseDuplicate(h)
      PROVE  StoreTypeOK' /\ HandlerTypeOK'
  BY <1>7 DEF RefuseDuplicate, storeVars, StoreTypeOK
<1>8. ASSUME NEW h \in Handlers, HandlerFails(h)
      PROVE  StoreTypeOK' /\ HandlerTypeOK'
  BY <1>8 DEF HandlerFails, Fault, StoreTypeOK, StoreAssumption
<1>9. ASSUME NEW r \in BenchIds, BenchmarkPost(r)
      PROVE  StoreTypeOK' /\ HandlerTypeOK'
  BY <1>9 DEF BenchmarkPost, insertRequest, SetStatus, StoreTypeOK, Statuses,
     handlerVars
<1> QED
  BY <1>1, <1>2, <1>3, <1>4, <1>5, <1>6, <1>7, <1>8, <1>9 DEF HandlerNext
=============================================================================
