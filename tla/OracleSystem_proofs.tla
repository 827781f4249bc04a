------------------------- MODULE OracleSystem_proofs -------------------------
(***************************************************************************)
(* What holds of the parts holds of the whole oracle: a step of the system *)
(* is a step of the backend, a step of the executors' world, a step of the *)
(* dapp, or a fault that strikes elsewhere.  With one interval worker the  *)
(* system implements RequestLedger and its tasks end settled.              *)
(***************************************************************************)
EXTENDS OracleSystem, Backend_proofs, ExecutorClient_proofs, DappClient_proofs

-----------------------------------------------------------------------------
(* What a step of the system is for its parts *)

\* A fault outside the backend, which it sees only in the count of faults.
FaultBeside ==
  /\ faults' \in 0..MaxFaults
  /\ faults <= faults'
  /\ UNCHANGED <<executorCollection, requestCollection, merkleCollection,
                 chainRoot, handlerVars, workerVars>>

LEMMA FaultCounts ==
  ASSUME StoreTypeOK, Fault
  PROVE  faults' \in 0..MaxFaults /\ faults <= faults'
BY StoreAssumption DEF StoreAssumption, StoreTypeOK, Fault

\* No step of the backend forgets a fault.
LEMMA FaultsStay ==
  ASSUME StoreTypeOK, [Next]_vars
  PROVE  faults <= faults'
<1>1. faults \in Nat
  BY StoreAssumption DEF StoreAssumption, StoreTypeOK
<1>2. UNCHANGED faults \/ Fault
  <2>1. CASE HandlerNext
    BY <2>1 DEF HandlerNext, ReceiveReport, CheckSender, FindReport, CountReports,
       InsertRequest, InsertReport, RefuseDuplicate, HandlerFails, BenchmarkPost, storeVars
  <2>2. CASE WorkerNext
    BY <2>2 DEF WorkerNext, WorkerStep, WorkerFault, StartRound, NextRequest, CountStored,
       QueryReports, CompareRoot, FindSubmitted, RemoveRedundant, QuerySurplus,
       DeleteSurplus, FindMerkleRoot, InsertMerkleRoot, FindRequest, UpdateStatus,
       FinishLoop, Broadcast, ExecuteCommitted, ExecuteThrows, StoreRoot, RootsStored,
       BulkUpdate, storeVars
  <2> QED
    BY <2>1, <2>2 DEF Next, OwnerRegisters, ServerCrash, IntervalCrash, vars, storeVars
<1> QED
  BY <1>1, <1>2 DEF Fault

\* The executors and the requests of dapps are steps of the executors' world
\* that leave the workers alone.
ExecutorsAct ==
  ExecutorsNext \/ \E tx \in Txs : DappRequests(tx) \/ OthersRequest(tx)

LEMMA ActIsClient ==
  ASSUME ExecutorsAct
  PROVE  ClientNext /\ UNCHANGED workerVars
BY DEF ExecutorsAct, ExecutorsNext, DappRequests, OthersRequest, ClientNext

LEMMA BackendPart ==
  ASSUME StoreTypeOK, [SystemNext]_systemVars
  PROVE  [Next]_vars \/ FaultBeside
<1>1. CASE ExecutorsAct
  <2>1. ClientNext /\ UNCHANGED workerVars
    BY <1>1, ActIsClient
  <2>2. HandlerNext \/ FaultOnly \/ UNCHANGED <<storeVars, handlerVars>>
    BY <2>1, ServerPart, HandlerAssumption, ClientAssumption
  <2>3. CASE HandlerNext
    BY <2>1, <2>3 DEF Next
  <2>4. CASE FaultOnly
    BY <2>1, <2>4, FaultCounts DEF FaultOnly, FaultBeside
  <2>5. CASE UNCHANGED <<storeVars, handlerVars>>
    BY <2>1, <2>5 DEF vars
  <2> QED
    BY <2>2, <2>3, <2>4, <2>5
<1>2. CASE WorkersNext
  BY <1>2 DEF WorkersNext, WorkerNext, Next
<1>3. CASE DappsNext
  <2>1. CASE FetchFails
    BY <1>3, <2>1, FaultCounts DEF DappsNext, FetchFails, FaultBeside
  <2>2. CASE DappStep
    BY <1>3, <2>2 DEF DappsNext, DappStep, Fetched, Wake, vars
  <2> QED
    BY <1>3, <2>1, <2>2 DEF DappsNext
<1>4. CASE ServerDown
  BY <1>4 DEF ServerDown, Next
<1>5. CASE UNCHANGED systemVars
  BY <1>5 DEF systemVars, vars
<1> QED
  BY <1>1, <1>2, <1>3, <1>4, <1>5 DEF SystemNext, ExecutorsAct

\* The executors' world sees of the workers and the dapp that reports are
\* trimmed and faults are counted.
Beside ==
  /\ UNCHANGED <<handlerVars, clientVars>>
  /\ executorCollection' \subseteq executorCollection

LEMMA ExecutorPart ==
  ASSUME [SystemNext]_systemVars
  PROVE  [ExecNext]_execVars \/ Beside
<1>1. CASE ExecutorsAct
  BY <1>1, ActIsClient DEF ExecNext
<1>2. CASE WorkersNext
  <2>1. CASE WorkerNext
    BY <1>2, <2>1, WorkerOnlyDeletes DEF WorkersNext, WorkerNext, Beside
  <2>2. CASE (\E w \in Workers : IntervalCrash(w))
              \/ \E r \in Requests \ BenchIds : OwnerRegisters(r)
    BY <1>2, <2>2 DEF WorkersNext, IntervalCrash, OwnerRegisters, Beside
  <2> QED
    BY <1>2, <2>1, <2>2 DEF WorkersNext, WorkerNext
<1>3. CASE DappsNext
  BY <1>3 DEF DappsNext, DappStep, Fetched, Wake, FetchFails, storeVars, Beside
<1>4. CASE ServerDown
  BY <1>4 DEF ServerDown, ServerCrash, ExecNext, ServerRestarts
<1>5. CASE UNCHANGED systemVars
  BY <1>5 DEF systemVars, vars, execVars
<1> QED
  BY <1>1, <1>2, <1>3, <1>4, <1>5 DEF SystemNext, ExecutorsAct

LEMMA DappPart ==
  ASSUME [SystemNext]_systemVars
  PROVE  (SendRequest /\ UNCHANGED storeVars) \/ DappStep \/ FetchFails \/ UNCHANGED dappVars
BY DEF SystemNext, DappRequests, OthersRequest, Emit, ExecutorsNext, WorkersNext,
   DappsNext, ServerDown, systemVars

-----------------------------------------------------------------------------
(* The invariants of the backend, of the executors and of the dapp *)

BackendInv ==
  /\ Inv
  /\ UniqueReport
  /\ OvershootBounded
  /\ RegisteredInv
  /\ SubmittedHasLeaves

LEMMA BackendInvNext ==
  ASSUME BackendInv, [SystemNext]_systemVars
  PROVE  BackendInv' /\ Grows
<1>0. StoreTypeOK
  BY DEF BackendInv, Inv, TypeOK
<1>1. CASE [Next]_vars
  BY <1>1, InvNext, UniqueNext, OvershootNext, RegisteredNext, LeavesNext DEF BackendInv
<1>2. CASE FaultBeside
  <2>1. Inv' /\ Grows
    BY <1>2, InvBeside DEF FaultBeside, BackendInv
  <2>2. UniqueReport'
    BY <1>2 DEF FaultBeside, BackendInv, UniqueReport
  <2>3. OvershootBounded'
    BY <1>2 DEF FaultBeside, BackendInv, OvershootBounded, countExecutorReports,
       ReportsOf, Inserting, handlerVars
  <2>4. RegisteredInv'
    BY <1>2 DEF FaultBeside, BackendInv, RegisteredInv, OnlyEmptyRootsQueued, RootsAhead,
       RegisteredHasRoot, StoredRoots, workerVars, localVars
  <2>5. SubmittedHasLeaves'
    BY <1>2 DEF FaultBeside, BackendInv, SubmittedHasLeaves, RootsFor, StoredRoots
  <2> QED
    BY <2>1, <2>2, <2>3, <2>4, <2>5 DEF BackendInv
<1> QED
  BY <1>0, <1>1, <1>2, BackendPart

LEMMA SystemTypes ==
  ASSUME BackendInv
  PROVE  StoreTypeOK /\ HandlerTypeOK /\ WorkerTypeOK
BY DEF BackendInv, Inv, TypeOK

ClientsInv ==
  ClientTypeOK /\ OneConnection /\ HeardInv /\ InboxOpen /\ TakenUpOnce

LEMMA ClientsInvNext ==
  ASSUME BackendInv, ClientsInv, [SystemNext]_systemVars
  PROVE  ClientsInv'
<1>0. ExecTypeOK
  BY SystemTypes DEF ClientsInv, ExecTypeOK
<1>1. CASE [ExecNext]_execVars
  <2>1. ClientTypeOK' /\ OneConnection' /\ HeardInv' /\ InboxOpen'
    BY <1>0, <1>1, ClientTypes, LinkNext, HeardNext, InboxOpenNext, StoreAssumption,
       HandlerAssumption, ClientAssumption DEF ClientsInv
  <2> QED
    BY <1>1, <2>1, TakenNext, ClientAssumption DEF ClientsInv
<1>2. CASE Beside
  <2>1. ClientTypeOK'
    BY <1>2 DEF Beside, clientVars, linkVars, ClientsInv, ClientTypeOK
  <2>2. OneConnection'
    BY <1>2 DEF Beside, clientVars, linkVars, ClientsInv, OneConnection, Live
  <2>3. OnlyHeardReports'
    BY <1>2 DEF Beside, clientVars, ClientsInv, HeardInv, OnlyHeardReports
  <2>4. HeardInv'
    BY <1>2, <2>3 DEF Beside, clientVars, linkVars, handlerVars, ClientsInv, HeardInv, Told
  <2>5. InboxOpen' /\ TakenUpOnce'
    BY <1>2 DEF Beside, clientVars, linkVars, ClientsInv, InboxOpen, TakenUpOnce
  <2> QED
    BY <2>1, <2>2, <2>4, <2>5 DEF ClientsInv
<1> QED
  BY <1>1, <1>2, ExecutorPart

\* The dapp sees of the others that the stored reports change, one of each
\* executor.
LEMMA DappInvKeeps ==
  ASSUME BackendInv, BackendInv', DappInv, DappTyped, [SystemNext]_systemVars
  PROVE  DappInv' /\ DappTyped'
<1>1. DappTyped'
  <2>1. executorCollection \subseteq Reports
    BY DEF DappInv
  <2> QED
    BY <2>1, DappPart, DappTypesNext DEF DappStep
<1>2. CASE (SendRequest /\ UNCHANGED storeVars) \/ DappStep \/ FetchFails
  BY <1>1, <1>2, DappInvNext DEF DappNext
<1>3. CASE UNCHANGED dappVars
  <2>1. StoreTypeOK' /\ UniqueReport'
    BY DEF BackendInv, Inv, TypeOK
  <2>2. executorCollection' \subseteq Reports /\ IsFiniteSet(executorCollection')
    BY <2>1 DEF StoreTypeOK
  <2>3. OneEach(executorCollection)'
    BY <2>1 DEF UniqueReport, OneEach
  <2>4. UNCHANGED <<dpc, reports>>
    BY <1>3 DEF dappVars
  <2> QED
    BY <1>1, <2>2, <2>3, <2>4 DEF DappInv, OneEach, Enough
<1> QED
  BY <1>1, <1>2, <1>3, DappPart

SystemInv == BackendInv /\ ClientsInv /\ DappInv /\ DappTyped

LEMMA SystemInvInit == SystemInit => SystemInv
<1> SUFFICES ASSUME SystemInit PROVE SystemInv
  OBVIOUS
<1>1. Init /\ ClientInit /\ DappInit /\ StoreInit /\ HandlerInit /\ ExecInit
  BY DEF SystemInit, Init, ExecInit
<1>2. BackendInv
  BY <1>1, InvInit, OvershootInit, RegisteredInit DEF BackendInv, StoreInit,
     UniqueReport, SubmittedHasLeaves
<1>3. ClientsInv
  <2>1. ClientTypeOK
    BY <1>1, TypeInit, StoreAssumption DEF ExecTypeOK
  <2>2. OneConnection
    BY <1>1 DEF ClientInit, OneConnection, Live
  <2>3. \A p \in Processes, s \in Sockets : inbox[p][s] = {}
    BY <1>1 DEF ClientInit
  <2> QED
    BY <1>1, <2>1, <2>2, <2>3, HeardInit DEF ClientsInv, InboxOpen, TakenUpOnce
<1>4. DappInv /\ DappTyped
  BY <1>1, DappTypesInit, FS_EmptySet DEF StoreInit, DappInit, DappInv, OneEach, NoData, Undefined
<1> QED
  BY <1>2, <1>3, <1>4 DEF SystemInv

LEMMA SystemInvNext == SystemInv /\ [SystemNext]_systemVars => SystemInv' /\ Grows
BY BackendInvNext, ClientsInvNext, DappInvKeeps DEF SystemInv

\* What the backend, the executors and the dapp keep alone they keep together,
\* with failed calls anywhere, sockets that fail, close or go deaf, crashes of
\* executors, of the server and of standalone interval workers, and an owner
\* who registers roots: one stored report of an executor, few reports beyond a
\* threshold, leaves for what processSubmittedRequest marked and a root for
\* what bulkUpdateRequests marked, one connection of a program, which takes
\* each request up once, only reports of requests an executor was told of, and
\* enough reports for a dapp that ends with "done".
THEOREM SystemSafe ==
  SystemSpec => []( /\ UniqueReport /\ OvershootBounded
                    /\ SubmittedHasLeaves /\ RegisteredHasRoot
                    /\ OneConnection /\ TakenUpOnce /\ OnlyHeardReports
                    /\ DappTypeOK /\ CollectedEnough )
<1>1. ASSUME SystemInv
      PROVE  /\ UniqueReport /\ OvershootBounded
             /\ SubmittedHasLeaves /\ RegisteredHasRoot
             /\ OneConnection /\ TakenUpOnce /\ OnlyHeardReports
             /\ DappTypeOK /\ CollectedEnough
  <2>1. Cardinality({x.executor : x \in reports.data}) = Cardinality(reports.data)
    BY <1>1, CountExecutors DEF SystemInv, DappInv
  <2>2. CollectedEnough
    BY <1>1, <2>1 DEF SystemInv, DappInv, Enough, CollectedEnough
  <2> QED
    BY <1>1, <2>2 DEF SystemInv, BackendInv, RegisteredInv, ClientsInv, HeardInv, DappTyped
<1> QED
  BY <1>1, SystemInvInit, SystemInvNext, PTL DEF SystemSpec

\* Nothing that happens in the system drops a request or opens it again.
THEOREM SystemForgetsNothing == SystemSpec => RequestNeverForgotten
<1>1. SystemInv /\ [SystemNext]_systemVars
        => [\A r \in Requests :
              Rank(requestCollection[r]) <= Rank(requestCollection'[r])]_vars
  BY SystemInvNext DEF Grows
<1> QED
  BY <1>1, SystemInvInit, SystemInvNext, PTL DEF SystemSpec, RequestNeverForgotten

-----------------------------------------------------------------------------
(* Behind every leaf is an executor that was told *)

Heard(x) ==
  \E tx \in emitted : tx.ours /\ FirstStage(tx) = x.requestId
     /\ \E p \in heard[tx] : Owner[p] = x.executor

\* The reports in roots were stored once, whatever was deleted since.
RootsHeard ==
  /\ CertifiedWasHeard
  /\ \A w \in Workers : \A x \in batch[w] : Heard(x)

\* Nobody forgets what was told.
LEMMA HeardStays ==
  ASSUME ClientsInv, [SystemNext]_systemVars, NEW x, Heard(x)
  PROVE  Heard(x)'
<1>1. CASE [ExecNext]_execVars
  BY <1>1, ToldGrows DEF ClientsInv, Heard
<1>2. CASE Beside
  BY <1>2 DEF Beside, clientVars, Heard
<1> QED
  BY <1>1, <1>2, ExecutorPart

LEMMA RootsHeardNext ==
  ASSUME SystemInv, RootsHeard, [SystemNext]_systemVars
  PROVE  RootsHeard'
<1> DEFINE AllHeard(S) == \A x \in S : Heard(x)
<1>0. ClientsInv /\ Inv /\ OnlyEmptyRootsQueued /\ OnlyHeardReports /\ StoreTypeOK
  BY SystemTypes DEF SystemInv, BackendInv, RegisteredInv, ClientsInv, HeardInv
<1>1. ASSUME NEW S, AllHeard(S) PROVE AllHeard(S)'
  BY <1>0, <1>1, HeardStays
<1>2. AllHeard(executorCollection)
  BY <1>0 DEF OnlyHeardReports, Heard
<1>3. /\ \A S \in StoredRoots : AllHeard(S)
      /\ \A r \in Requests : AllHeard(chainRoot[r])
      /\ \A w \in Workers : AllHeard(batch[w])
  BY DEF RootsHeard, CertifiedWasHeard, Heard
<1>4. ASSUME NEW S \in StoredRoots', NEW x \in S PROVE Heard(x)'
  <2>1. AllHeard(S)
    BY <1>0, <1>3, BackendPart, StoredNext DEF FaultBeside, StoredRoots, NoRoot
  <2> QED
    BY <1>0, <1>4, <2>1, HeardStays
<1>5. ASSUME NEW r \in Requests, NEW x \in chainRoot'[r] PROVE Heard(x)'
  <2>1. chainRoot'[r] = chainRoot[r] \/ chainRoot'[r] \subseteq executorCollection
    BY <1>0, BackendPart, ChainNext DEF FaultBeside, ChainGrows
  <2> QED
    BY <1>0, <1>2, <1>3, <1>5, <2>1, HeardStays
<1>6. ASSUME NEW w \in Workers, NEW x \in batch'[w] PROVE Heard(x)'
  <2>1. batch'[w] = batch[w] \/ batch'[w] \subseteq executorCollection
    BY <1>0, BackendPart, BatchNext DEF FaultBeside, workerVars, localVars
  <2> QED
    BY <1>0, <1>2, <1>3, <1>6, <2>1, HeardStays
<1> QED
  BY <1>4, <1>5, <1>6 DEF RootsHeard, CertifiedWasHeard, Heard

\* Every leaf of a root, in the database or on the chain, is the report of an
\* executor that was told of the request by a transaction on the contract: for
\* any number of executors and interval workers and through every failure and
\* crash, although trims delete the reports roots were formed from.
THEOREM RootsOfHeardReports == SystemSpec => []CertifiedWasHeard
<1>1. SystemInit => RootsHeard
  BY DEF SystemInit, Init, StoreInit, WorkerInit, RootsHeard, CertifiedWasHeard,
     StoredRoots, NoRoot
<1>2. SystemInv /\ RootsHeard /\ [SystemNext]_systemVars => RootsHeard'
  BY RootsHeardNext
<1>3. RootsHeard => CertifiedWasHeard
  BY DEF RootsHeard
<1> QED
  BY <1>1, <1>2, <1>3, SystemInvInit, SystemInvNext, PTL DEF SystemSpec

-----------------------------------------------------------------------------
(* One interval worker *)

LEMMA AloneSystemNext ==
  ASSUME OneWorker, BackendInv, AloneControl, [SystemNext]_systemVars
  PROVE  AloneControl'
<1>0. Inv /\ UniqueReport /\ StoreTypeOK
  BY SystemTypes DEF BackendInv
<1>1. CASE [Next]_vars
  BY <1>0, <1>1, AloneNext
<1>2. CASE FaultBeside
  BY <1>2 DEF FaultBeside, AloneControl, Alone, workerVars, localVars, ReportsOf,
     countExecutorReports, StoredRoots
<1> QED
  BY <1>0, <1>1, <1>2, BackendPart

\* Every step of the system is a step of the ledger or changes nothing it
\* sees.
LEMMA SystemLedgerStep ==
  ASSUME OneWorker, BackendInv, AloneControl, [SystemNext]_systemVars
  PROVE  [Ledger!Next]_(Ledger!vars)
<1>0. StoreTypeOK
  BY SystemTypes
<1>1. CASE [Next]_vars
  BY <1>1, LedgerStep DEF BackendInv
<1>2. CASE FaultBeside
  BY <1>2, LedgerStutters DEF FaultBeside, IsSubmitted
<1> QED
  BY <1>0, <1>1, <1>2, BackendPart

\* What a step of the system leaves of the reports of a request.
LEMMA SystemThinnedOut ==
  ASSUME SystemInv, SystemInv', AloneControl, [SystemNext]_systemVars, NEW r \in Requests
  PROVE  \/ ReportsOf(r) \subseteq ReportsOf(r)'
         \/ countExecutorReports(r)' >= Threshold[r]
<1>0. StoreTypeOK /\ Inv /\ Inv' /\ UniqueReport
  BY DEF SystemInv, BackendInv, Inv, TypeOK
<1>1. CASE [Next]_vars
  BY <1>0, <1>1, ThinnedOut
<1>2. CASE FaultBeside
  BY <1>2 DEF FaultBeside, ReportsOf
<1> QED
  BY <1>0, <1>1, <1>2, BackendPart

\* With one interval worker no trim unsettles a task that ended.
LEMMA SettledSystem ==
  ASSUME OneWorker, SystemInv, SystemInv', AloneControl, SettledInv,
         [SystemNext]_systemVars
  PROVE  SettledInv'
<1>0. /\ BackendInv /\ BackendInv' /\ ClientsInv /\ StoreTypeOK /\ StoreTypeOK'
      /\ Inv /\ Inv' /\ UniqueReport
  BY DEF SystemInv, BackendInv, Inv, TypeOK
<1>1. ExecTypeOK
  BY <1>0, SystemTypes DEF ClientsInv, ExecTypeOK
<1>2. CASE [ExecNext]_execVars
  BY <1>0, <1>1, <1>2, SettledNext, StoreAssumption, HandlerAssumption,
     ClientAssumption DEF ClientsInv
<1>3. ASSUME Beside, faults' = 0, NEW t \in Tasks, Settled(t), faults = 0
      PROVE  Settled(t)'
  <2>1. t[2] \in Requests /\ Threshold[t[2]] \in Nat
    BY StoreAssumption DEF StoreAssumption, Tasks
  <2>2. CASE ReportsOf(t[2]) \subseteq ReportsOf(t[2])'
    <3>1. Stored(t) \subseteq Stored(t)'
      BY <2>2 DEF Stored, findReport
    <3>2. /\ countExecutorReports(t[2]) <= countExecutorReports(t[2])'
          /\ countExecutorReports(t[2]) \in Nat /\ countExecutorReports(t[2])' \in Nat
      BY <1>0, <2>2, CountGrows
    <3>3. CASE Stored(t) # {}
      BY <3>1, <3>3 DEF Settled
    <3>4. CASE countExecutorReports(t[2]) >= Threshold[t[2]]
      BY <2>1, <3>2, <3>4 DEF Settled
    <3> QED
      BY <1>3, <3>3, <3>4 DEF Settled
  <2>3. CASE countExecutorReports(t[2])' >= Threshold[t[2]]
    BY <2>3 DEF Settled
  <2> QED
    BY <2>1, <2>2, <2>3, SystemThinnedOut
<1>4. CASE Beside
  <2> SUFFICES ASSUME faults' = 0, NEW t \in Tasks,
                      \/ tpc'[t] \in {"done", "skipped"}
                      \/ tpc'[t] = "await" /\ hpc'[t] = "idle"
               PROVE  Settled(t)'
    BY DEF SettledInv
  <2>1. faults = 0
    <3>1. faults <= faults'
      BY <1>0, FaultsStay, BackendPart DEF FaultBeside
    <3>2. faults \in Nat
      BY <1>0, StoreAssumption DEF StoreAssumption, StoreTypeOK
    <3> QED
      BY <3>1, <3>2
  <2>2. Settled(t)
    BY <1>4, <2>1 DEF Beside, SettledInv, clientVars, handlerVars
  <2> QED
    BY <1>3, <1>4, <2>1, <2>2
<1> QED
  BY <1>2, <1>4, ExecutorPart

LEMMA SystemAlone ==
  ASSUME OneWorker
  PROVE  SystemSpec => [](SystemInv /\ AloneControl)
<1>1. SystemInit => SystemInv /\ AloneControl
  BY SystemInvInit, AloneInit DEF SystemInit
<1>2. SystemInv /\ AloneControl /\ [SystemNext]_systemVars => SystemInv' /\ AloneControl'
  BY SystemInvNext, AloneSystemNext DEF SystemInv
<1> QED
  BY <1>1, <1>2, PTL DEF SystemSpec

\* The whole oracle with one interval worker implements RequestLedger: what
\* executors, the dapp and failures add to the backend is nothing the ledger
\* would not allow.
THEOREM SystemImplementsLedger == OneWorker /\ SystemSpec => LedgerSpec
<1> SUFFICES ASSUME OneWorker PROVE SystemSpec => LedgerSpec
  OBVIOUS
<1>1. SystemInv /\ AloneControl /\ [SystemNext]_systemVars => [Ledger!Next]_(Ledger!vars)
  BY SystemLedgerStep DEF SystemInv
<1>2. SystemInit => Ledger!Init
  BY LedgerInit DEF SystemInit
<1> QED
  BY <1>1, <1>2, SystemAlone, PTL DEF SystemSpec, LedgerSpec, Ledger!Spec

\* With one interval worker a task that ended without a failure stays
\* settled while the worker trims: its executor's report is dropped only
\* from a request that has its reports.
THEOREM SystemSettles == OneWorker /\ SystemSpec => []DoneMeansSettled
<1> SUFFICES ASSUME OneWorker PROVE SystemSpec => []DoneMeansSettled
  OBVIOUS
<1>1. SystemInit => SettledInv
  BY DEF SystemInit, ClientInit, SettledInv
<1>2. SystemInv /\ SystemInv' /\ AloneControl /\ SettledInv /\ [SystemNext]_systemVars
        => SettledInv'
  BY SettledSystem
<1>3. SettledInv => DoneMeansSettled
  BY DEF SettledInv, DoneMeansSettled
<1> QED
  BY <1>1, <1>2, <1>3, SystemAlone, PTL DEF SystemSpec

\* With one interval worker and everything else of the oracle around it no
\* trim takes a request below its threshold (interval.service.ts:118).
THEOREM SystemTrimsSafely == OneWorker /\ SystemSpec => TrimKeepsThreshold
<1> SUFFICES ASSUME OneWorker PROVE SystemSpec => TrimKeepsThreshold
  OBVIOUS
<1>1. ASSUME SystemInv, SystemInv', AloneControl, [SystemNext]_systemVars, NEW r \in Requests,
             countExecutorReports(r) >= Threshold[r]
      PROVE  countExecutorReports(r)' >= Threshold[r]
  <2>1. StoreTypeOK /\ StoreTypeOK' /\ Threshold[r] \in Nat
    BY <1>1, StoreAssumption DEF SystemInv, BackendInv, Inv, TypeOK, StoreAssumption
  <2>2. CASE ReportsOf(r) \subseteq ReportsOf(r)'
    <3>1. /\ countExecutorReports(r) <= countExecutorReports(r)'
          /\ countExecutorReports(r) \in Nat /\ countExecutorReports(r)' \in Nat
      BY <2>1, <2>2, CountGrows
    <3> QED
      BY <1>1, <2>1, <3>1
  <2> QED
    BY <1>1, <2>2, SystemThinnedOut
<1>2. SystemInv /\ SystemInv' /\ AloneControl /\ [SystemNext]_systemVars
        => [\A r \in Requests : countExecutorReports(r) >= Threshold[r]
                                  => countExecutorReports(r)' >= Threshold[r]]_vars
  BY <1>1
<1> QED
  BY <1>2, SystemAlone, PTL DEF SystemSpec, TrimKeepsThreshold
=============================================================================
