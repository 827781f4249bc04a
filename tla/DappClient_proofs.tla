-------------------------- MODULE DappClient_proofs --------------------------
(***************************************************************************)
(* What a dapp that stops polling holds, for any threshold, page size and  *)
(* number of executors.                                                    *)
(***************************************************************************)
EXTENDS DappClient, FiniteSetTheorems, TLAPS

\* One report of an executor for a request.
OneEach(S) ==
  \A x, y \in S : x.requestId = y.requestId /\ x.executor = y.executor => x = y

\* The dapp holds reports of its request, one of each executor.
DappInv ==
  /\ executorCollection \subseteq Reports
  /\ IsFiniteSet(executorCollection)
  /\ OneEach(executorCollection)
  /\ IsFiniteSet(reports.data)
  /\ OneEach(reports.data)
  /\ \A x \in reports.data : x.requestId = Wanted
  /\ dpc = "done" => Enough(reports.data)

\* As many reports as executors that made them.
LEMMA CountExecutors ==
  ASSUME NEW S, IsFiniteSet(S), OneEach(S), \A x \in S : x.requestId = Wanted
  PROVE  Cardinality({x.executor : x \in S}) = Cardinality(S)
<1> DEFINE T == {x.executor : x \in S}
           f == [x \in S |-> x.executor]
<1>1. f \in [S -> T] /\ \A t \in T : \E x \in S : f[x] = t
  OBVIOUS
<1>2. \A x, y \in S : f[x] = f[y] => x = y
  BY DEF OneEach
<1>3. f \in Bijection(S, T)
  BY <1>1, <1>2 DEF Bijection, Injection, Surjection, IsInjective
<1> QED
  BY <1>3, FS_Bijection DEF ExistsBijection

\* A poll that was answered: what it returned, and what follows.
LEMMA FetchedInv ==
  ASSUME DappInv, Fetched
  PROVE  DappInv'
<1>1. PICK S \in findReports(Wanted, paginatorNumber(0, 0)) :
        /\ reports' = [kind |-> "data", data |-> S]
        /\ IF Enough(S) THEN dpc' = "done" /\ UNCHANGED polls ELSE Retry
  BY DEF Fetched
<1>2. S \subseteq executorCollection /\ \A x \in S : x.requestId = Wanted
  BY <1>1 DEF findReports, ReportsOf
<1>3. IsFiniteSet(S) /\ OneEach(S)
  BY <1>2, FS_Subset DEF DappInv, OneEach
<1>4. dpc' = "done" => Enough(S)
  BY <1>1 DEF Retry, Unless
<1>5. executorCollection' = executorCollection
  BY DEF Fetched, storeVars
<1> QED
  BY <1>1, <1>2, <1>3, <1>4, <1>5 DEF DappInv, OneEach, Enough

LEMMA DappInvNext ==
  ASSUME DappInv, [DappNext]_<<storeVars, dappVars>>
  PROVE  DappInv'
<1>1. CASE SendRequest /\ UNCHANGED storeVars
  BY <1>1 DEF SendRequest, storeVars, DappInv, OneEach, Enough
<1>2. CASE Fetched
  BY <1>2, FetchedInv
<1>3. CASE Wake
  BY <1>3 DEF Wake, Unless, storeVars, DappInv, OneEach, Enough
<1>4. CASE FetchFails
  <2>1. dpc' # "done"
    BY <1>4 DEF FetchFails, Retry, Unless
  <2>2. executorCollection' = executorCollection
    BY <1>4 DEF FetchFails
  <2>3. reports' = reports \/ reports'.data = {}
    BY <1>4 DEF FetchFails, NoData
  <2> QED
    BY <2>1, <2>2, <2>3, FS_EmptySet DEF DappInv, OneEach
<1>5. CASE ReportArrives
  <2>1. PICK x \in Reports : insertExecutorReport(x)
    BY <1>5 DEF ReportArrives
  <2>2. executorCollection' = executorCollection \cup {x}
    BY <2>1 DEF insertExecutorReport
  <2>3. \A y \in executorCollection : ~(y.requestId = x.requestId /\ y.executor = x.executor)
    BY <2>1 DEF insertExecutorReport, findReport, ReportsOf
  <2>4. IsFiniteSet(executorCollection')
    BY <2>2, FS_AddElement DEF DappInv
  <2>5. OneEach(executorCollection')
    BY <2>2, <2>3 DEF DappInv, OneEach
  <2>6. UNCHANGED <<dpc, reports>>
    BY <1>5 DEF ReportArrives, dappVars
  <2> QED
    BY <2>1, <2>2, <2>4, <2>5, <2>6 DEF DappInv, Enough, OneEach
<1>6. CASE UNCHANGED <<storeVars, dappVars>>
  BY <1>6 DEF storeVars, dappVars, DappInv, OneEach, Enough
<1> QED
  BY <1>1, <1>2, <1>3, <1>4, <1>5, <1>6 DEF DappNext, DappStep

\* A dapp that stops polling holds the answers of as many different executors
\* as the request's threshold asks for.
THEOREM CollectsEnough == DappSpec => []CollectedEnough
<1>1. StoreInit /\ DappInit => DappInv
  BY FS_EmptySet DEF StoreInit, DappInit, DappInv, OneEach, NoData, Undefined
<1>2. DappInv /\ [DappNext]_<<storeVars, dappVars>> => DappInv'
  BY DappInvNext
<1>3. ASSUME DappInv PROVE CollectedEnough
  <2>1. Cardinality({x.executor : x \in reports.data}) = Cardinality(reports.data)
    BY <1>3, CountExecutors DEF DappInv
  <2> QED
    BY <1>3, <2>1 DEF DappInv, Enough, CollectedEnough
<1> QED
  BY <1>1, <1>2, <1>3, PTL DEF DappSpec

-----------------------------------------------------------------------------
(* Types *)

\* A dapp that still polls has not used up its polls.
DappTyped ==
  /\ DappTypeOK
  /\ dpc \in {"request", "fetch", "sleep"} => polls <= MaxPolls

\* A poll that was not enough is counted, and the last one ends the polling.
LEMMA RetryTypes ==
  ASSUME DappTyped, dpc = "fetch", Retry,
         reports' \in [kind : {"undefined", "noData", "data"}, data : SUBSET Reports]
  PROVE  DappTyped'
<1>1. MaxPolls \in Nat /\ polls \in 0..MaxPolls
  BY DappAssumption DEF DappAssumption, DappTyped, DappTypeOK
<1>2. polls' = polls + 1
  BY DEF Retry, Counted
<1>3. CASE polls' > MaxPolls
  <2>1. dpc' \in {"gaveUp", "threw"}
    BY <1>3 DEF Retry, GivesUp, Unless
  <2> QED
    BY <1>1, <1>2, <2>1 DEF DappTyped, DappTypeOK
<1>4. CASE ~(polls' > MaxPolls)
  <2>1. dpc' = "sleep" /\ polls' <= MaxPolls /\ polls' \in 0..(MaxPolls + 1)
    BY <1>1, <1>2, <1>4 DEF Retry, GivesUp
  <2> QED
    BY <2>1 DEF DappTyped, DappTypeOK
<1> QED
  BY <1>3, <1>4

\* What the dapp does, whatever the store does meanwhile.
LEMMA DappTypesNext ==
  ASSUME DappTyped, executorCollection \subseteq Reports,
         SendRequest \/ Fetched \/ FetchFails \/ Wake \/ UNCHANGED dappVars
  PROVE  DappTyped'
<1>1. CASE SendRequest
  BY <1>1 DEF SendRequest, DappTyped, DappTypeOK
<1>2. CASE Fetched
  <2>1. PICK S \in findReports(Wanted, paginatorNumber(0, 0)) :
          /\ reports' = [kind |-> "data", data |-> S]
          /\ IF Enough(S) THEN dpc' = "done" /\ UNCHANGED polls ELSE Retry
    BY <1>2 DEF Fetched
  <2>2. S \subseteq Reports
    BY <2>1 DEF findReports, ReportsOf
  <2>3. reports' \in [kind : {"undefined", "noData", "data"}, data : SUBSET Reports]
    BY <2>1, <2>2
  <2>4. CASE Enough(S)
    BY <2>1, <2>3, <2>4 DEF DappTyped, DappTypeOK
  <2>5. CASE ~Enough(S)
    BY <1>2, <2>1, <2>3, <2>5, RetryTypes DEF Fetched
  <2> QED
    BY <2>4, <2>5
<1>3. CASE FetchFails
  <2>1. reports' \in [kind : {"undefined", "noData", "data"}, data : SUBSET Reports]
    BY <1>3 DEF FetchFails, NoData, DappTyped, DappTypeOK
  <2> QED
    BY <1>3, <2>1, RetryTypes DEF FetchFails
<1>4. CASE Wake
  BY <1>4 DEF Wake, Unless, DappTyped, DappTypeOK
<1>5. CASE UNCHANGED dappVars
  BY <1>5 DEF dappVars, DappTyped, DappTypeOK
<1> QED
  BY <1>1, <1>2, <1>3, <1>4, <1>5

LEMMA DappTypesInit ==
  ASSUME DappInit
  PROVE  DappTyped
BY DappAssumption DEF DappAssumption, DappInit, DappTyped, DappTypeOK, NoData, Undefined

\* A dapp ends its polling after at most one failed poll more than it allows.
THEOREM DappTypes == DappSpec => []DappTypeOK
<1>1. StoreInit /\ DappInit => DappInv
  BY FS_EmptySet DEF StoreInit, DappInit, DappInv, OneEach, NoData, Undefined
<1>2. DappInv /\ [DappNext]_<<storeVars, dappVars>> => DappInv'
  BY DappInvNext
<1>3. ASSUME DappInv, DappTyped, [DappNext]_<<storeVars, dappVars>> PROVE DappTyped'
  <2>1. executorCollection \subseteq Reports
    BY <1>3 DEF DappInv
  <2>2. SendRequest \/ Fetched \/ FetchFails \/ Wake \/ UNCHANGED dappVars
    BY <1>3 DEF DappNext, DappStep, ReportArrives, dappVars
  <2> QED
    BY <1>3, <2>1, <2>2, DappTypesNext
<1>4. DappTyped => DappTypeOK
  BY DEF DappTyped
<1> QED
  BY <1>1, <1>2, <1>3, <1>4, DappTypesInit, PTL DEF DappSpec
=============================================================================
