----------------------------- MODULE DappClient -----------------------------
(***************************************************************************)
(* A dapp: it sends a request to the contract and polls the backend for    *)
(* the reports until there are enough (collectReports of dapp-sample and   *)
(* of dapp-simulate, which differ in the initial value of `reports`).      *)
(***************************************************************************)
EXTENDS Paging

CONSTANTS
  Wanted,       \* the request id the contract gave to the dapp's request
  MaxPolls,     \* failed polls before collectReports gives up (100)
  Initialised   \* reports = {} (dapp-sample), or undefined (dapp-simulate)

ASSUME DappAssumption ==
  /\ Wanted \in Requests
  /\ MaxPolls \in Nat
  /\ Initialised \in BOOLEAN

VARIABLES
  dpc,       \* the await the dapp is at
  polls,     \* count
  reports    \* the last JSON answer

dappVars == <<dpc, polls, reports>>

NoData == [kind |-> "noData", data |-> {}]
Undefined == [kind |-> "undefined", data |-> {}]

DappInit ==
  /\ dpc = "request"
  /\ polls = 0
  /\ reports = IF Initialised THEN NoData ELSE Undefined

DappTypeOK ==
  /\ dpc \in {"request", "fetch", "sleep", "done", "gaveUp", "threw"}
  /\ polls \in 0..(MaxPolls + 1)
  /\ reports \in [kind : {"undefined", "noData", "data"}, data : SUBSET Reports]

-----------------------------------------------------------------------------
SendRequest ==
  /\ dpc = "request"
  /\ dpc' = "fetch"
  /\ UNCHANGED <<polls, reports>>

\* Mutant: one report less will do.
EnoughButOne(S) == Cardinality(S) + 1 >= Threshold[Wanted]

\* ! (reports.data.data.length < threshold)
Enough(S) == Cardinality(S) >= Threshold[Wanted]

\* Property access on reports, in the return and in the condition of the loop.
Unless(undefined, step) == IF undefined THEN "threw" ELSE step

\* Mutant: it never gives up.
KeepsTrying(count) == FALSE

\* Mutant: it gives up one poll early.
GivesUpEarly(count) == count >= MaxPolls

\* count > MAX_COUNT
GivesUp(count) == count > MaxPolls

\* Mutant: a failed poll is not counted.
NotCounted(count) == count

\* count++
Counted(count) == count + 1

\* catch: count, give up or sleep.  The loop's condition is tried after it.
Retry ==
  /\ polls' = Counted(polls)
  /\ dpc' = IF GivesUp(polls')
            THEN Unless(reports' = Undefined, "gaveUp") ELSE "sleep"

Fetched ==
  /\ dpc = "fetch"
  /\ \E S \in findReports(Wanted, paginatorNumber(0, 0)) :
       /\ reports' = [kind |-> "data", data |-> S]
       /\ IF Enough(S) THEN dpc' = "done" /\ UNCHANGED polls ELSE Retry
  /\ UNCHANGED storeVars

\* fetch throws, or the backend answers with the JSON of an error.
FetchFails ==
  /\ dpc = "fetch"
  /\ Fault
  /\ reports' \in {reports, NoData}
  /\ Retry
  /\ UNCHANGED <<executorCollection, requestCollection, merkleCollection, chainRoot>>

Wake ==
  /\ dpc = "sleep"
  /\ dpc' = Unless(reports = Undefined, "fetch")
  /\ UNCHANGED <<polls, reports, storeVars>>

DappStep == Fetched \/ Wake

-----------------------------------------------------------------------------
\* The dapp against a backend that takes one report after the other.
ReportArrives ==
  /\ \E x \in Reports : insertExecutorReport(x)
  /\ UNCHANGED <<requestCollection, merkleCollection, chainRoot, faults, dappVars>>

DappNext ==
  \/ SendRequest /\ UNCHANGED storeVars
  \/ DappStep
  \/ FetchFails
  \/ ReportArrives

\* The dapp's calls return, and its setTimeout fires.
DappSpec ==
  /\ StoreInit /\ DappInit
  /\ [][DappNext]_<<storeVars, dappVars>>
  /\ WF_<<storeVars, dappVars>>(DappStep)

-----------------------------------------------------------------------------
(* Properties *)

\* What the dapp takes for enough comes from as many different executors,
\* all answering its own request.
CollectedEnough ==
  dpc = "done" =>
    /\ Cardinality({x.executor : x \in reports.data}) >= Threshold[Wanted]
    /\ \A x \in reports.data : x.requestId = Wanted

\* Once enough reports are stored the dapp gets them, if the polls it has
\* left outnumber the failures to come and they fit on the default page (the
\* backend returns no more, so a larger threshold is never satisfied).
EnoughReportsCollected ==
  /\ Threshold[Wanted] <= PAGE_DEFAULT
  /\ dpc = "fetch"
  /\ polls + (MaxFaults - faults) <= MaxPolls
  /\ countExecutorReports(Wanted) >= Threshold[Wanted]
  ~> dpc = "done"

\* "sleep for a few seconds then repeat" (dapp-simulate/src/utils/aioracle.ts
\* :119): a poll that failed is repeated.
FailedPollRepeats == dpc = "sleep" ~> dpc = "fetch"
=============================================================================
