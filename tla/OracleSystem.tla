---------------------------- MODULE OracleSystem ----------------------------
(***************************************************************************)
(* The whole oracle: a dapp sends a request, the executors that hear of it *)
(* run it and post their reports, the backend stores them and turns them   *)
(* into a merkle root, and the dapp polls for the reports.  Any of their   *)
(* programs may crash and is started again, and any call may fail.         *)
(***************************************************************************)
EXTENDS Backend, ExecutorClient, DappClient

VARIABLE
  interrupted  \* history: transactions whose request had too few reports
               \* when the API server went down

systemVars == <<vars, clientVars, dappVars, interrupted>>

SystemInit == Init /\ ClientInit /\ DappInit /\ interrupted = {}

\* The transaction that carries the dapp's request.
Carries(tx) == tx.ours /\ FirstStage(tx) = Wanted

DappRequests(tx) ==
  /\ Carries(tx)
  /\ SendRequest
  /\ Emit(tx)
  /\ UNCHANGED <<workerVars, interrupted>>

\* External: somebody else's request, to our contract or to another one.
OthersRequest(tx) ==
  /\ ~Carries(tx)
  /\ Emit(tx)
  /\ UNCHANGED <<workerVars, dappVars, interrupted>>

ExecutorsNext ==
  /\ \/ \E p \in Processes : ProcessStep(p)
     \/ ClientFault
     \/ \E h \in Handlers : ServerStep(h) \/ (HandlerFails(h) /\ UNCHANGED clientVars)
  /\ UNCHANGED <<workerVars, dappVars, interrupted>>

WorkersNext ==
  /\ \/ \E w \in Workers : \/ WorkerStep(w) /\ UNCHANGED handlerVars
                           \/ WorkerFault(w) /\ UNCHANGED handlerVars
                           \/ IntervalCrash(w)
     \/ \E r \in Requests \ BenchIds : OwnerRegisters(r)
  /\ UNCHANGED <<clientVars, dappVars, interrupted>>

DappsNext ==
  /\ DappStep \/ FetchFails
  /\ UNCHANGED <<handlerVars, workerVars, clientVars, interrupted>>

TooFew(tx) == countExecutorReports(FirstStage(tx)) < Threshold[FirstStage(tx)]

\* The API server goes down with its handlers and its interval worker, the
\* executors' calls of it reject, and so may the dapp's poll.
ServerDown ==
  /\ ServerCrash
  /\ CallsCut
  /\ UNCHANGED dappVars \/ FetchFails
  /\ interrupted' = interrupted \cup {tx \in emitted : TooFew(tx)}

SystemNext ==
  \/ \E tx \in Txs : DappRequests(tx) \/ OthersRequest(tx)
  \/ ExecutorsNext
  \/ WorkersNext
  \/ DappsNext
  \/ ServerDown

\* Node runs the callbacks and timers that are due, calls return, connections
\* that do not fail are made; failures are finitely many (MaxFaults).  A
\* request need not be sent.
SystemSpec ==
  /\ SystemInit
  /\ [][SystemNext]_systemVars
  /\ \A p \in Processes :
       WF_systemVars(ProcessStep(p) /\ UNCHANGED <<workerVars, dappVars, interrupted>>)
  /\ \A h \in Handlers :
       WF_systemVars(ServerStep(h) /\ UNCHANGED <<workerVars, dappVars, interrupted>>)
  /\ \A w \in Workers :
       WF_systemVars(/\ WorkerStep(w)
                     /\ UNCHANGED <<handlerVars, clientVars, dappVars, interrupted>>)
  /\ WF_systemVars(/\ DappStep
                   /\ UNCHANGED <<handlerVars, workerVars, clientVars, interrupted>>)

-----------------------------------------------------------------------------
(* Properties *)

\* End to end, with nobody else registering roots: a request that more
\* executors hear of than failures can silence ends up submitted with its
\* leaves stored, wherever the failures strike: sockets, executors, handlers,
\* rounds or the server.  The exception is a server that goes down before the
\* request has its reports: it takes every report under way with it, and no
\* executor posts again (common.ts:56).
RequestAnswered ==
  \A tx \in Txs :
    /\ Carries(tx) /\ tx \in emitted
    /\ Cardinality({Owner[p] : p \in heard[tx]}) >= Threshold[Wanted] + MaxFaults
    ~> tx \in interrupted \/ (IsSubmitted(Wanted) /\ RootsFor(Wanted) # {})

\* The dapp's function returns, whatever the executors and the server do.
PollingEnds == dpc = "fetch" ~> dpc \in {"done", "gaveUp"}

\* Whose reports a root covers, stored or on the chain, is decided where the
\* executors listen: behind each leaf is an executor that was told of that
\* request by a transaction on our contract.  It holds while reports are
\* trimmed and roots outlive them, with several workers, an owner who registers
\* roots, and crashes of any program between the steps.
CertifiedWasHeard ==
  \A root \in StoredRoots \cup {chainRoot[r] : r \in Requests} : \A x \in root :
    \E tx \in emitted : tx.ours /\ FirstStage(tx) = x.requestId
       /\ \E p \in heard[tx] : Owner[p] = x.executor
=============================================================================
