--------------------------- MODULE ExecutorClient ---------------------------
(***************************************************************************)
(* The executor: a process that subscribes to the chain's transactions     *)
(* over a websocket, and for each request it hears of runs processRequest  *)
(* un-awaited, so any number of them interleave.  Every awaited call is    *)
(* one action.  The report it posts is handled by the handler of           *)
(* ReportController that has the task's name, so a task <<p, r>> is process *)
(* p working on request r and Handlers is the set of tasks.                *)
(*                                                                         *)
(* A process that dies loses its tasks and its connection and is started   *)
(* again (restart: on-failure).  A socket that dies loses the events under *)
(* way, and what the chain emits until the next subscription is not heard. *)
(* A socket may also go deaf without any callback: it stays open for ever. *)
(***************************************************************************)
EXTENDS ReportController

CONSTANTS
  Processes,       \* running executor programs
  Owner,           \* Owner[p]: the address of the mnemonic p runs with
  Sockets,         \* WebSocket objects a process may have at a time
  Txs,             \* transactions that call the contract with handle_request
  RejectionKills   \* an unhandled rejection ends the process (no Sentry)

Tasks == Processes \X Requests

\* parseInt of the array of stages is the first one of them.
FirstStage(tx) == Head(tx.stages)

\* External: the contract numbers the requests it takes.
ASSUME ClientAssumption ==
  /\ Owner \in [Processes -> Executors]
  /\ Handlers = Tasks
  /\ Txs \subseteq [ours : BOOLEAN, stages : Seq(Requests) \ {<<>>}]
  /\ \A tx, other \in Txs :
       tx.ours /\ other.ours /\ FirstStage(tx) = FirstStage(other) => tx = other
  /\ RejectionKills \in BOOLEAN

VARIABLES
  up,         \* whether the process runs
  socket,     \* the state of each WebSocket object of each process
  timers,     \* reconnections a process has scheduled
  inbox,      \* events a subscription has sent and the client not yet read
  heard,      \* the processes that were subscribed when a transaction came
  emitted,    \* the transactions that came
  tpc         \* the await each task is at

linkVars == <<up, socket, timers, inbox>>
clientVars == <<linkVars, heard, emitted, tpc>>
execVars == <<storeVars, handlerVars, clientVars>>

SocketStates == {"none", "connecting", "open", "subscribed", "deaf", "closing"}
Unawaited == {"client", "check", "getRequest"}
Caught == {"execute", "recheck", "post", "await"}
Ended == {"done", "skipped", "failed", "lost"}

ClientInit ==
  /\ up = [p \in Processes |-> FALSE]
  /\ socket = [p \in Processes |-> [s \in Sockets |-> "none"]]
  /\ timers = [p \in Processes |-> 0]
  /\ inbox = [p \in Processes |-> [s \in Sockets |-> {}]]
  /\ heard = [tx \in Txs |-> {}]
  /\ emitted = {}
  /\ tpc = [t \in Tasks |-> "none"]

ClientTypeOK ==
  /\ up \in [Processes -> BOOLEAN]
  /\ socket \in [Processes -> [Sockets -> SocketStates]]
  /\ timers \in [Processes -> Nat]
  /\ inbox \in [Processes -> [Sockets -> SUBSET Txs]]
  /\ heard \in [Txs -> SUBSET Processes]
  /\ emitted \in SUBSET Txs
  /\ tpc \in [Tasks -> {"none"} \cup Unawaited \cup Caught \cup Ended]

Live(p) == {s \in Sockets : socket[p][s] # "none"}
Subscribed(p) == {s \in Sockets : socket[p][s] = "subscribed"}

SetSocket(p, s, state) == socket' = [socket EXCEPT ![p][s] = state]

-----------------------------------------------------------------------------
\* wsClientConnect and the callbacks of its WebSocket

Connect(p) ==
  \E s \in Sockets \ Live(p) : SetSocket(p, s, "connecting")

\* start() with a mnemonic, for the first time or after the process died.
StartProcess(p) ==
  /\ ~up[p]
  /\ up' = [up EXCEPT ![p] = TRUE]
  /\ Connect(p)
  /\ UNCHANGED <<timers, inbox, heard, emitted, tpc, storeVars, handlerVars>>

\* on open: the subscription is sent; the node confirms it with an empty
\* result, which the message callback drops.
Open(p, s) ==
  /\ \/ socket[p][s] = "connecting" /\ SetSocket(p, s, "open")
     \/ socket[p][s] = "open" /\ SetSocket(p, s, "subscribed")
  /\ UNCHANGED <<up, timers, inbox, heard, emitted, tpc, storeVars, handlerVars>>

\* The node answers the subscription with an error, which has no result and is
\* dropped as well, or the connection dies without a frame, which nobody pings
\* for: no callback runs, and no event arrives any more.
GoDeaf(p, s) ==
  /\ socket[p][s] \in {"open", "subscribed"}
  /\ Fault
  /\ SetSocket(p, s, "deaf")
  /\ inbox' = [inbox EXCEPT ![p][s] = {}]
  /\ UNCHANGED <<up, timers, heard, emitted, tpc, handlerVars>>
  /\ UNCHANGED <<executorCollection, requestCollection, merkleCollection, chainRoot>>

\* Mutant: the error callback reconnects as well.
OnErrorReconnects(p) == timers' = [timers EXCEPT ![p] = @ + 1]

\* on error: the library has begun to close the socket, close() is idle.
OnError(p) == UNCHANGED timers

SocketFails(p, s) ==
  /\ socket[p][s] \in {"connecting", "open", "subscribed", "deaf"}
  /\ Fault
  /\ SetSocket(p, s, "closing")
  /\ OnError(p)
  /\ inbox' = [inbox EXCEPT ![p][s] = {}]
  /\ UNCHANGED <<up, heard, emitted, tpc, handlerVars>>
  /\ UNCHANGED <<executorCollection, requestCollection, merkleCollection, chainRoot>>

\* Mutant: the close callback only logs.
OnCloseLogs(p) == UNCHANGED timers

\* on close: reconnect after five seconds.
OnClose(p) == timers' = [timers EXCEPT ![p] = @ + 1]

SocketCloses(p, s) ==
  /\ socket[p][s] = "closing"
  /\ SetSocket(p, s, "none")
  /\ OnClose(p)
  /\ UNCHANGED <<up, inbox, heard, emitted, tpc, storeVars, handlerVars>>

\* Mutant: the connection is made whether or not a timer is set.
AnyTime(p) == TRUE

TimerDue(p) == timers[p] > 0

Reconnect(p) ==
  /\ TimerDue(p)
  /\ timers' = [timers EXCEPT ![p] = @ - 1]
  /\ Connect(p)
  /\ UNCHANGED <<up, inbox, heard, emitted, tpc, storeVars, handlerVars>>

\* External: the chain commits a transaction and tells its subscribers.
Emit(tx) ==
  /\ tx \notin emitted
  /\ emitted' = emitted \cup {tx}
  /\ heard' = [heard EXCEPT ![tx] = {p \in Processes : Subscribed(p) # {}}]
  /\ inbox' = [p \in Processes |-> [s \in Sockets |->
                 IF s \in Subscribed(p) THEN inbox[p][s] \cup {tx} ELSE inbox[p][s]]]
  /\ UNCHANGED <<up, socket, timers, tpc, storeVars, handlerVars>>

\* Mutant: the contract the message is for is not looked at.
AnyContract(tx) == TRUE

\* contract_addr of the first execute message is ours.
Ours(tx) == tx.ours

\* on message: a task for a transaction whose first execute message is for
\* our contract.  The other stages of the transaction are not looked at.
Message(p, s) ==
  /\ \E tx \in inbox[p][s] :
       /\ inbox' = [inbox EXCEPT ![p][s] = @ \ {tx}]
       /\ IF Ours(tx)
          THEN tpc' = [tpc EXCEPT ![<<p, FirstStage(tx)>>] = "client"]
          ELSE UNCHANGED tpc
  /\ UNCHANGED <<up, socket, timers, heard, emitted, storeVars, handlerVars>>

-----------------------------------------------------------------------------
\* processRequest, processData and submitReport of a task

TaskAt(t, step) ==
  /\ tpc' = [tpc EXCEPT ![t] = step]
  /\ UNCHANGED <<linkVars, heard, emitted>>

Stored(t) == findReport(t[2], Owner[t[1]])

GetClient(t) ==
  /\ tpc[t] = "client"
  /\ TaskAt(t, "check")
  /\ UNCHANGED <<storeVars, handlerVars>>

\* Mutant: the answer is taken the wrong way round.
NextAfterCheckInverted(t, next) == IF Stored(t) = {} THEN "skipped" ELSE next

\* if (submitted) return
NextAfterCheck(t, next) == IF Stored(t) # {} THEN "skipped" ELSE next

CheckSubmit(t) ==
  /\ \/ tpc[t] = "check" /\ TaskAt(t, NextAfterCheck(t, "getRequest"))
     \/ tpc[t] = "recheck" /\ TaskAt(t, NextAfterCheck(t, "post"))
  /\ UNCHANGED <<storeVars, handlerVars>>

\* handleFetchResponse takes JSON of any status for an answer: an error has
\* no field `submitted` and reads as "not submitted".
CheckMisread(t) ==
  /\ \/ tpc[t] = "check" /\ TaskAt(t, "getRequest")
     \/ tpc[t] = "recheck" /\ TaskAt(t, "post")
  /\ Fault
  /\ UNCHANGED <<executorCollection, requestCollection, merkleCollection,
                 chainRoot, handlerVars>>

GetRequest(t) ==
  /\ tpc[t] = "getRequest"
  /\ TaskAt(t, "execute")
  /\ UNCHANGED <<storeVars, handlerVars>>

ExecuteService(t) ==
  /\ tpc[t] = "execute"
  /\ TaskAt(t, "recheck")
  /\ UNCHANGED <<storeVars, handlerVars>>

\* The signed report goes to the websocket clients and is posted once.
Post(t) ==
  /\ tpc[t] = "post"
  /\ TaskAt(t, "await")
  /\ ReceiveReport(t)
  /\ body'[t].requestId = t[2]
  /\ body'[t].executor = Owner[t[1]]

\* Whatever JSON the backend answered, the report counts as submitted.
Answered(t) ==
  /\ tpc[t] = "await"
  /\ hpc[t] = "idle"
  /\ TaskAt(t, "done")
  /\ UNCHANGED <<storeVars, handlerVars>>

\* The processes of P die with all that is under way in them; the other tasks
\* of C fail.
Die(P, C) ==
  /\ up' = [p \in Processes |-> up[p] /\ p \notin P]
  /\ socket' = [p \in Processes |->
                  IF p \in P THEN [s \in Sockets |-> "none"] ELSE socket[p]]
  /\ timers' = [p \in Processes |-> IF p \in P THEN 0 ELSE timers[p]]
  /\ inbox' = [p \in Processes |-> IF p \in P THEN [s \in Sockets |-> {}] ELSE inbox[p]]
  /\ tpc' = [t \in Tasks |->
               CASE t[1] \in P /\ tpc[t] \in Unawaited \cup Caught -> "lost"
                 [] t \in C /\ t[1] \notin P -> "failed"
                 [] OTHER -> tpc[t]]
  /\ UNCHANGED <<heard, emitted>>

\* Calls of the tasks of C reject: in processData that is caught and logged,
\* before it nobody awaits the promise.
Reject(C) ==
  Die(IF RejectionKills THEN {t[1] : t \in {u \in C : tpc[u] \in Unawaited}} ELSE {}, C)

TaskRejects(t) ==
  /\ tpc[t] \in Unawaited \cup Caught
  /\ Fault
  /\ Reject({t})
  /\ UNCHANGED <<executorCollection, requestCollection, merkleCollection,
                 chainRoot, handlerVars>>

ProcessCrash(p) ==
  /\ up[p]
  /\ Fault
  /\ Die({p}, {})
  /\ UNCHANGED <<executorCollection, requestCollection, merkleCollection,
                 chainRoot, handlerVars>>

\* While the API server is down, the posts it was serving reject, and so does
\* any other call of it that is or would be under way: none is made again.
CallsCut ==
  \E C \in SUBSET {t \in Tasks : tpc[t] \in {"check", "recheck", "post", "await"}} :
    /\ \A t \in Tasks : tpc[t] = "await" /\ hpc[t] # "idle" => t \in C
    /\ Reject(C)

ServerRestarts ==
  /\ Fault
  /\ HandlersGone
  /\ CallsCut
  /\ UNCHANGED <<executorCollection, requestCollection, merkleCollection, chainRoot>>

-----------------------------------------------------------------------------
TaskStep(t) ==
  \/ GetClient(t)
  \/ CheckSubmit(t)
  \/ GetRequest(t)
  \/ ExecuteService(t)
  \/ Post(t)
  \/ Answered(t)

ProcessStep(p) ==
  \/ StartProcess(p)
  \/ Reconnect(p)
  \/ \E s \in Sockets : Open(p, s) \/ SocketCloses(p, s) \/ Message(p, s)
  \/ \E r \in Requests : TaskStep(<<p, r>>)

ClientFault ==
  \/ \E p \in Processes :
       \/ ProcessCrash(p)
       \/ \E s \in Sockets : SocketFails(p, s) \/ GoDeaf(p, s)
  \/ \E t \in Tasks : CheckMisread(t) \/ TaskRejects(t)

\* The executors here are on the contract's list and sign with their keys.
Served(h) ==
  \/ CheckSender(h) /\ hpc'[h] = "findReport"
  \/ FindReport(h)
  \/ CountReports(h)
  \/ InsertRequest(h)
  \/ InsertReport(h)
  \/ RefuseDuplicate(h)

ServerStep(h) == Served(h) /\ UNCHANGED clientVars

ClientNext ==
  \/ \E p \in Processes : ProcessStep(p)
  \/ \E tx \in Txs : Emit(tx)
  \/ ClientFault
  \/ \E h \in Handlers : ServerStep(h) \/ (HandlerFails(h) /\ UNCHANGED clientVars)

ExecNext == ClientNext \/ ServerRestarts

ExecInit == StoreInit /\ HandlerInit /\ ClientInit
ExecTypeOK == StoreTypeOK /\ HandlerTypeOK /\ ClientTypeOK

ExecSpec == ExecInit /\ [][ExecNext]_execVars

-----------------------------------------------------------------------------
(* Properties *)

\* error and close callbacks, timers and restarts together keep a running
\* executor at exactly one connection, or one reconnection that is due: with
\* two it would execute every request twice, with none it would go deaf.
OneConnection ==
  \A p \in Processes :
    /\ \A s1, s2 \in Live(p) : s1 = s2
    /\ Live(p) # {} => timers[p] = 0
    /\ timers[p] <= 1
    /\ up[p] <=> (Live(p) # {} \/ timers[p] = 1)

\* No request is executed twice by a program, and no event overwrites a task:
\* while an event of our contract is under way its request is not taken up, nor
\* is the event under way on a second socket, through any order of failures,
\* reconnections and restarts.
TakenUpOnce ==
  \A p \in Processes, s \in Sockets : \A tx \in inbox[p][s] :
    tx.ours => /\ tpc[<<p, FirstStage(tx)>>] = "none"
               /\ \A z \in Sockets : tx \in inbox[p][z] => z = s

\* A task that ends without a failure leaves its request settled, although
\* the checks, the count and the insert of it are separate calls that other
\* tasks (of the same mnemonic, too) interleave with: the executor's report
\* is stored, or the request has its reports.
Settled(t) ==
  Stored(t) # {} \/ countExecutorReports(t[2]) >= Threshold[t[2]]

DoneMeansSettled ==
  \A t \in Tasks : faults = 0 /\ tpc[t] \in {"done", "skipped"} => Settled(t)

\* The backend only ever holds reports of stages that were the first of a
\* transaction on our contract: filters and parseInt never mix requests up.
OnlyHeardReports ==
  \A x \in executorCollection :
    \E tx \in emitted : tx.ours /\ FirstStage(tx) = x.requestId
       /\ \E p \in heard[tx] : Owner[p] = x.executor

\* No failure that a callback reports, and no crash, keeps an executor from
\* listening: through errors, closes, timers and restarts it gets back to a
\* connection that is subscribed, unless one goes deaf, of which no callback
\* tells and from which ws.ts never recovers by itself.
ListensUnlessDeaf ==
  \A p \in Processes :
    []<>(\E s \in Sockets : socket[p][s] \in {"subscribed", "deaf"})

=============================================================================
