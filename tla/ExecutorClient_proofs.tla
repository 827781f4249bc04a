------------------------ MODULE ExecutorClient_proofs ------------------------
(***************************************************************************)
(* What holds of the executors for any number of programs, sockets,        *)
(* transactions and failures.                                              *)
(***************************************************************************)
EXTENDS ExecutorClient, ReportController_proofs

-----------------------------------------------------------------------------
(* Types *)

\* What a fault leaves of the store and the handlers.
FaultOnly ==
  /\ Fault
  /\ UNCHANGED <<executorCollection, requestCollection, merkleCollection,
                 chainRoot, handlerVars>>

\* Every step of the executors' world but a restart of the server is a step of
\* a handler, a fault that touches nothing stored, or leaves the server alone.
LEMMA ServerPart ==
  ASSUME ClientNext, HandlerAssumption, ClientAssumption
  PROVE  \/ HandlerNext
         \/ FaultOnly
         \/ UNCHANGED <<storeVars, handlerVars>>
<1> DEFINE Goal == HandlerNext \/ FaultOnly \/ UNCHANGED <<storeVars, handlerVars>>
<1>1. ASSUME NEW p \in Processes, ProcessStep(p) PROVE Goal
  <2>1. CASE \E r \in Requests : TaskStep(<<p, r>>)
    <3>1. PICK r \in Requests : TaskStep(<<p, r>>)
      BY <2>1
    <3>2. <<p, r>> \in Handlers
      BY DEF ClientAssumption, Tasks
    <3>3. CASE Post(<<p, r>>)
      BY <3>2, <3>3 DEF Post, HandlerNext
    <3>4. CASE ~Post(<<p, r>>)
      BY <3>1, <3>4 DEF TaskStep, GetClient, CheckSubmit, GetRequest,
         ExecuteService, Answered
    <3> QED
      BY <3>3, <3>4
  <2>2. CASE StartProcess(p) \/ Reconnect(p)
    BY <2>2 DEF StartProcess, Reconnect
  <2>3. CASE \E s \in Sockets : Open(p, s) \/ SocketCloses(p, s) \/ Message(p, s)
    BY <2>3 DEF Open, SocketCloses, Message
  <2> QED
    BY <1>1, <2>1, <2>2, <2>3 DEF ProcessStep
<1>2. ASSUME NEW tx \in Txs, Emit(tx) PROVE Goal
  BY <1>2 DEF Emit
<1>3. ASSUME ClientFault PROVE Goal
  BY <1>3 DEF ClientFault, FaultOnly, ProcessCrash, SocketFails, GoDeaf, CheckMisread,
     TaskRejects
<1>4. ASSUME NEW h \in Handlers, ServerStep(h) PROVE Goal
  BY <1>4 DEF ServerStep, Served, HandlerNext
<1>5. ASSUME NEW h \in Handlers, HandlerFails(h) PROVE Goal
  BY <1>5 DEF HandlerNext
<1> QED
  BY <1>1, <1>2, <1>3, <1>4, <1>5 DEF ClientNext

\* The types of the store and of the handlers are kept.
LEMMA ServerTypes ==
  ASSUME StoreAssumption, HandlerAssumption, ClientAssumption,
         StoreTypeOK, HandlerTypeOK, [ExecNext]_execVars
  PROVE  StoreTypeOK' /\ HandlerTypeOK'
<1>1. CASE HandlerNext
  BY <1>1, HandlerTypes
<1>2. CASE FaultOnly
  BY <1>2 DEF FaultOnly, Fault, StoreTypeOK, HandlerTypeOK, handlerVars, StoreAssumption
<1>3. CASE UNCHANGED <<storeVars, handlerVars>>
  <2>1. StoreTypeOK'
    BY <1>3, StoreFrame
  <2> QED
    BY <1>3, <2>1 DEF HandlerTypeOK, handlerVars
<1>4. CASE ServerRestarts
  BY <1>4 DEF ServerRestarts, HandlersGone, Fault, StoreTypeOK, HandlerTypeOK,
     HandlerSteps, StoreAssumption
<1> QED
  BY <1>1, <1>2, <1>3, <1>4, ServerPart DEF ExecNext, execVars

\* The first stage of a transaction is a request.
LEMMA FirstStageType ==
  ASSUME ClientAssumption, NEW tx \in Txs
  PROVE  FirstStage(tx) \in Requests
<1>1. tx.stages \in Seq(Requests) /\ tx.stages # <<>>
  BY DEF ClientAssumption
<1> QED
  BY <1>1 DEF FirstStage

\* A step of a task keeps the client's types.
LEMMA TaskTypes ==
  ASSUME ClientTypeOK, NEW t \in Tasks,
         NEW step \in {"none"} \cup Unawaited \cup Caught \cup Ended, TaskAt(t, step)
  PROVE  ClientTypeOK'
BY DEF ClientTypeOK, TaskAt, linkVars

\* Death keeps the client's types.
LEMMA DieTypes ==
  ASSUME ClientTypeOK, NEW P, NEW C, Die(P, C)
  PROVE  ClientTypeOK'
<1> USE DEF ClientTypeOK
<1>1. up' \in [Processes -> BOOLEAN] /\ timers' \in [Processes -> Nat]
  BY DEF Die
<1>2. socket' \in [Processes -> [Sockets -> SocketStates]]
  BY DEF Die, SocketStates
<1>3. inbox' \in [Processes -> [Sockets -> SUBSET Txs]]
  BY DEF Die
<1>4. tpc' \in [Tasks -> {"none"} \cup Unawaited \cup Caught \cup Ended]
  BY DEF Die, Ended
<1> QED
  BY <1>1, <1>2, <1>3, <1>4 DEF Die

\* Every step keeps the client's types.
LEMMA ClientTypes ==
  ASSUME ClientAssumption, ClientTypeOK, [ExecNext]_execVars
  PROVE  ClientTypeOK'
<1> DEFINE Steps == {"none"} \cup Unawaited \cup Caught \cup Ended
<1>1. ASSUME NEW p \in Processes, StartProcess(p) PROVE ClientTypeOK'
  BY <1>1 DEF StartProcess, Connect, SetSocket, ClientTypeOK, SocketStates
<1>2. ASSUME NEW p \in Processes, Reconnect(p) PROVE ClientTypeOK'
  BY <1>2 DEF Reconnect, TimerDue, Connect, SetSocket, ClientTypeOK, SocketStates
<1>3. ASSUME NEW p \in Processes, NEW s \in Sockets, Open(p, s) PROVE ClientTypeOK'
  <2>1. PICK state \in SocketStates : SetSocket(p, s, state)
    BY <1>3 DEF Open, SocketStates
  <2>2. socket' \in [Processes -> [Sockets -> SocketStates]]
    BY <2>1 DEF SetSocket, ClientTypeOK
  <2> QED
    BY <1>3, <2>2 DEF Open, ClientTypeOK
<1>4. ASSUME NEW p \in Processes, NEW s \in Sockets, SocketCloses(p, s) PROVE ClientTypeOK'
  BY <1>4 DEF SocketCloses, OnClose, SetSocket, ClientTypeOK, SocketStates
<1>5. ASSUME NEW p \in Processes, NEW s \in Sockets, Message(p, s) PROVE ClientTypeOK'
  <2>1. PICK tx \in inbox[p][s] :
          /\ inbox' = [inbox EXCEPT ![p][s] = @ \ {tx}]
          /\ IF Ours(tx)
             THEN tpc' = [tpc EXCEPT ![<<p, FirstStage(tx)>>] = "client"]
             ELSE UNCHANGED tpc
    BY <1>5 DEF Message
  <2>2. inbox' \in [Processes -> [Sockets -> SUBSET Txs]]
    BY <2>1 DEF ClientTypeOK
  <2>3. tpc' \in [Tasks -> Steps]
    BY <2>1 DEF ClientTypeOK, Unawaited
  <2> QED
    BY <1>5, <2>2, <2>3 DEF Message, ClientTypeOK
<1>6. ASSUME NEW p \in Processes, NEW r \in Requests, TaskStep(<<p, r>>)
      PROVE  ClientTypeOK'
  <2> DEFINE t == <<p, r>>
  <2>1. t \in Tasks
    BY DEF Tasks
  <2>2. PICK step \in Steps : TaskAt(t, step)
    BY <1>6 DEF TaskStep, GetClient, CheckSubmit, NextAfterCheck, GetRequest,
       ExecuteService, Post, Answered, Unawaited, Caught, Ended
  <2> QED
    BY <2>1, <2>2, TaskTypes
<1>7. ASSUME NEW tx \in Txs, Emit(tx) PROVE ClientTypeOK'
  BY <1>7 DEF Emit, ClientTypeOK
<1>8. ASSUME NEW p \in Processes, ProcessCrash(p) PROVE ClientTypeOK'
  BY <1>8, DieTypes DEF ProcessCrash
<1>9. ASSUME NEW p \in Processes, NEW s \in Sockets, SocketFails(p, s) PROVE ClientTypeOK'
  BY <1>9 DEF SocketFails, OnError, SetSocket, ClientTypeOK, SocketStates
<1>10. ASSUME NEW t \in Tasks, CheckMisread(t) PROVE ClientTypeOK'
  <2>1. PICK step \in Steps : TaskAt(t, step)
    BY <1>10 DEF CheckMisread, Unawaited, Caught
  <2> QED
    BY <2>1, TaskTypes
<1>11. ASSUME NEW t \in Tasks, TaskRejects(t) PROVE ClientTypeOK'
  BY <1>11, DieTypes DEF TaskRejects, Reject
<1>15. ASSUME NEW p \in Processes, NEW s \in Sockets, GoDeaf(p, s) PROVE ClientTypeOK'
  BY <1>15 DEF GoDeaf, SetSocket, ClientTypeOK, SocketStates
<1>16. CASE ServerRestarts
  BY <1>16, DieTypes DEF ServerRestarts, CallsCut, Reject
<1>12. CASE UNCHANGED clientVars
  BY <1>12 DEF clientVars, linkVars, ClientTypeOK
<1>13. CASE \E p \in Processes : ProcessStep(p)
  BY <1>1, <1>2, <1>3, <1>4, <1>5, <1>6, <1>13 DEF ProcessStep
<1>14. CASE ClientFault
  BY <1>8, <1>9, <1>10, <1>11, <1>14, <1>15 DEF ClientFault
<1> QED
  BY <1>7, <1>12, <1>13, <1>14, <1>16 DEF ExecNext, ClientNext, ServerStep, execVars

LEMMA TypeNext ==
  ASSUME StoreAssumption, HandlerAssumption, ClientAssumption,
         ExecTypeOK, [ExecNext]_execVars
  PROVE  ExecTypeOK'
BY ServerTypes, ClientTypes DEF ExecTypeOK

LEMMA TypeInit ==
  ASSUME StoreAssumption, ExecInit
  PROVE  ExecTypeOK
<1>1. StoreTypeOK
  <2>1. IsFiniteSet({})
    BY FS_EmptySet
  <2> QED
    BY <2>1 DEF ExecInit, StoreInit, StoreTypeOK, StoreAssumption, Statuses, NoRoot, Roots
<1>2. HandlerTypeOK
  BY DEF ExecInit, HandlerInit, HandlerTypeOK, HandlerSteps
<1>3. ClientTypeOK
  BY DEF ExecInit, ClientInit, ClientTypeOK, SocketStates
<1> QED
  BY <1>1, <1>2, <1>3 DEF ExecTypeOK

\* Every variable keeps its type, for any number of programs and failures.
THEOREM ExecTypeCorrect == ExecSpec => []ExecTypeOK
<1>1. ExecInit => ExecTypeOK
  BY TypeInit, StoreAssumption
<1>2. ExecTypeOK /\ [ExecNext]_execVars => ExecTypeOK'
  BY TypeNext, StoreAssumption, HandlerAssumption, ClientAssumption
<1> QED
  BY <1>1, <1>2, PTL DEF ExecSpec

-----------------------------------------------------------------------------
(* The connection of a program *)

\* OneConnection, of one program.
LinkOK(p) ==
  /\ \A s1, s2 \in Live(p) : s1 = s2
  /\ Live(p) # {} => timers[p] = 0
  /\ timers[p] <= 1
  /\ up[p] <=> (Live(p) # {} \/ timers[p] = 1)

LEMMA LinkFrame ==
  ASSUME NEW p \in Processes, LinkOK(p),
         up'[p] = up[p], timers'[p] = timers[p],
         \A s \in Sockets : socket'[p][s] = "none" <=> socket[p][s] = "none"
  PROVE  LinkOK(p)'
<1>1. Live(p)' = Live(p)
  BY DEF Live
<1> QED
  BY <1>1 DEF LinkOK

\* A step that changes the link of p leaves the other programs' alone.
LEMMA LinkNext ==
  ASSUME ClientTypeOK, OneConnection, [ExecNext]_execVars
  PROVE  OneConnection'
<1>1. \A q \in Processes : LinkOK(q)
  BY DEF OneConnection, LinkOK
<1> SUFFICES ASSUME NEW q \in Processes PROVE LinkOK(q)'
  BY DEF OneConnection, LinkOK
<1> USE <1>1 DEF ClientTypeOK
<1>2. ASSUME NEW p \in Processes, StartProcess(p) PROVE LinkOK(q)'
  <2>1. CASE p # q
    BY <1>2, <2>1, LinkFrame DEF StartProcess, Connect, SetSocket
  <2>2. CASE p = q
    <3>1. ~up[q] /\ LinkOK(q) /\ timers[q] \in Nat
      BY <1>2, <2>2 DEF StartProcess
    <3>2. ~(Live(q) # {} \/ timers[q] = 1) /\ timers[q] <= 1
      BY <3>1, Zenon DEF LinkOK
    <3>3. \A n \in Nat : n <= 1 /\ n # 1 => n = 0
      OBVIOUS
    <3>4. Live(q) = {} /\ timers[q] = 0
      BY <3>1, <3>2, <3>3, Zenon
    <3>5. PICK s \in Sockets : SetSocket(q, s, "connecting")
      BY <1>2, <2>2 DEF StartProcess, Connect
    <3>6. Live(q)' = {s}
      BY <3>4, <3>5 DEF Live, SetSocket
    <3>7. timers'[q] = 0 /\ up'[q]
      BY <1>2, <2>2, <3>4 DEF StartProcess
    <3> QED
      BY <3>6, <3>7 DEF LinkOK
  <2> QED
    BY <2>1, <2>2
<1>3. ASSUME NEW p \in Processes, Reconnect(p) PROVE LinkOK(q)'
  <2>1. CASE p # q
    BY <1>3, <2>1, LinkFrame DEF Reconnect, Connect, SetSocket
  <2>2. CASE p = q
    <3>1. Live(q) = {} /\ timers[q] = 1 /\ up[q]
      BY <1>3, <2>2 DEF Reconnect, TimerDue, LinkOK
    <3>2. PICK s \in Sockets : SetSocket(q, s, "connecting")
      BY <1>3, <2>2 DEF Reconnect, Connect
    <3>3. Live(q)' = {s}
      BY <3>1, <3>2 DEF Live, SetSocket
    <3>4. timers'[q] = 0 /\ up'[q]
      BY <1>3, <2>2, <3>1 DEF Reconnect
    <3> QED
      BY <3>3, <3>4 DEF LinkOK
  <2> QED
    BY <2>1, <2>2
<1>4. ASSUME NEW p \in Processes, NEW s \in Sockets, Open(p, s) PROVE LinkOK(q)'
  <2>1. socket[p][s] # "none" /\ \E state \in {"open", "subscribed"} : SetSocket(p, s, state)
    BY <1>4 DEF Open
  <2>2. \A z \in Sockets : socket'[q][z] = "none" <=> socket[q][z] = "none"
    BY <2>1 DEF SetSocket
  <2> QED
    BY <1>4, <2>2, LinkFrame DEF Open
<1>5. ASSUME NEW p \in Processes, NEW s \in Sockets, SocketFails(p, s) PROVE LinkOK(q)'
  BY <1>5, LinkFrame DEF SocketFails, OnError, SetSocket
<1>6. ASSUME NEW p \in Processes, NEW s \in Sockets, SocketCloses(p, s) PROVE LinkOK(q)'
  <2>1. CASE p # q
    BY <1>6, <2>1, LinkFrame DEF SocketCloses, OnClose, SetSocket
  <2>2. CASE p = q
    <3>1. s \in Live(q)
      BY <1>6, <2>2 DEF SocketCloses, Live
    <3>2. Live(q) = {s} /\ timers[q] = 0 /\ up[q]
      BY <3>1 DEF LinkOK
    <3>3. Live(q)' = {}
      BY <1>6, <2>2, <3>2 DEF SocketCloses, SetSocket, Live
    <3>4. timers'[q] = 1 /\ up'[q]
      BY <1>6, <2>2, <3>2 DEF SocketCloses, OnClose
    <3> QED
      BY <3>3, <3>4 DEF LinkOK
  <2> QED
    BY <2>1, <2>2
<1>7. ASSUME NEW P, NEW C, Die(P, C) PROVE LinkOK(q)'
  <2>1. CASE q \notin P
    BY <1>7, <2>1, LinkFrame DEF Die
  <2>2. CASE q \in P
    <3>1. Live(q)' = {} /\ timers'[q] = 0 /\ ~up'[q]
      BY <1>7, <2>2 DEF Die, Live
    <3> QED
      BY <3>1 DEF LinkOK
  <2> QED
    BY <2>1, <2>2
<1>11. ASSUME NEW p \in Processes, NEW s \in Sockets, GoDeaf(p, s) PROVE LinkOK(q)'
  BY <1>11, LinkFrame DEF GoDeaf, SetSocket
<1>8. CASE UNCHANGED <<up, socket, timers>>
  BY <1>8, LinkFrame
<1>9. CASE \E p \in Processes : ProcessStep(p)
  <2>1. PICK p \in Processes : ProcessStep(p)
    BY <1>9
  <2>2. CASE \E s \in Sockets : Message(p, s)
    BY <1>8, <2>2 DEF Message
  <2>3. CASE \E r \in Requests : TaskStep(<<p, r>>)
    BY <1>8, <2>3 DEF TaskStep, GetClient, CheckSubmit, GetRequest,
       ExecuteService, Post, Answered, TaskAt, linkVars
  <2> QED
    BY <1>2, <1>3, <1>4, <1>6, <2>1, <2>2, <2>3 DEF ProcessStep
<1>10. CASE ClientFault
  <2>1. CASE \E t \in Tasks : CheckMisread(t) \/ TaskRejects(t)
    BY <1>7, <1>8, <2>1 DEF CheckMisread, TaskRejects, Reject, TaskAt, linkVars
  <2> QED
    BY <1>5, <1>7, <1>10, <1>11, <2>1 DEF ClientFault, ProcessCrash
<1>12. CASE ServerRestarts
  BY <1>7, <1>12 DEF ServerRestarts, CallsCut, Reject
<1> QED
  BY <1>8, <1>9, <1>10, <1>12
  DEF ExecNext, ClientNext, Emit, ServerStep, clientVars, linkVars, execVars

\* A running executor has one connection or one that is due, through any
\* order of errors, closes, timers, crashes and restarts.
THEOREM ConnectedOnce == ExecSpec => []OneConnection
<1>1. ExecInit => OneConnection
  BY DEF ExecInit, ClientInit, OneConnection, Live
<1>2. ExecTypeOK /\ OneConnection /\ [ExecNext]_execVars => OneConnection'
  BY LinkNext DEF ExecTypeOK
<1> QED
  BY <1>1, <1>2, ExecTypeCorrect, PTL DEF ExecSpec

-----------------------------------------------------------------------------
(* Whose reports are stored *)

\* The program of a task was told of its request.
Told(t) ==
  \E tx \in emitted : tx.ours /\ FirstStage(tx) = t[2] /\ t[1] \in heard[tx]

\* What a subscription, a task and a handler hold goes back to a transaction
\* that was emitted.
HeardInv ==
  /\ \A p \in Processes, s \in Sockets : \A tx \in inbox[p][s] :
       tx \in emitted /\ p \in heard[tx]
  /\ \A t \in Tasks : tpc[t] # "none" => Told(t)
  /\ \A t \in Tasks : hpc[t] # "idle" =>
       Told(t) /\ body[t].requestId = t[2] /\ body[t].executor = Owner[t[1]]
  /\ OnlyHeardReports

\* What was told stays told.
LEMMA ToldGrows ==
  ASSUME ClientTypeOK, [ExecNext]_execVars, NEW tx \in emitted
  PROVE  tx \in emitted' /\ heard'[tx] = heard[tx]
<1>1. CASE \E new \in Txs : Emit(new)
  BY <1>1 DEF Emit, ClientTypeOK
<1>2. CASE \E p \in Processes : ProcessStep(p)
  BY <1>2 DEF ProcessStep, StartProcess, Reconnect, Open, SocketCloses, Message,
     TaskStep, GetClient, CheckSubmit, GetRequest, ExecuteService, Post, Answered,
     TaskAt
<1>3. CASE ClientFault
  BY <1>3 DEF ClientFault, ProcessCrash, SocketFails, GoDeaf, CheckMisread,
     TaskRejects, Reject, TaskAt, Die
<1>4. CASE UNCHANGED clientVars
  BY <1>4 DEF clientVars
<1>5. CASE ServerRestarts
  BY <1>5 DEF ServerRestarts, CallsCut, Reject, Die
<1> QED
  BY <1>1, <1>2, <1>3, <1>4, <1>5 DEF ExecNext, ClientNext, ServerStep, execVars

\* A stored report stays stored: nothing deletes while only executors run.
LEMMA CollectionGrows ==
  ASSUME HandlerAssumption, ClientAssumption, [ExecNext]_execVars
  PROVE  \/ executorCollection' = executorCollection
         \/ \E h \in Handlers : /\ hpc[h] = "insertReport"
                               /\ executorCollection' = executorCollection \cup {body[h]}
<1>1. CASE HandlerNext
  BY <1>1 DEF HandlerNext, ReceiveReport, CheckSender, FindReport, CountReports,
     InsertRequest, InsertReport, insertExecutorReport, RefuseDuplicate,
     HandlerFails, BenchmarkPost, storeVars
<1>2. CASE FaultOnly \/ UNCHANGED <<storeVars, handlerVars>>
  BY <1>2 DEF FaultOnly, storeVars
<1> QED
  BY <1>1, <1>2, ServerPart DEF ExecNext, ServerRestarts, execVars

\* An event is new on a socket only when the chain emits it to a subscriber.
LEMMA EventArrives ==
  ASSUME ClientTypeOK, [ExecNext]_execVars,
         NEW p \in Processes, NEW s \in Sockets,
         NEW tx \in inbox'[p][s], tx \notin inbox[p][s]
  PROVE  tx \in Txs /\ Emit(tx) /\ s \in Subscribed(p)
<1> USE DEF ClientTypeOK
<1>1. CASE \E new \in Txs : Emit(new)
  <2>1. PICK new \in Txs : Emit(new)
    BY <1>1
  <2>2. s \in Subscribed(p) /\ tx = new
    BY <2>1 DEF Emit
  <2> QED
    BY <2>1, <2>2
<1>2. ASSUME inbox'[p][s] \subseteq inbox[p][s] PROVE FALSE
  BY <1>2
<1>3. ASSUME NEW q \in Processes, ProcessStep(q) PROVE FALSE
  <2>1. CASE \E z \in Sockets : Message(q, z)
    BY <1>2, <2>1 DEF Message
  <2>2. CASE inbox' = inbox
    BY <1>2, <2>2
  <2> QED
    BY <1>3, <2>1, <2>2 DEF ProcessStep, StartProcess, Reconnect, Open,
       SocketCloses, TaskStep, GetClient, CheckSubmit, GetRequest,
       ExecuteService, Post, Answered, TaskAt, linkVars
<1>4. ASSUME NEW P, NEW C, Die(P, C) PROVE FALSE
  BY <1>2, <1>4 DEF Die
<1>5. ASSUME ClientFault PROVE FALSE
  <2>1. ASSUME NEW q \in Processes, NEW z \in Sockets,
               inbox' = [inbox EXCEPT ![q][z] = {}]
        PROVE  FALSE
    BY <1>2, <2>1
  <2>2. ASSUME NEW q \in Processes, NEW z \in Sockets, SocketFails(q, z) \/ GoDeaf(q, z)
        PROVE  FALSE
    BY <2>1, <2>2 DEF SocketFails, GoDeaf
  <2>3. CASE inbox' = inbox
    BY <1>2, <2>3
  <2> QED
    BY <1>4, <1>5, <2>2, <2>3 DEF ClientFault, ProcessCrash, CheckMisread,
       TaskRejects, Reject, TaskAt, linkVars
<1>6. ASSUME UNCHANGED clientVars PROVE FALSE
  BY <1>2, <1>6 DEF clientVars, linkVars
<1> QED
  BY <1>1, <1>3, <1>4, <1>5, <1>6
  DEF ExecNext, ClientNext, ServerRestarts, CallsCut, Reject, ServerStep, execVars

\* A task starts only with an event of our contract, which it takes off the
\* socket.
LEMMA TaskStarts ==
  ASSUME ClientTypeOK, [ExecNext]_execVars,
         NEW t \in Tasks, tpc[t] = "none", tpc'[t] # "none"
  PROVE  \E s \in Sockets : \E tx \in inbox[t[1]][s] :
           /\ tx.ours /\ t = <<t[1], FirstStage(tx)>>
           /\ inbox' = [inbox EXCEPT ![t[1]][s] = @ \ {tx}]
<1> DEFINE Taken == \E s \in Sockets : \E tx \in inbox[t[1]][s] :
                      /\ tx.ours /\ t = <<t[1], FirstStage(tx)>>
                      /\ inbox' = [inbox EXCEPT ![t[1]][s] = @ \ {tx}]
<1> USE DEF ClientTypeOK
<1>1. ASSUME NEW p \in Processes, NEW s \in Sockets, Message(p, s) PROVE Taken
  <2>1. PICK tx \in inbox[p][s] :
          /\ inbox' = [inbox EXCEPT ![p][s] = @ \ {tx}]
          /\ IF Ours(tx)
             THEN tpc' = [tpc EXCEPT ![<<p, FirstStage(tx)>>] = "client"]
             ELSE UNCHANGED tpc
    BY <1>1 DEF Message
  <2>2. tx.ours /\ t = <<p, FirstStage(tx)>>
    BY <2>1 DEF Ours
  <2> QED
    BY <2>1, <2>2
<1>2. ASSUME NEW u \in Tasks, NEW step, TaskAt(u, step), tpc[u] # "none" PROVE FALSE
  BY <1>2 DEF TaskAt
<1>3. ASSUME NEW P, NEW C, Die(P, C), \A u \in C : tpc[u] # "none" PROVE FALSE
  BY <1>3 DEF Die, Unawaited, Caught
<1>4. ASSUME UNCHANGED tpc PROVE FALSE
  BY <1>4
<1>5. ASSUME NEW p \in Processes, NEW r \in Requests, TaskStep(<<p, r>>) PROVE FALSE
  <2>1. <<p, r>> \in Tasks
    BY DEF Tasks
  <2> QED
    BY <1>2, <1>5, <2>1 DEF TaskStep, GetClient, CheckSubmit, GetRequest,
       ExecuteService, Post, Answered
<1>6. CASE \E p \in Processes : ProcessStep(p)
  BY <1>1, <1>4, <1>5, <1>6 DEF ProcessStep, StartProcess, Reconnect, Open,
     SocketCloses
<1>7. ASSUME NEW u \in Tasks, CheckMisread(u) PROVE FALSE
  BY <1>2, <1>7 DEF CheckMisread
<1>8. ASSUME NEW u \in Tasks, TaskRejects(u) PROVE FALSE
  <2>1. tpc[u] # "none" /\ Reject({u})
    BY <1>8 DEF TaskRejects, Unawaited, Caught
  <2>2. \A v \in {u} : tpc[v] # "none"
    BY <2>1
  <2> QED
    BY <1>3, <2>1, <2>2 DEF Reject
<1>9. ASSUME ClientFault PROVE FALSE
  <2>1. ASSUME NEW p \in Processes, ProcessCrash(p) PROVE FALSE
    BY <1>3, <2>1 DEF ProcessCrash
  <2>2. ASSUME NEW p \in Processes, NEW s \in Sockets, SocketFails(p, s) \/ GoDeaf(p, s)
        PROVE  UNCHANGED tpc
    BY <2>2 DEF SocketFails, GoDeaf
  <2> QED
    BY <1>4, <1>7, <1>8, <1>9, <2>1, <2>2 DEF ClientFault
<1>10. ASSUME ServerRestarts PROVE FALSE
  BY <1>3, <1>10 DEF ServerRestarts, CallsCut, Reject
<1> QED
  BY <1>4, <1>6, <1>9, <1>10
  DEF ExecNext, ClientNext, Emit, ServerStep, clientVars, execVars

\* The inboxes hold emitted transactions only.
LEMMA InboxNext ==
  ASSUME ClientTypeOK, HeardInv, [ExecNext]_execVars,
         NEW p \in Processes, NEW s \in Sockets, NEW tx \in inbox'[p][s]
  PROVE  tx \in emitted' /\ p \in heard'[tx]
<1>1. CASE tx \in inbox[p][s]
  <2>1. tx \in emitted /\ p \in heard[tx]
    BY <1>1 DEF HeardInv
  <2> QED
    BY <2>1, ToldGrows
<1>2. CASE tx \notin inbox[p][s]
  <2>1. tx \in Txs /\ Emit(tx) /\ s \in Subscribed(p)
    BY <1>2, EventArrives
  <2> QED
    BY <2>1 DEF Emit, ClientTypeOK
<1> QED
  BY <1>1, <1>2

\* A task that is under way goes back to an emitted transaction.
LEMMA TaskNext ==
  ASSUME ClientTypeOK, HeardInv, ClientAssumption, [ExecNext]_execVars,
         NEW t \in Tasks, tpc'[t] # "none"
  PROVE  Told(t)'
<1>1. ASSUME Told(t) PROVE Told(t)'
  BY <1>1, ToldGrows DEF Told
<1>2. CASE tpc[t] # "none"
  BY <1>1, <1>2 DEF HeardInv
<1>3. CASE tpc[t] = "none"
  <2>1. PICK s \in Sockets : \E tx \in inbox[t[1]][s] :
          tx.ours /\ t = <<t[1], FirstStage(tx)>>
    BY <1>3, TaskStarts
  <2>2. PICK tx \in inbox[t[1]][s] : tx.ours /\ t = <<t[1], FirstStage(tx)>>
    BY <2>1
  <2>3. t[1] \in Processes /\ FirstStage(tx) = t[2]
    BY <2>2 DEF Tasks
  <2>4. tx \in emitted /\ t[1] \in heard[tx]
    BY <2>2, <2>3 DEF HeardInv
  <2> QED
    BY <1>1, <2>2, <2>3, <2>4 DEF Told
<1> QED
  BY <1>2, <1>3

\* A handler works on the report of its task.
LEMMA BodyNext ==
  ASSUME ExecTypeOK, HeardInv, ClientAssumption, [ExecNext]_execVars,
         NEW t \in Tasks, hpc'[t] # "idle"
  PROVE  Told(t)' /\ body'[t].requestId = t[2] /\ body'[t].executor = Owner[t[1]]
<1> USE DEF ExecTypeOK, HandlerTypeOK, ClientAssumption
<1>1. ASSUME hpc[t] # "idle", body'[t] = body[t]
      PROVE  Told(t)' /\ body'[t].requestId = t[2] /\ body'[t].executor = Owner[t[1]]
  BY <1>1, ToldGrows DEF HeardInv, Told
<1>2. ASSUME NEW u \in Tasks, Post(u)
      PROVE  Told(t)' /\ body'[t].requestId = t[2] /\ body'[t].executor = Owner[t[1]]
  <2>1. CASE u = t
    <3>1. tpc'[t] # "none"
      BY <1>2, <2>1 DEF Post, TaskAt, ClientTypeOK
    <3>2. Told(t)'
      BY <3>1, TaskNext
    <3> QED
      BY <1>2, <2>1, <3>2 DEF Post
  <2>2. CASE u # t
    BY <1>1, <1>2, <2>2 DEF Post, ReceiveReport
  <2> QED
    BY <2>1, <2>2
<1>3. ASSUME NEW h \in Handlers, Served(h) \/ HandlerFails(h)
      PROVE  hpc[t] # "idle" /\ body'[t] = body[t]
  BY <1>3 DEF Served, CheckSender, FindReport, CountReports, InsertRequest,
     InsertReport, RefuseDuplicate, HandlerFails, GoTo, Respond
<1>4. CASE UNCHANGED handlerVars
  BY <1>1, <1>4 DEF handlerVars
<1>5. CASE \E p \in Processes : ProcessStep(p)
  <2>1. PICK p \in Processes : ProcessStep(p)
    BY <1>5
  <2>2. CASE \E r \in Requests : TaskStep(<<p, r>>)
    <3>1. PICK r \in Requests : TaskStep(<<p, r>>)
      BY <2>2
    <3>2. <<p, r>> \in Tasks
      BY DEF Tasks
    <3> QED
      BY <1>2, <1>4, <3>1, <3>2 DEF TaskStep, GetClient, CheckSubmit, GetRequest,
         ExecuteService, Answered
  <2> QED
    BY <1>4, <2>1, <2>2 DEF ProcessStep, StartProcess, Reconnect, Open,
       SocketCloses, Message
<1>6. CASE ClientFault
  BY <1>4, <1>6 DEF ClientFault, ProcessCrash, SocketFails, GoDeaf, CheckMisread,
     TaskRejects
<1>7. ~ServerRestarts
  BY DEF ServerRestarts, HandlersGone
<1> QED
  BY <1>1, <1>3, <1>4, <1>5, <1>6, <1>7
  DEF ExecNext, ClientNext, Emit, ServerStep, execVars

LEMMA HeardNext ==
  ASSUME HandlerAssumption, ClientAssumption, ExecTypeOK, HeardInv,
         [ExecNext]_execVars
  PROVE  HeardInv'
<1>1. OnlyHeardReports'
  <2> SUFFICES ASSUME NEW x \in executorCollection'
               PROVE  \E tx \in emitted' :
                        /\ tx.ours
                        /\ FirstStage(tx) = x.requestId
                        /\ \E p \in heard'[tx] : Owner[p] = x.executor
    BY DEF OnlyHeardReports
  <2>1. CASE x \in executorCollection
    <3>1. PICK tx \in emitted :
            /\ tx.ours
            /\ FirstStage(tx) = x.requestId
            /\ \E p \in heard[tx] : Owner[p] = x.executor
      BY <2>1 DEF HeardInv, OnlyHeardReports
    <3> QED
      BY <3>1, ToldGrows DEF ExecTypeOK
  <2>2. CASE x \notin executorCollection
    <3>1. PICK h \in Handlers : hpc[h] = "insertReport" /\ x = body[h]
      BY <2>2, CollectionGrows
    <3>2. h \in Tasks
      BY DEF ClientAssumption
    <3>3. Told(h) /\ x.requestId = h[2] /\ x.executor = Owner[h[1]]
      BY <3>1, <3>2 DEF HeardInv
    <3>4. PICK tx \in emitted : tx.ours /\ FirstStage(tx) = h[2] /\ h[1] \in heard[tx]
      BY <3>3 DEF Told
    <3> QED
      BY <3>3, <3>4, ToldGrows DEF ExecTypeOK
  <2> QED
    BY <2>1, <2>2
<1> QED
  BY <1>1, InboxNext, TaskNext, BodyNext DEF HeardInv, ExecTypeOK

LEMMA HeardInit ==
  ASSUME ExecInit
  PROVE  HeardInv
<1>1. \A p \in Processes, s \in Sockets : inbox[p][s] = {}
  BY DEF ExecInit, ClientInit
<1>2. \A t \in Tasks : tpc[t] = "none" /\ hpc[t] = "idle"
  BY ClientAssumption DEF ExecInit, ClientInit, HandlerInit, ClientAssumption
<1>3. executorCollection = {}
  BY DEF ExecInit, StoreInit
<1> QED
  BY <1>1, <1>2, <1>3 DEF HeardInv, OnlyHeardReports

\* The backend holds no report of an executor that was not told of the
\* request: neither the filter nor parseInt mixes requests up.
THEOREM HeardOnly == ExecSpec => []OnlyHeardReports
<1>1. ExecInit => HeardInv
  BY HeardInit
<1>2. ExecTypeOK /\ HeardInv /\ [ExecNext]_execVars => HeardInv'
  BY HeardNext, HandlerAssumption, ClientAssumption
<1>3. HeardInv => OnlyHeardReports
  BY DEF HeardInv
<1> QED
  BY <1>1, <1>2, <1>3, ExecTypeCorrect, PTL DEF ExecSpec

-----------------------------------------------------------------------------
(* No event meets a task *)

\* Only a subscribed socket has events under way.
InboxOpen ==
  \A p \in Processes, s \in Sockets : inbox[p][s] # {} => socket[p][s] = "subscribed"

LEMMA InboxOpenNext ==
  ASSUME ClientTypeOK, InboxOpen, [ExecNext]_execVars
  PROVE  InboxOpen'
<1> SUFFICES ASSUME NEW p \in Processes, NEW s \in Sockets, NEW tx \in inbox'[p][s]
             PROVE  socket'[p][s] = "subscribed"
  BY DEF InboxOpen
<1> USE DEF ClientTypeOK
<1>1. CASE tx \notin inbox[p][s]
  <2>1. Emit(tx) /\ s \in Subscribed(p)
    BY <1>1, EventArrives
  <2> QED
    BY <2>1 DEF Emit, Subscribed
<1>2. CASE tx \in inbox[p][s]
  <2>1. socket[p][s] = "subscribed"
    BY <1>2 DEF InboxOpen
  <2>2. CASE socket' = socket
    BY <2>1, <2>2
  <2>3. ASSUME NEW P, NEW C, Die(P, C) PROVE socket'[p][s] = "subscribed"
    BY <2>1, <2>3 DEF Die
  <2>4. ASSUME NEW q \in Processes, NEW z \in Sockets, NEW state, SetSocket(q, z, state),
               socket[q][z] # "subscribed"
        PROVE  socket'[p][s] = "subscribed"
    BY <2>1, <2>4 DEF SetSocket
  <2>5. ASSUME NEW q \in Processes, NEW z \in Sockets, NEW state, SetSocket(q, z, state),
               inbox' = [inbox EXCEPT ![q][z] = {}]
        PROVE  socket'[p][s] = "subscribed"
    BY <2>1, <2>5 DEF SetSocket
  <2>6. ASSUME NEW q \in Processes, Connect(q) PROVE socket'[p][s] = "subscribed"
    <3>1. PICK z \in Sockets : z \notin Live(q) /\ SetSocket(q, z, "connecting")
      BY <2>6 DEF Connect
    <3>2. socket[q][z] # "subscribed"
      BY <3>1 DEF Live
    <3> QED
      BY <2>4, <3>1, <3>2
  <2>7. ASSUME NEW q \in Processes, ProcessStep(q) PROVE socket'[p][s] = "subscribed"
    <3>1. CASE StartProcess(q) \/ Reconnect(q)
      BY <2>6, <3>1 DEF StartProcess, Reconnect
    <3>2. ASSUME NEW z \in Sockets, Open(q, z) \/ SocketCloses(q, z)
          PROVE  socket'[p][s] = "subscribed"
      BY <2>4, <3>2 DEF Open, SocketCloses
    <3>3. CASE \E z \in Sockets : Message(q, z)
      BY <2>2, <3>3 DEF Message
    <3>4. CASE \E r \in Requests : TaskStep(<<q, r>>)
      BY <2>2, <3>4 DEF TaskStep, GetClient, CheckSubmit, GetRequest,
         ExecuteService, Post, Answered, TaskAt, linkVars
    <3> QED
      BY <2>7, <3>1, <3>2, <3>3, <3>4 DEF ProcessStep
  <2>8. CASE ClientFault
    <3>1. ASSUME NEW q \in Processes, NEW z \in Sockets, SocketFails(q, z) \/ GoDeaf(q, z)
          PROVE  socket'[p][s] = "subscribed"
      BY <2>5, <3>1 DEF SocketFails, GoDeaf
    <3>2. CASE \E t \in Tasks : CheckMisread(t)
      BY <2>2, <3>2 DEF CheckMisread, TaskAt, linkVars
    <3> QED
      BY <2>3, <2>8, <3>1, <3>2 DEF ClientFault, ProcessCrash, TaskRejects, Reject
  <2> QED
    BY <2>2, <2>3, <2>7, <2>8
    DEF ExecNext, ClientNext, Emit, ServerStep, ServerRestarts, CallsCut, Reject,
        clientVars, linkVars, execVars
<1> QED
  BY <1>1, <1>2

LEMMA TakenNext ==
  ASSUME ClientAssumption, ClientTypeOK, ClientTypeOK', OneConnection', HeardInv,
         InboxOpen', TakenUpOnce, [ExecNext]_execVars
  PROVE  TakenUpOnce'
<1> SUFFICES ASSUME NEW p \in Processes, NEW s \in Sockets, NEW tx \in inbox'[p][s], tx.ours
             PROVE  /\ tpc'[<<p, FirstStage(tx)>>] = "none"
                    /\ \A z \in Sockets : tx \in inbox'[p][z] => z = s
  BY DEF TakenUpOnce
<1> DEFINE t == <<p, FirstStage(tx)>>
<1>1. tx \in Txs
  BY DEF ClientTypeOK
<1>2. t \in Tasks /\ t[1] = p /\ t[2] = FirstStage(tx)
  BY <1>1, FirstStageType DEF Tasks
<1>3. ASSUME NEW z \in Sockets, tx \in inbox'[p][z] PROVE z = s
  <2>1. socket'[p][s] = "subscribed" /\ socket'[p][z] = "subscribed"
    BY <1>3 DEF InboxOpen
  <2> QED
    BY <2>1 DEF OneConnection, Live
<1>4. \A other \in Txs : other.ours /\ FirstStage(other) = FirstStage(tx) => other = tx
  BY <1>1 DEF ClientAssumption
<1>5. CASE tx \in inbox[p][s]
  <2>1. tpc[t] = "none"
    BY <1>5 DEF TakenUpOnce
  <2>2. ASSUME tpc'[t] # "none" PROVE FALSE
    <3> HIDE DEF t
    <3>1. PICK z \in Sockets : \E other \in inbox[t[1]][z] :
            /\ other.ours /\ t = <<t[1], FirstStage(other)>>
            /\ inbox' = [inbox EXCEPT ![t[1]][z] = @ \ {other}]
      BY <1>2, <2>1, <2>2, TaskStarts
    <3> USE DEF t
    <3>2. PICK other \in inbox[p][z] :
            /\ other.ours /\ t = <<p, FirstStage(other)>>
            /\ inbox' = [inbox EXCEPT ![p][z] = @ \ {other}]
      BY <3>1
    <3>3. other = tx
      BY <1>4, <3>2 DEF ClientTypeOK
    <3>4. z = s
      BY <1>5, <3>3 DEF TakenUpOnce
    <3> QED
      BY <3>2, <3>3, <3>4 DEF ClientTypeOK
  <2> QED
    BY <1>3, <2>2
<1>6. CASE tx \notin inbox[p][s]
  <2>1. Emit(tx)
    BY <1>6, EventArrives
  <2>2. ASSUME tpc[t] # "none" PROVE FALSE
    <3>1. PICK other \in emitted : other.ours /\ FirstStage(other) = FirstStage(tx)
      BY <1>2, <2>2 DEF HeardInv, Told
    <3>2. other = tx
      BY <1>4, <3>1 DEF ClientTypeOK
    <3> QED
      BY <2>1, <3>1, <3>2 DEF Emit
  <2> QED
    BY <1>3, <2>1, <2>2 DEF Emit
<1> QED
  BY <1>5, <1>6

\* A program takes a request up at most once, and no event of its sockets finds
\* the request's task begun, as the contract numbers requests.
THEOREM RequestsTakenOnce == ExecSpec => []TakenUpOnce
<1> DEFINE IInv == ExecTypeOK /\ OneConnection /\ HeardInv /\ InboxOpen /\ TakenUpOnce
<1>1. ASSUME ExecInit PROVE IInv
  <2>1. \A p \in Processes, s \in Sockets : inbox[p][s] = {}
    BY <1>1 DEF ExecInit, ClientInit
  <2>2. OneConnection
    BY <1>1 DEF ExecInit, ClientInit, OneConnection, Live
  <2> QED
    BY <1>1, <2>1, <2>2, TypeInit, HeardInit, StoreAssumption DEF InboxOpen, TakenUpOnce
<1>2. ASSUME IInv, [ExecNext]_execVars PROVE IInv'
  <2>1. ExecTypeOK' /\ OneConnection' /\ HeardInv'
    BY <1>2, TypeNext, LinkNext, HeardNext, StoreAssumption, HandlerAssumption,
       ClientAssumption DEF ExecTypeOK
  <2>2. InboxOpen'
    BY <1>2, InboxOpenNext DEF ExecTypeOK
  <2>3. TakenUpOnce'
    BY <1>2, <2>1, <2>2, TakenNext, ClientAssumption DEF ExecTypeOK
  <2> QED
    BY <2>1, <2>2, <2>3
<1> QED
  BY <1>1, <1>2, PTL DEF ExecSpec

-----------------------------------------------------------------------------
(* Tasks that end are settled *)

\* A task that ended without a failure, or whose post was answered, is
\* settled, as long as nothing has failed.
SettledInv ==
  faults = 0 =>
    \A t \in Tasks :
      tpc[t] \in {"done", "skipped"} \/ (tpc[t] = "await" /\ hpc[t] = "idle")
        => Settled(t)

\* What is settled stays settled.
LEMMA SettledStays ==
  ASSUME HandlerAssumption, ClientAssumption, StoreAssumption,
         ExecTypeOK, [ExecNext]_execVars, NEW t \in Tasks, Settled(t)
  PROVE  Settled(t)'
<1>1. executorCollection \subseteq executorCollection'
  BY CollectionGrows
<1>2. ExecTypeOK'
  BY TypeNext
<1>3. CASE Stored(t) # {}
  <2>1. Stored(t) \subseteq Stored(t)'
    BY <1>1 DEF Stored, findReport, ReportsOf
  <2> QED
    BY <1>3, <2>1 DEF Settled
<1>4. CASE countExecutorReports(t[2]) >= Threshold[t[2]]
  <2>1. ReportsOf(t[2]) \subseteq ReportsOf(t[2])'
    BY <1>1 DEF ReportsOf
  <2>2. IsFiniteSet(ReportsOf(t[2])) /\ countExecutorReports(t[2]) \in Nat
    BY CountType DEF ExecTypeOK
  <2>3. IsFiniteSet(ReportsOf(t[2])') /\ countExecutorReports(t[2])' \in Nat
    <3>1. ReportsOf(t[2])' \subseteq executorCollection'
      BY DEF ReportsOf
    <3>2. IsFiniteSet(ReportsOf(t[2])')
      BY <1>2, <3>1, FS_Subset DEF ExecTypeOK, StoreTypeOK
    <3> QED
      BY <3>2, FS_CardinalityType DEF countExecutorReports
  <2>4. countExecutorReports(t[2]) <= countExecutorReports(t[2])'
    BY <2>1, <2>3, FS_Subset DEF countExecutorReports
  <2>5. Threshold[t[2]] \in Nat
    BY DEF StoreAssumption, Tasks
  <2>6. countExecutorReports(t[2])' >= Threshold[t[2]]
    BY <1>4, <2>2, <2>3, <2>4, <2>5
  <2> QED
    BY <2>6 DEF Settled
<1> QED
  BY <1>3, <1>4 DEF Settled

\* A handler that ends without failing leaves its task settled.
LEMMA ServedSettles ==
  ASSUME StoreAssumption, HandlerAssumption, ClientAssumption, ExecTypeOK,
         HeardInv, NEW t \in Tasks, Served(t), hpc'[t] = "idle"
  PROVE  Settled(t) \/ Stored(t)' # {}
<1> USE DEF ExecTypeOK, HandlerTypeOK
<1>1. t \in Handlers
  BY DEF ClientAssumption
<1>2. hpc[t] # "idle"
  BY DEF Served, CheckSender, FindReport, CountReports, InsertRequest,
     InsertReport, RefuseDuplicate
<1>3. body[t].requestId = t[2] /\ body[t].executor = Owner[t[1]] /\ body[t] \in Reports
  BY <1>1, <1>2 DEF HeardInv
<1>4. ~(CheckSender(t) /\ hpc'[t] = "findReport") /\ ~InsertRequest(t)
  BY <1>1 DEF InsertRequest, GoTo
<1>5. CASE FindReport(t) \/ RefuseDuplicate(t)
  <2>1. findReport(body[t].requestId, body[t].executor) # {}
    BY <1>1, <1>5 DEF FindReport, RefuseDuplicate, GoTo
  <2> QED
    BY <1>3, <2>1 DEF Settled, Stored
<1>6. CASE CountReports(t)
  <2>1. ~BelowThreshold(body[t].requestId)
    BY <1>1, <1>6 DEF CountReports, GoTo
  <2>2. countExecutorReports(t[2]) \in Nat /\ Threshold[t[2]] \in Nat
    BY CountType DEF StoreAssumption, Tasks
  <2> QED
    BY <1>3, <2>1, <2>2 DEF BelowThreshold, Settled
<1>7. CASE InsertReport(t)
  <2>1. body[t] \in executorCollection'
    BY <1>7 DEF InsertReport, insertExecutorReport
  <2>2. body[t] \in Stored(t)'
    BY <1>3, <2>1 DEF Stored, findReport, ReportsOf
  <2> QED
    BY <2>2
<1> QED
  BY <1>4, <1>5, <1>6, <1>7 DEF Served

LEMMA SettledNext ==
  ASSUME StoreAssumption, HandlerAssumption, ClientAssumption, ExecTypeOK,
         HeardInv, SettledInv, [ExecNext]_execVars
  PROVE  SettledInv'
<1> SUFFICES ASSUME faults' = 0, NEW t \in Tasks,
                    \/ tpc'[t] \in {"done", "skipped"}
                    \/ tpc'[t] = "await" /\ hpc'[t] = "idle"
             PROVE  Settled(t)'
  BY DEF SettledInv
<1>1. ~Fault
  BY DEF Fault, ExecTypeOK, StoreTypeOK
<1>2. faults = 0
  <2>1. CASE HandlerNext
    BY <1>1, <2>1 DEF HandlerNext, ReceiveReport, CheckSender, FindReport,
       CountReports, InsertRequest, InsertReport, RefuseDuplicate, HandlerFails,
       BenchmarkPost, storeVars
  <2>2. CASE FaultOnly
    BY <1>1, <2>2 DEF FaultOnly
  <2>3. CASE UNCHANGED <<storeVars, handlerVars>>
    BY <2>3 DEF storeVars
  <2> QED
    BY <1>1, <2>1, <2>2, <2>3, ServerPart DEF ExecNext, ServerRestarts, execVars
<1> DEFINE Ready == \/ tpc[t] \in {"done", "skipped"}
                    \/ tpc[t] = "await" /\ hpc[t] = "idle"
<1>3. ASSUME Ready PROVE Settled(t)'
  <2>1. Settled(t)
    BY <1>2, <1>3 DEF SettledInv
  <2> QED
    BY <2>1, SettledStays
<1>4. CASE tpc'[t] = tpc[t] /\ hpc'[t] = hpc[t]
  BY <1>3, <1>4
<1>5. ASSUME NEW p \in Processes, ProcessStep(p) PROVE Settled(t)'
  <2>1. CASE \E s \in Sockets : Message(p, s)
    BY <1>4, <2>1 DEF Message, ExecTypeOK, ClientTypeOK, handlerVars
  <2>2. ASSUME NEW u \in Tasks, TaskStep(u) PROVE Settled(t)'
    <3>1. CASE u # t
      BY <1>4, <2>2, <3>1 DEF TaskStep, GetClient, CheckSubmit, GetRequest,
         ExecuteService, Post, ReceiveReport, Answered, TaskAt, handlerVars,
         ExecTypeOK, ClientTypeOK, HandlerTypeOK
    <3>2. CASE u = t /\ CheckSubmit(t)
      <4>1. tpc'[t] = "skipped" /\ Stored(t) # {}
        BY <3>2 DEF CheckSubmit, NextAfterCheck, TaskAt, ExecTypeOK, ClientTypeOK
      <4> QED
        BY <4>1, SettledStays DEF Settled
    <3>3. CASE u = t /\ Answered(t)
      BY <1>3, <3>3 DEF Answered
    <3>4. CASE u = t /\ Post(t)
      <4>1. tpc'[t] = "await" /\ hpc'[t] = "checkSender"
        BY <3>4 DEF Post, TaskAt, ReceiveReport, ExecTypeOK, ClientTypeOK,
           HandlerTypeOK, ClientAssumption
      <4> QED
        BY <4>1
    <3>5. CASE u = t /\ (GetClient(t) \/ GetRequest(t) \/ ExecuteService(t))
      <4>1. tpc'[t] \in {"check", "execute", "recheck"}
        BY <3>5 DEF GetClient, GetRequest, ExecuteService, TaskAt, ExecTypeOK,
           ClientTypeOK
      <4> QED
        BY <4>1
    <3> QED
      BY <2>2, <3>1, <3>2, <3>3, <3>4, <3>5 DEF TaskStep
  <2>3. CASE \E r \in Requests : TaskStep(<<p, r>>)
    BY <2>2, <2>3 DEF Tasks
  <2> QED
    BY <1>4, <1>5, <2>1, <2>3 DEF ProcessStep, StartProcess, Reconnect, Open,
       SocketCloses, handlerVars
<1>6. ASSUME NEW h \in Handlers, Served(h), UNCHANGED clientVars PROVE Settled(t)'
  <2>1. CASE h # t
    BY <1>4, <1>6, <2>1 DEF Served, CheckSender, FindReport, CountReports,
       InsertRequest, InsertReport, RefuseDuplicate, GoTo, Respond, clientVars,
       ExecTypeOK, HandlerTypeOK
  <2>2. CASE h = t /\ tpc[t] \in {"done", "skipped"}
    BY <1>3, <2>2
  <2>3. CASE h = t /\ hpc'[t] = "idle"
    <3>1. Settled(t) \/ Stored(t)' # {}
      BY <1>6, <2>3, ServedSettles
    <3> QED
      BY <3>1, SettledStays DEF Settled
  <2> QED
    BY <1>6, <2>1, <2>2, <2>3 DEF clientVars
<1>7. ~ClientFault /\ ~ServerRestarts
  BY <1>1 DEF ClientFault, ProcessCrash, SocketFails, GoDeaf, CheckMisread,
     TaskRejects, ServerRestarts
<1>8. ASSUME NEW h \in Handlers PROVE ~HandlerFails(h)
  BY <1>1 DEF HandlerFails
<1>9. CASE UNCHANGED <<tpc, handlerVars>>
  BY <1>4, <1>9 DEF handlerVars
<1> QED
  BY <1>5, <1>6, <1>7, <1>8, <1>9
  DEF ExecNext, ClientNext, Emit, ServerStep, execVars, clientVars

\* Two programs with one mnemonic, duplicate events and interleaved checks
\* never make a task end unsettled.
THEOREM EndsSettled == ExecSpec => []DoneMeansSettled
<1> DEFINE IInv == ExecTypeOK /\ HeardInv /\ SettledInv
<1>1. ASSUME ExecInit PROVE IInv
  <2>1. ExecTypeOK
    BY <1>1, TypeInit, StoreAssumption
  <2>2. HeardInv
    BY <1>1, HeardInit
  <2>3. \A t \in Tasks : tpc[t] = "none"
    BY <1>1 DEF ExecInit, ClientInit
  <2> QED
    BY <2>1, <2>2, <2>3 DEF SettledInv
<1>2. IInv /\ [ExecNext]_execVars => IInv'
  BY TypeNext, HeardNext, SettledNext, StoreAssumption, HandlerAssumption,
     ClientAssumption
<1>3. IInv => DoneMeansSettled
  BY DEF SettledInv, DoneMeansSettled
<1> QED
  BY <1>1, <1>2, <1>3, PTL DEF ExecSpec
=============================================================================
