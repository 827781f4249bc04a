--------------------------- MODULE MongoConnection ---------------------------
(***************************************************************************)
(* The backend's one MongoClient: bootstrap listens before it connects, so *)
(* the first calls of the API race it to MongoDb.connect; the client is    *)
(* assigned before its connect() is awaited; a signal closes it and ends   *)
(* the process.  What the driver does with a call on a client that is not  *)
(* connected is external.                                                  *)
(***************************************************************************)
EXTENDS Naturals, FiniteSets

CONSTANTS
  Callers,   \* concurrent calls of repositories
  Loop,      \* the caller that is the interval service of this process
  Databases, \* database names: contract addresses
  Signals    \* SIGINT and SIGTERM, as often as they come

ASSUME ConnectionAssumption == Loop \in Callers

VARIABLES
  boot,      \* the await bootstrap is at
  client,    \* MongoDb.client
  opened,    \* MongoClient objects made
  cached,    \* names in MongoDb.db
  cpc,       \* the await a caller is at
  target,    \* the database it asks for
  closing,   \* signals whose cleanup awaits close()
  exited     \* whether the process has ended

connectionVars == <<boot, client, opened, cached, cpc, target, closing, exited>>

ConnectionInit ==
  /\ boot = "listen"
  /\ client = "null"
  /\ opened = 0
  /\ cached = {}
  /\ cpc = [c \in Callers |-> "idle"]
  /\ target \in [Callers -> Databases]
  /\ closing = {}
  /\ exited = FALSE

\* Whoever goes on to client.db(name) finds a client.
ConnectionTypeOK ==
  /\ boot \in {"listen", "connect", "opening", "ready"}
  /\ client \in {"null", "connecting", "connected", "failed", "closed"}
  /\ opened \in Nat
  /\ cached \in SUBSET Databases
  /\ cpc \in [Callers -> {"idle", "opening", "bind", "use"}]
  /\ target \in [Callers -> Databases]
  /\ closing \in SUBSET Signals
  /\ exited \in BOOLEAN
  /\ client = "null" /\ ~exited => \A c \in Callers : cpc[c] \notin {"bind", "use"}

-----------------------------------------------------------------------------
\* Mutant: the client is assigned once it is connected.
OpensAfterAwait == UNCHANGED client

\* MongoDb.client = new MongoClient(...), then await connect()
Opens == client' = "connecting"

\* Mutant: whoever finds a client waits until it has connected.
AwaitsOpening(next) == "opening"

\* A client that is there is taken as it is.
TakesClient(next) == next

\* connect(): where the caller goes on after it.
ConnectThen(next, pc) ==
  IF client = "null"
  THEN Opens /\ opened' = opened + 1 /\ pc = "opening"
  ELSE UNCHANGED <<client, opened>> /\ pc = TakesClient(next)

Listen ==
  /\ boot = "listen"
  /\ boot' = "connect"
  /\ UNCHANGED <<client, opened, cached, cpc, target, closing, exited>>

BootConnects ==
  /\ boot = "connect"
  /\ ConnectThen("ready", boot')
  /\ UNCHANGED <<cached, cpc, target, closing, exited>>

\* BaseRepository.db -> instance(db): the cached handle or connect().
Instance(c) ==
  /\ cpc[c] = "idle"
  /\ IF c = Loop THEN boot = "ready" ELSE boot # "listen"
  /\ \E db \in Databases :
       /\ target' = [target EXCEPT ![c] = db]
       /\ IF db \in cached
          THEN cpc' = [cpc EXCEPT ![c] = "use"] /\ UNCHANGED <<client, opened>>
          ELSE \E pc \in {"opening", "bind"} :
                 ConnectThen("bind", pc) /\ cpc' = [cpc EXCEPT ![c] = pc]
  /\ UNCHANGED <<boot, cached, closing, exited>>

\* External: connect() of the client ends, and whoever awaits it goes on.  A
\* caller it throws at answers 500 (the interval loop logs and sleeps);
\* bootstrap has no catch, so the process ends.
ConnectEnds ==
  /\ \/ boot = "opening"
     \/ \E c \in Callers : cpc[c] = "opening"
  /\ client \notin {"connected", "failed"}
  /\ \E ok \in BOOLEAN :
       /\ client' = IF client = "closed" THEN "closed"
                    ELSE IF ok THEN "connected" ELSE "failed"
       /\ boot' = IF boot = "opening" /\ ok THEN "ready" ELSE boot
       /\ cpc' = [c \in Callers |-> IF cpc[c] # "opening" THEN cpc[c]
                                   ELSE IF ok THEN "bind" ELSE "idle"]
       /\ exited' = (boot = "opening" /\ ~ok)
  /\ UNCHANGED <<opened, cached, target, closing>>

Bind(c) ==
  /\ cpc[c] = "bind"
  /\ cached' = cached \cup {target[c]}
  /\ cpc' = [cpc EXCEPT ![c] = "use"]
  /\ UNCHANGED <<boot, client, opened, target, closing, exited>>

\* External: the operation waits for a client that is still connecting, and
\* is answered or throws with any other.
Use(c) ==
  /\ cpc[c] = "use"
  /\ client # "connecting"
  /\ cpc' = [cpc EXCEPT ![c] = "idle"]
  /\ UNCHANGED <<boot, client, opened, cached, target, closing, exited>>

\* cleanup: await MongoDb.close().
Signal(s) ==
  /\ s \notin closing
  /\ closing' = closing \cup {s}
  /\ client' = IF client = "null" THEN "null" ELSE "closed"
  /\ UNCHANGED <<boot, opened, cached, cpc, target, exited>>

\* Mutant: close() without process.exit().
ClosedOnly == UNCHANGED exited

\* process.exit()
ThenExit == exited' = TRUE

\* close() returns: its last lines and process.exit() follow in one turn.
CloseEnds ==
  /\ closing # {}
  /\ client' = "null"
  /\ cached' = {}
  /\ closing' = {}
  /\ ThenExit
  /\ UNCHANGED <<boot, opened, cpc, target>>

CallerStep(c) == Bind(c) \/ Use(c)

ConnectionNext ==
  /\ ~exited
  /\ \/ Listen
     \/ BootConnects
     \/ ConnectEnds
     \/ CloseEnds
     \/ \E c \in Callers : Instance(c) \/ CallerStep(c)
     \/ \E s \in Signals : Signal(s)

\* Awaited calls return: the driver gives up after its selection timeout.
ConnectionSpec ==
  /\ ConnectionInit
  /\ [][ConnectionNext]_connectionVars
  /\ WF_connectionVars(~exited /\ ConnectEnds)
  /\ WF_connectionVars(~exited /\ CloseEnds)
  /\ \A c \in Callers : WF_connectionVars(~exited /\ CallerStep(c))

-----------------------------------------------------------------------------
(* Properties *)

\* However the first calls of the API, bootstrap and the interval loop race,
\* the process makes one client: cleanup closes no other.
OneClient == opened <= 1

\* Every call of a repository ends, also when it found a client that failed
\* to connect or was closed under it, unless the process ends.
CallersAnswered ==
  \A c \in Callers : cpc[c] # "idle" ~> cpc[c] = "idle" \/ exited
=============================================================================
