# A formal model of the AI oracle

This directory specifies the program in `src/` in TLA+, model-checks it with TLC and proves
its invariants with TLAPS. The source is the reference: every definition that models code names the
lines it translates in `PROJECT.json` (`map`), and the README says how the pieces fit.

## 1. Inventory

The oracle answers requests made to a CosmWasm contract. Executors watch the chain for requests,
run a service script and post a signed report to the backend. The backend collects the reports of
a request until its threshold is reached, forms a merkle root and keeps the leaves, so that a user
of the oracle can later ask for a proof of a report and use it on-chain.

| Component | State | Operations | Interacts with |
|---|---|---|---|
| Repositories (`backend/src/repositories/mongo`) | collections `executors`, `requests`, `merkle_roots` | one MongoDB call per method | everything in the backend |
| `ReportController.submitReport` | the locals of each running handler | verify, find, count, insert | repositories, contract |
| `TestnetController.submitReport` | – | un-awaited inserts under a random id | `requests` of the production database |
| `IntervalService` | locals of a round, gas price | `runInterval`, `submitReportInterval`, `processSubmittedRequest`, `processUnsubmittedRequests` | repositories, contract, websocket clients |
| Processes (`main.ts`, `interval.command.ts`) | which of them run | start, signal, restart | MongoDB connection |
| MongoDB connection (`mongodb.ts`) | static client and database handles | `connect`, `instance`, `close` | repositories, `main.ts` |
| Read endpoints (`ProofController`, `ExecutorController`, GETs of `ReportController`) | the locals of a call | pages of lists, proof of a report | repositories, contract, merkle tree |
| Merkle tree (`merkleTree.ts`) | – | `formTree`, `getHexRoot`, `getHexProof` | interval service, proofs |
| Contract (wasm, external) | `merkle_root` per stage, executors, threshold | `request`, `register_merkle_root`, `verify_data`, queries | all programs |
| Executor client (`ws.ts`, `process-request.ts`, `common.ts`) | one websocket, a timer, running requests | subscribe, message, check, execute, post, reconnect | chain, backend |
| Script runner (`script-execute.ts`) | the result arrays of a request | test cases, sources, oscript | executor client |
| Prompt and keys (`index.ts`, `prompt.ts`, `crypto.ts`) | the typed pin | read a pin, decrypt, start | executor client |
| Dapps (`dapp-sample`, `dapp-simulate`) | the last answer, the number of failed polls | request, poll | contract, backend |
| Websocket servers (`wss.ts`, `ws-server.ts`) | clients | broadcast | interval service, executor client |
| Validation, logging, Sentry, generated SDK and docs | – | – | – |

What is hard in it:

* *Concurrency in one process.* Node interleaves handlers, callbacks, tasks and the interval loop at
  every `await`. `submitReport` finds, counts and inserts in separate calls; the interval loop counts,
  queries and deletes in separate calls; `/proof` reads a root and its leaves in two calls; a page of
  the finished list takes two; `MongoDb.client` is set before its `connect()` is awaited; an executor
  runs any number of `processRequest` un-awaited.
* *Concurrency between processes.* `main.ts` runs the interval loop because `RUN_INTERVAL` defaults
  to `'1'`, and the deployment files and the backend's README also start `commander interval` on the
  same database. No lock or lease keeps them apart. Several executors may run on one mnemonic.
* *Failures.* Calls to MongoDB, to the RPC node and to the backend fail, processes crash and are
  restarted (`restart: on-failure`), a transaction can be committed and its answer lost, a websocket
  drops and the events meanwhile are lost, scripts fail.
* *Ordering.* Leaves must be stored before the status says so; roots are broadcast before the
  transaction is sent; the API listens before the database is connected.
* *Limits.* A report query returns at most `MAX_LIMIT` = 20 documents, a round sees the 10 newest
  unsubmitted requests, a page has 5 entries unless more are asked for.

Correctness, per component: one report per executor and request (repositories); no more reports than
the threshold plus the handlers that raced (handlers); leaves before status, no request forgotten,
enough reports kept when surplus ones are trimmed, every request with enough reports submitted in the
end, no request closed without the root it is closed with (interval service); a proof the contract
accepts for each report a registered root covers and for no other (proofs); nothing listed left out of
a walk through the pages (lists); one connection, made again after whatever a callback reports, no
request taken up twice, a task that ends leaves its request settled (executor); results attributed to
their source (scripts); one client, every call answered (connection); enough reports of different
executors (dapps); a request that enough executors heard is answered unless the server goes down with
their reports, and roots cover only what executors were asked for (the whole).

## 2. How the modules are put together

```
OracleStore ─┬─ ReportController ─┬─ IntervalService ─ Backend ─┬─ BackendReads (+ ListController, ProofController)
             │                    └─ ExecutorClient ────────────┴─ OracleSystem (+ DappClient)
             ├─ Paging ─┬─ ListController
             │          └─ DappClient
             └─ ProofController (+ MerkleTree)
RequestLedger  <- Backend (refinement)
ScriptExecute, MongoConnection, ExecutorStart: machines that share no state with the rest
```

`MCBackend`, `MCExecutor`, `MCSystem`, `MCReads`, `MCDapp` and `MCParts` give the constants values for
TLC, and eight `*_proofs` modules hold the theorems; they depend on each other as the modules do, so
`OracleSystem_proofs` composes those of the backend, the executors and the dapp. Definitions marked
*Mutant* are variants of the definition that follows them, each a plausible bug that one of the
properties detects; the model does not use them.

## 3. The modules

**`OracleStore`.** `executorCollection` is a set of reports (records of request, executor and data),
`requestCollection` gives each request the state of its document, `merkleCollection` is the sequence
of inserted roots, `chainRoot` the contract's `merkle_root`. A repository method that reads is an
operator returning a value, or the set of values an unsorted query may return; one that writes is an
action on its collection. One MongoDB call is one atomic step. With collision-free hashing and
`sort: true` a merkle root determines the set of its leaves, and a leaf its report, so a root *is* that
set; the empty set is the empty string, which both the contract and a tree without leaves use and
which is falsy. Theorem `RootsDiffer` about `MerkleTree` justifies the identification.
`bulkWrite` is not a transaction and is one step per request.
`faults` counts failures; `MaxFaults` bounds them.

**`ReportController`.** One action per awaited call of `submitReport`; `hpc[h]` is the await a handler
is at and `body[h]` what it was posted. The first call (`getRequest`) reads a threshold that never
changes and is folded into the arrival. The white list may change on-chain and a signature may be bad:
`CheckSender` takes either answer. `BenchmarkPost` is the write of the benchmark endpoint.

**`IntervalService`.** A worker is a process running the loop; `wpc[w]` is its await, and `todo`, `cur`,
`batch`, `surplus`, `outbox` are `queryResult`, `requestId`, the last reports, `numRedundant` and
`requestsData`/`msgs`. Dead locals are reset when an iteration or a round ends. `CompareRoot` is the
`data.merkle_root || newRoot` decision. `FindRequest` includes the `TypeError` the code runs into when
the document is already submitted: `findRequest` answers null and `submitted` is taken from it.
`ExecuteThrows` includes the transaction that is committed although the call throws. The contract is
external: whether it accepts a message is left open, except that it takes all or none of a transaction
and none for a request that has its root. After a failed insert of `Promise.all` the remaining inserts
still land (`storeRest`).
`RoundFails` raises the gas price where the code does, for an error with a `status` of 400. Of the calls
it is wrapped around only the contract query can be answered so, and whether the error of the RPC client
then has that field is a matter of the library (the locked cosmjs 0.29.5 is not known to set it). Instances
with `GasCap` 0 are a client whose errors do not, those with 1 one whose errors do.

**`Backend`.** `Embedded` workers die with the server's handlers (`ServerCrash`, `HandlersGone`), others on
their own (`IntervalCrash`). `OwnerRegisters` is the only way a non-empty root gets on-chain, see section 6;
`ExternalOwner` switches it.

**`RequestLedger`.** What one worker promises without awaits: reports accepted up to an overshoot, one
per executor; shedding only above the threshold and before the seal; roots that cover
`min(threshold, MAX_LIMIT)` accepted reports; a seal only with a root whose reports are all still there;
nothing removed afterwards. `Backend!LedgerSpec` instantiates it; `accepted`, `certified` and `sealed` of `Backend` are the
refinement mapping: the stored reports, the stored roots and the submitted requests.

**`MerkleTree`.** `merkleTree.ts` over the layers and proofs of the `merkletreejs` package: sorted leaves,
pairs hashed in sorted order (so a hash of two is a set of two), a last node without a sibling moves up.
`Places` is the index of a leaf's ancestor in each layer and `Climb` the proof collected on the way up;
`Ascent` and `Verifies` are what the contract does with a proof. All of them are recursive functions
over the layers, so that theorems about them are possible.

**`ProofController`.** `getProof`: the root from the contract (`ReadRoot`, with its early answer while
there is none), the leaves under that root from the database (`AnswerProof`, with the `TypeError` of
absent leaves), proof or refusal. A proof without nodes is right only when the leaf is the root.

**`Paging`, `ListController`.** `paginatorNumber` and the sorted, skipped and limited queries; a reader
who walks through `/executor/:executor` or `/executor/finished/:executor` page by page, two database
calls each. `ListObserves` records whether one of the reader's reports was trimmed during the walk.

**`BackendReads`** runs either reader beside `Backend`: its calls fall between all the others.

**`ExecutorClient`.** `socket[p][s]` is the state of a WebSocket object of program `p`, `timers[p]` the
reconnections it has scheduled, `inbox` the events under way on a socket, `tpc[<<p, r>>]` the await of
`processRequest` of request `r`. `SocketFails` is the error callback: the `ws` library emits it on a
socket it is already closing, so the `close()` in it does nothing and only the close callback, which
follows, reconnects. `Emit` reaches the programs that are subscribed at that moment (`heard`). `Message`
drops events for another contract and takes the first stage of several (`parseInt` of an array).
`GoDeaf` has two causes that look alike from inside: the node answers the subscription with an error, which
has no `result` and which ws.ts:24 therefore drops, or the connection dies without a frame, which nobody
pings for. The socket stays open, no callback runs and no event arrives until the program is restarted.
The contract numbers its requests, so no two transactions of ours carry one request
(`ClientAssumption`); that no event therefore meets a task of its request is not assumed but is `TakenUpOnce`.
A post starts the handler of `ReportController` named after the task, and `Answered` waits for it: the
modules are composed by the actions they share, not by a queue between them. `CheckMisread` is the JSON
of an error that `handleFetchResponse` takes for an answer. `TaskRejects` is a rejection nobody awaits,
which ends a Node process unless Sentry's handler is installed: `RejectionKills` chooses (`Reject`, `Die`).
`ServerRestarts` is the API server going down: its handlers are gone, the posts they served reject and so
may any other call (`CallsCut`), and common.ts:56 posts once.

**`DappClient`.** `collectReports` of both dapps; `Initialised` is whether `reports` starts as `{}` or
undefined. `Unless` turns property access on undefined into the `TypeError`.

**`OracleSystem`** composes `Backend`, `ExecutorClient` and `DappClient`: the dapp's `request` is the
transaction the executors hear of, executors post to the handlers, the workers submit, the dapp polls.
Its next-state relation has all the steps of its parts. `ServerDown` is `ServerCrash` of the backend, the
executors' calls that it cuts and, possibly, the dapp's failing poll in one step; `WorkersNext` has the rounds
and failures of embedded and stand-alone workers, `IntervalCrash` and `OwnerRegisters`; `OthersRequest` is
a request of somebody else, to our contract or another. `interrupted` is a history variable: the
transactions whose request had too few reports when the server went down.

**`ScriptExecute`.** `handleScript`: test cases of a source, then the source, then the oscript. A run of a
script is its exit code, what it printed and at most one chunk of stderr, which is dropped whole when it
has a log line in it. `Result` makes one text of these, as `processDenoScript` does: nothing in the text
tells an answer from an error. `ran` is a history variable for the properties.

**`MongoConnection`.** `boot` is the await of `bootstrap`, `cpc[c]` that of a repository call. `ConnectThen`
is `connect()`: the client is set first and awaited then, and whoever finds it goes on. The interval
loop is a caller that starts when bootstrap is done. A failed connection stays set.

**`ExecutorStart`.** Every `.env`, the prompt chunk by chunk, decryption, connection. `typed` and `pasted`
are history variables.

## 4. The runs

| Run | Instance | Checks | Result |
|---|---|---|---|
| `single` | 1 request, threshold 2, 3 executors, 2 handlers, 1 embedded worker, 1 fault, owner | `TypeOK`, `OvershootBounded`, `NoDuplicateRoots`, `AloneControl`, refinement `LedgerSpec`, liveness `EnoughReportsSubmitted`, `RegisteredRootTaken` | holds |
| `pair` | 1 request, threshold 1, 2 executors, 2 handlers, 2 workers in two processes, 1 fault, owner | `WorkerControl`, `SubmittedHasLeaves`, `RegisteredHasRoot`, `RequestNeverForgotten` | holds |
| `window` | 2 requests and a benchmark id, window of 2, thresholds 2 and 1 with `MAX_LIMIT` 1, 1 handler, 1 fault, owner | liveness `WindowDrains`, refinement `LedgerSpec` | holds |
| `lists` | 2 requests, threshold 1, 2 executors, 2 handlers, 1 worker, pages of one entry | `WalkComplete`, `OnlyFinishedShown` | holds |
| `proofs` | `single` with a user who asks for proofs | `ProofTypeOK`, `ProofConvinces`, `FoundIffCovered` | holds |
| `shared` | 2 programs on one mnemonic with different results, a transaction with two requests and one for another contract, 2 sockets, 2 faults | `ExecTypeOK`, `OneConnection`, `DoneMeansSettled`, `TakenUpOnce`, `OnlyHeardReports`, `UniqueReport` | holds |
| `answered` | dapp, 2 executors for a threshold of 1, 1 embedded worker, 1 fault (a crash of the server among them) | `DoneMeansSettled`, liveness `ListensUnlessDeaf`, `RequestAnswered`, `PollingEnds` | holds |
| `deployed` | the same with the worker in a process of its own, an owner, a second transaction for another contract | `CertifiedWasHeard` | holds |
| `parts` | each machine that shares no state, alone: dapp (threshold 2, 3 executors, pages of 2, 1 fault), scripts (2 sources, 1 test case), connection (2 callers and the loop, 2 databases, 2 signals), start (pin of 2, 5 keys in chunks of 1 or 2) | `DappTypeOK`, `CollectedEnough`, `EnoughReportsCollected`, `ScriptTypeOK`, `ResultsAttributed`, `ConnectionTypeOK`, `OneClient`, `CallersAnswered`, `StartTypeOK`, `TypedPinRuns` | holds |
| `onchain` | 1 executor, 1 worker, no fault, no owner | `StoredRootIsOnChain` | violated |
| `trim` | `pair` without faults and owner | `TrimKeepsThreshold` | violated |
| `dapp_simulate` | the dapp of `parts` with `reports` undefined | `FailedPollRepeats` | violated |

*Why the bounds are enough.* Three executors for a threshold of two give a surplus, and a choice of
what to trim; two handlers give every race of a find, count or insert with another one. Two workers on
one request meet at every pair of awaits, and a threshold of one with two reports is the smallest
surplus that two trims can exhaust, after which a query returns nothing and the transaction path runs
(which is where `RegisteredHasRoot` of `pair` is decided).
Requests only meet in the window and in the order of the loop, which `window` covers with more requests
than the window holds. One fault puts a failure at every step of a round; the next rounds retry it.
`GasCap` bounds how often the price rises; it is compared, never computed with.
A second socket object per program gives a callback that reconnects twice the room to show it, and two
programs on one mnemonic race at every await of the check, the execution and the post. In `answered` one
fault may be any failure of any program, and two executors for a threshold of one leave enough
reports when it silences one; in `deployed` a request of the same number on another contract is what a missing filter
would let into a root. A walk over two
requests with pages of one entry has a page boundary at every entry, and requests come, finish and are
trimmed before, between and after the two calls of a page.
Trees in the runs have up to three leaves; the assumptions `TreesVerify` and `RootsIdentify` of
`MCReads`, which TLC evaluates, cover all trees of up to six: every leaf has a proof the contract accepts,
a stranger has none, and no two sets of leaves have one root. `MerkleTree_proofs` has the same for
trees of any size. Two sources show an attribution that is
off by one, five keys are a pin, a mistake, its correction and Enter.
In `parts` one machine runs in each behaviour and the others rest, so the instances do not multiply.

Deadlock is checked in the runs of `Backend`, whose workers never stop. The other systems may stop: a dapp
that has its reports, a reader at the end of a walk, an executor whose requests are answered, a process
that exited.

*Symmetry.* Only in runs without temporal properties of paths that name the permuted values: handlers and
executors of `pair`, handlers of `lists` and `proofs`, whose executors are numbers.

*Fairness.* Asked only of what a running program does by itself: an awaited call returns or throws, a
timer that is due fires, a callback that is due runs.
`FairSpec` asks it of each worker (`setTimeout` starts the next round) and of nobody else.
`SystemSpec` asks it of executor programs, which includes that a dead one is started again
(`restart: on-failure`), of handlers, workers and the dapp; of no request that is sent. A deaf socket has no
step, so no fairness wakes it.
`ConnectionSpec` asks that `connect()`, `close()` and the operations of callers end, since the driver gives
up after its selection timeout; of no signal and no new call. `StartSpec` asks it of the program, not of
the person who types. `ScriptSpec` has none, nor has a service script to end: nothing depends on it.
Faults are finitely many, as `MaxFaults` says: with an endless series of failures nothing would ever
be submitted.

## 5. What the liveness properties leave out

`EnoughReportsSubmitted` excludes a request for which someone else registered a root, since a root of
other reports makes every round skip it; `RegisteredRootTaken` says what happens when the root is one
of the stored reports. `WindowDrains` speaks of requests the window offers. `ListensUnlessDeaf` excludes
what its name says: from a subscription that failed or a connection that died silently the code does not
recover. `RequestAnswered` asks that the executors that heard of a request exceed the threshold by the
failures possible, less than which no retry of the code makes up for, and it excludes the transactions in
`interrupted`: one crash of the server loses every report under way with it, whatever their number, and
no executor posts again. A crash after the reports are stored is not excluded. It is checked with nobody
else registering roots. `EnoughReportsCollected` names the default page: a
threshold above it is never satisfied. `TypedPinRuns` speaks of keys typed one at a time.

## 6. What the model showed

Found by a run:

* **The service never registers a root.** `root = data.merkle_root || newRoot` (interval.service.ts:88)
  is non-empty whenever the query returned a report, so `processSubmittedRequest` runs, stores the root
  and sets `submitted` with no transaction. The comments at :89 and :193 describe the opposite: a branch
  for roots *already on-chain*, and roots stored *only after* the chain has them. Run `onchain` is the
  shortest behaviour; `OnlyEmptyRootsQueued`, a part of the invariant behind theorem `RootBeforeRegistered`,
  says that no instance ever queues a real root. The transaction path runs with the empty root only, when
  another worker trimmed a request to nothing between the count (:69) and the query (:78), although
  the comment at :75 has it that only requests with enough reports are submitted; `pair` contains
  these behaviours.
* **Two workers trim below the threshold** (run `trim`): both counted the same surplus, each deletes what
  its own unsorted query returned. With one worker this cannot happen (theorem `TrimSafeAlone`).
* **A failed first poll ends dapp-simulate** (run `dapp_simulate`): `reports` has no value yet, so the
  condition of the loop throws after the sleep that was to precede the next poll.

Met on the way, and visible in the modules, without a text of the repository that a run could refute:

* **Older requests can starve.** Only the ten newest unsubmitted requests are looked at and some never
  leave: benchmark documents get random ids up to 10^15 and no reports.
* **Missed requests are not replayed.** `executor/.env.example:10` documents `REPLAY` and `START_STAGE`,
  which no code reads: what is emitted while an executor reconnects is lost to it.
* **An invalid source takes part in the aggregation.** The rule of the comment at script-execute.ts:61 is
  not implemented; the results of the test cases are only reported.
* **Results do not say whether they are errors.** The text of an error is aggregated like an answer; and a
  chunk of stderr with a log line in it is dropped with the error in it, so that with exit code 0 the
  result is what the script printed.
* **An executor can be deaf.** An error answer to its subscription or a connection that died without a frame
  leaves it running and listening to nothing.
* **A crash of the server loses the reports it was receiving.** Executors post once (common.ts:56); if all
  the posts of a request are under way, it is never answered.
* **The error of a failed transaction is swallowed** (interval.service.ts:210) and the round counts as a success:
  a fee raised before is reset, if the RPC client's errors let it rise at all (section 3).
* **A walk through pages skips an entry** when a report of the executor is trimmed during it.
* **The prompt hangs** after Ctrl-C, and takes a pasted Enter for a part of the pin.
* **A client that failed to connect stays set**, so the process never tries again.

## 7. Theorems

Every invariant that a passing run checks is a theorem, as are the refinement `LedgerSpec` and the action
property `RequestNeverForgotten`. They hold for every value of the constants that satisfies the named
assumptions of the modules: finite sets of numbered requests and of handlers, positive thresholds,
limits and page sizes, distinct sentinels, a task per program and request, a typed `Owner` and typed
transactions of which no two of ours carry the same request, and an injective `Hash` of the reports
(collision-free hashing).

`Backend_proofs`, for any number of interval workers:

* `TypeCorrect`, `ControlCorrect` – `[]TypeOK` and `[]WorkerControl`;
* `NeverForgotten` – `RequestNeverForgotten`;
* `LeavesBeforeSubmitted` – `[]SubmittedHasLeaves`, about the requests that `processSubmittedRequest` closes;
* `RootBeforeRegistered` – `[]RegisteredHasRoot`, about those that a transaction closes;
* `OneReportEach` – `[]UniqueReport`;
* `Overshoot` – `[]OvershootBounded`.

The inductive invariant is `Inv == TypeOK /\ WorkerControl`. `TypeOK` alone is not inductive: what a
worker writes depends on `cur` and `batch`, so its types need to know that an iteration has a request.
`WorkerControl` says what a worker may rely on at each await: its request, that its batch holds reports of
that request, that the root is stored once it looks for the request document, and that a request it
is about to remove is submitted. The last two survive other processes because stored roots and the rank
of a request only grow (`Grows`), and `Grows` for the delete of `removeRedundantRequests` in turn needs
`WorkerControl`; so `InvNext` proves both together: types first, then `Grows` of every step, then
`WorkerControl` of the moving worker (`WorkerKeepsControl`) and of all others (`ControlFrame`).
`SubmittedHasLeaves` and `NeverForgotten` follow from it. A request closed after a transaction has status
`registered` in the model and no leaves of its own: its root is the empty one, of no reports
(`OnlyEmptyRootsQueued`), which is stored before `bulkWrite` marks the request. `RegisteredInv` says so at
each await in between (`RootsAhead`): the inserts of `Promise.all` may fail, and the rest of them still land
or die with the process, but `bulkWrite` follows only when all are done. `UniqueReport` needs only the guard of the
insert, the unique `_id`. `OvershootBounded` is inductive relative to
`Inv` because it counts the handlers past their count together with the stored reports: passing the
count needs fewer reports than the threshold, inserting trades a handler for a report, and everything
else shrinks both sets.

`Backend_proofs`, for a backend with one interval worker (the hypothesis `OneWorker`), with any number of
handlers, requests and executors and any faults:

* `AloneCorrect` – `[]AloneControl`;
* `ImplementsLedger` – the refinement `LedgerSpec`;
* `RootsDistinct` – `[]NoDuplicateRoots`;
* `TrimSafeAlone` – `TrimKeepsThreshold`, which run `trim` refutes for two workers.

`WorkerControl` says what survives other workers; `AloneControl` says what a worker without rivals knows
besides: how many reports there are at least when it queries or deletes, that its batch is still stored
and of the agreed size, that its root is not stored yet, that what the round has left is still open, and
that the steps of a transaction and of `removeRedundantRequests` are never reached. Handlers only add
reports and requests, which leaves all of it true (`AloneFrame`); each step of the worker establishes what
its next await relies on (`AloneSteps`). It needs `UniqueReport`, since a delete by executor must remove
exactly the reports of the query. A step of the backend is then `Accept` (the guard is
`OvershootBounded`), `Shed`, `Certify`, `Seal`, or changes nothing the ledger sees. `ThinnedOut` states what
a trim may do in terms of reports only: what a step takes away, it takes from a request that keeps
its threshold.

`ExecutorClient_proofs` (lemmas shared with the backend are in `ReportController_proofs`):

* `ExecTypeCorrect` – `[]ExecTypeOK`;
* `ConnectedOnce` – `[]OneConnection`, through `LinkOK`: a running program has one live socket and no
  timer, or one timer and no live socket, and a program that is down has neither. Each callback trades
  one for the other. `LinkOK` is `OneConnection` of one program and, given the types, inductive by itself.
* `HeardOnly` – `[]OnlyHeardReports`, through `HeardInv`, which follows a request from the event on a
  socket over the task to the body of the handler: `emitted` and `heard` never change for a transaction
  that came (`ToldGrows`).
* `RequestsTakenOnce` – `[]TakenUpOnce`: an event is under way only on a subscribed socket (`InboxOpen`), of
  which there is one; a task or an event means that the transaction was emitted (`HeardInv`), and what was
  emitted is not emitted again, nor is its request by another transaction.
* `EndsSettled` – `[]DoneMeansSettled`, through `SettledInv`: what is settled stays settled since this
  world removes no report, and a handler that answers without a failure found, counted enough or stored.

`MerkleTree_proofs`, for the tree over any finite set of numbers (`HashSet`):

* `TreeVerifies` – the proof of a leaf verifies against the root of its tree;
* `RootsDiffer` – different sets of leaves have different roots;
* `TreeRefuses` – whatever verifies against a root is one of its leaves.

The induction theorems of the library take an operator, which no installed prover instantiates. These
proofs do without: a property of numbers is made a *set* of numbers with 0 and the successors of its
members, which is all of them (`SetInduction`, from the well-foundedness of `<`). The recursive
functions are shown to satisfy their equations that way (`LayersDef`, `PlacesDef`, `ClimbDef`,
`AscentDef`). The lowest layer has each leaf once because the ranks of a strict order on `n` members are
the `n` numbers below `n` (`RankType`, `RankMonotone`, `RankTaken`). Layers get shorter until one node is
left (`LayersShrink`, `HeightDef`). `ClimbLeads` is the invariant of the climb: hashing the leaf with the
siblings met up to a layer gives the node of that layer above the leaf, also where a node without a
sibling is promoted. For the other two theorems one goes down instead: what holds of a root and of the
children of what it holds of, holds of every node (`DownTheTree`), so the leaves of a tree can be read
off its root (`NodesClosed`), and an accepted proof can only end in one of them.

`BackendReads_proofs`:

* `ProofTypes`, `ProofsConvince`, `CoveredAreFound` – `[]ProofTypeOK`, `[]ProofConvinces`,
  `[]FoundIffCovered`;
* `ShownFinished` – `[]OnlyFinishedShown`;
* `WalksComplete` – `[]WalkComplete`.

`ProofInv` adds to the invariants of the backend that every root is finite (so its tree is one of the
theorems above) and that the root `getProof` holds between its two reads is still the one on the chain:
a registered root never changes, and a transaction registers nothing since it carries empty roots only
(`CommitIdle`, `ChainNext`). The leaves found under the held root are its own by `RootsDiffer`.
`WalksComplete` rests on places: a list sorted newest first only grows as long as nothing is trimmed, and
a longer list only pushes an entry back (`AboveGrows`), so what is due and was not shown is never
before the page that is read next (`WalkCompleteInv`); an entry that is not before a page is on
it or behind it, and behind an empty page there is none (`PageShows`).

`DappClient_proofs`: `CollectsEnough` (`[]CollectedEnough`): an answer is a subset of a store with one report
per executor, so as many reports are as many executors (a bijection). `DappTypes` (`[]DappTypeOK`): its
bound on failed polls needs that a dapp which still polls has not used them up (`DappTyped`).

`Parts_proofs`, for the machines that share no state:

* `ClientFound`, `ClientOnce` – `[]ConnectionTypeOK`, which says that whoever goes on to a handle finds a
  client, and `[]OneClient`, through `ClientInv`: a live process without a client has never made one and
  nobody waits for one;
* `ScriptTypes`, `Attributed` – `[]ScriptTypeOK`, `[]ResultsAttributed`, through `ScriptInv`: the result arrays have an entry for each source that is
  behind and the test cases of the current one, each of them the result of a recorded run of that source;
  the row of a source is one further on than its result, since the first row is the initial one;
* `StartTypes` – `[]StartTypeOK`, which has it that nobody connects without a mnemonic.

`OracleSystem_proofs` lifts the parts to the whole:

* `SystemSafe` – `UniqueReport`, `OvershootBounded`, `SubmittedHasLeaves`, `RegisteredHasRoot`,
  `OneConnection`, `TakenUpOnce`, `OnlyHeardReports`, `DappTypeOK` and `CollectedEnough` hold of `SystemSpec`
  together, with crashes of every program;
* `RootsOfHeardReports` – `[]CertifiedWasHeard`, through `RootsHeard`: a report is of an executor that was
  told of its request when it is stored, and it is found in a batch, a stored root or the contract after
  it was deleted from the collection;
* `SystemForgetsNothing` – `RequestNeverForgotten`;
* with one interval worker, `SystemImplementsLedger`, `SystemSettles` (`[]DoneMeansSettled`) and
  `SystemTrimsSafely` (`TrimKeepsThreshold`).

A step of the system is a step of the backend or a fault beside it (`BackendPart`), a step of the executors
or of somebody who at most deletes reports (`ExecutorPart`), and a step of the dapp or nothing to it
(`DappPart`). `ServerDown` is a step of all three: to the backend it is `ServerCrash`, to the executors
`ServerRestarts`, to the dapp a failed poll or nothing. Each invariant survives what the others do, so their conjunction `SystemInv` is inductive.
`DoneMeansSettled` is the one that could be lost in composition: in the executors' own world nobody
deletes a report, here the worker does. It survives because one worker keeps the threshold, which is
what settles a task (`SystemThinnedOut`); with two workers it need not, as run `trim` shows.

## 8. Only model-checked, and not modelled

Only model-checked: the liveness properties (`EnoughReportsSubmitted`, `RegisteredRootTaken`, `WindowDrains`,
`ListensUnlessDeaf`, `RequestAnswered`, `PollingEnds`, `EnoughReportsCollected`, `CallersAnswered`,
`TypedPinRuns`), which are outside the prover's reach under fairness. That the three properties of the
violated runs fail is shown by their behaviours.

Two branches of the model are reached by none of its instances: a `bulkWrite` over several roots, because a
second request in the transaction path needs two workers and more reports than the instances have; and
the values above the caps of the code (`MAX_LIMIT` 20, pages of 200), for which the instances take small
caps instead.

Not modelled, or abstracted: hashing and signatures (collision-free, either answer), the wasm contract
beyond its roots and what the programs call of it, the transaction's gas, message contents, timing
(`PROCESS_INTERVAL` and reconnection delays are any delay), the websocket servers, which only broadcast
(the second one a second process on a host would fail to bind), log output and Sentry, DTO validation
rules, NestJS wiring, the creation of indexes, `aioracleDemo` of dapp-simulate, which runs `handleScript`
against a simulated chain, the generated SDK and HTML docs.
