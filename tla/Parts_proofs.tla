----------------------------- MODULE Parts_proofs -----------------------------
(***************************************************************************)
(* The machines that run by themselves: the database connection of a       *)
(* backend process for any number of callers, databases and signals, the   *)
(* script runner of an executor for any number of data sources and test    *)
(* cases, and the start of an executor for any pin and any keys.           *)
(***************************************************************************)
EXTENDS MongoConnection, ScriptExecute, ExecutorStart, FiniteSetTheorems, TLAPS

-----------------------------------------------------------------------------
(* The connection *)

\* A process that has no client has not made one, or has ended.
ClientInv ==
  /\ OneClient
  /\ client = "null" /\ ~exited => opened = 0 /\ cached = {}
  /\ \A c \in Callers : cpc[c] = "opening" /\ ~exited => client # "null"
  /\ boot = "opening" /\ ~exited => client # "null"

LEMMA ConnectThenTypes ==
  ASSUME ConnectionTypeOK, ClientInv, ~exited, NEW next, NEW pc, ConnectThen(next, pc)
  PROVE  /\ opened' \in Nat /\ opened' <= 1
         /\ client' \in {"connecting", "connected", "failed", "closed"}
         /\ pc \in {"opening", next}
BY DEF ConnectThen, Opens, TakesClient, ClientInv, OneClient, ConnectionTypeOK

LEMMA ConnectionStep ==
  ASSUME ConnectionTypeOK, ClientInv, ConnectionNext
  PROVE  ConnectionTypeOK' /\ ClientInv'
<1> USE DEF ConnectionTypeOK, ClientInv, OneClient
<1> DEFINE Goal == ConnectionTypeOK' /\ ClientInv'
<1>0. ~exited
  BY DEF ConnectionNext
<1>1. CASE Listen
  BY <1>1 DEF Listen
<1>2. CASE BootConnects
  <2>1. /\ opened' \in Nat /\ opened' <= 1
        /\ client' \in {"connecting", "connected", "failed", "closed"}
        /\ boot' \in {"opening", "ready"}
    BY <1>0, <1>2, ConnectThenTypes DEF BootConnects
  <2>2. UNCHANGED <<cached, cpc, target, closing, exited>>
    BY <1>2 DEF BootConnects
  <2>3. ConnectionTypeOK'
    BY <2>1, <2>2
  <2>4. ClientInv'
    BY <2>1, <2>2
  <2> QED
    BY <2>3, <2>4
<1>3. CASE ConnectEnds
  BY <1>0, <1>3 DEF ConnectEnds
<1>4. CASE CloseEnds
  BY <1>4 DEF CloseEnds, ThenExit
<1>5. ASSUME NEW c \in Callers, Instance(c) PROVE Goal
  <2>1. PICK db \in Databases :
          /\ target' = [target EXCEPT ![c] = db]
          /\ IF db \in cached
             THEN cpc' = [cpc EXCEPT ![c] = "use"] /\ UNCHANGED <<client, opened>>
             ELSE \E pc \in {"opening", "bind"} :
                    ConnectThen("bind", pc) /\ cpc' = [cpc EXCEPT ![c] = pc]
    BY <1>5 DEF Instance
  <2>2. CASE db \in cached
    BY <1>5, <2>1, <2>2 DEF Instance
  <2>3. CASE db \notin cached
    <3>1. PICK pc \in {"opening", "bind"} :
            ConnectThen("bind", pc) /\ cpc' = [cpc EXCEPT ![c] = pc]
      BY <2>1, <2>3
    <3>2. /\ opened' \in Nat /\ opened' <= 1
          /\ client' \in {"connecting", "connected", "failed", "closed"}
      BY <1>0, <3>1, ConnectThenTypes
    <3> QED
      BY <1>5, <2>1, <3>1, <3>2 DEF Instance
  <2> QED
    BY <2>2, <2>3
<1>6. ASSUME NEW c \in Callers, CallerStep(c) PROVE Goal
  <2>1. /\ UNCHANGED <<boot, client, opened, target, closing, exited>>
        /\ cached' \in SUBSET Databases
        /\ \E pc \in {"idle", "use"} :
             cpc[c] \in {"bind", "use"} /\ cpc' = [cpc EXCEPT ![c] = pc]
    BY <1>6 DEF CallerStep, Bind, Use
  <2>2. client # "null"
    BY <1>0, <2>1
  <2>3. cpc' \in [Callers -> {"idle", "opening", "bind", "use"}]
    BY <2>1
  <2>4. ConnectionTypeOK'
    BY <2>1, <2>2, <2>3
  <2>5. ClientInv'
    BY <2>1, <2>2
  <2> QED
    BY <2>4, <2>5
<1>7. ASSUME NEW s \in Signals, Signal(s) PROVE Goal
  BY <1>7 DEF Signal
<1> QED
  BY <1>1, <1>2, <1>3, <1>4, <1>5, <1>6, <1>7 DEF ConnectionNext

LEMMA ConnectionInvariant ==
  ConnectionSpec => [](ConnectionTypeOK /\ ClientInv)
<1>1. ASSUME ConnectionInit PROVE ConnectionTypeOK /\ ClientInv
  <2>1. ConnectionTypeOK
    BY <1>1 DEF ConnectionInit, ConnectionTypeOK
  <2>2. ClientInv
    BY <1>1 DEF ConnectionInit, ClientInv, OneClient
  <2> QED
    BY <2>1, <2>2
<1>2. ConnectionTypeOK /\ ClientInv /\ [ConnectionNext]_connectionVars
        => ConnectionTypeOK' /\ ClientInv'
  <2>1. CASE ConnectionNext
    BY <2>1, ConnectionStep
  <2>2. CASE UNCHANGED connectionVars
    BY <2>2 DEF connectionVars, ConnectionTypeOK, ClientInv, OneClient
  <2> QED
    BY <2>1, <2>2
<1> QED
  BY <1>1, <1>2, PTL DEF ConnectionSpec

\* A caller never goes on to client.db(name) without a client.
THEOREM ClientFound == ConnectionSpec => []ConnectionTypeOK
BY ConnectionInvariant, PTL

\* However many calls, bootstrap and signals race, one client is made.
THEOREM ClientOnce == ConnectionSpec => []OneClient
<1>1. ConnectionTypeOK /\ ClientInv => OneClient
  BY DEF ClientInv
<1> QED
  BY <1>1, ConnectionInvariant, PTL

-----------------------------------------------------------------------------
(* The script runner *)

\* A script of source i gave the result v.
Gave(i, test, v) == \E k \in OfSource(i, test) : v = Result(ran[k].run)

\* The results of the sources behind the loop are complete, those of the test
\* cases of the current one are under way, and none of them came from another
\* source.
ScriptInv ==
  /\ Len(dsourceResults) = dsource - 1
  /\ Len(assertResults) = dsource
  /\ Len(testResults) <= TestCases
  /\ \A i \in 1..(dsource - 1) :
       /\ Gave(i, FALSE, dsourceResults[i])
       /\ Len(assertResults[i + 1]) = TestCases
       /\ \A j \in 1..TestCases : Gave(i, TRUE, assertResults[i + 1][j])
  /\ \A j \in 1..Len(testResults) : Gave(dsource, TRUE, testResults[j])
  /\ spc = "done" => dsource = Sources + 1 /\ aggregated.input = dsourceResults

\* A result is a text.
LEMMA ResultKinds ==
  ASSUME NEW run \in Runs
  PROVE  Result(run) \in Results
BY DEF Runs, Result, Results, ErrorText

\* What the scripts gave stays, and the last one is recorded for its source.
LEMMA GaveGrows ==
  ASSUME ScriptTypeOK, NEW test \in BOOLEAN, NEW run \in Runs, Record(test, run),
         dsource \in 1..Sources
  PROVE  /\ ran' \in Seq([source : 1..Sources, test : BOOLEAN, run : Runs])
         /\ \A i, t, v : Gave(i, t, v) => Gave(i, t, v)'
         /\ \A i : i = dsource => Gave(i, test, Result(run))'
<1> DEFINE entry == [source |-> dsource, test |-> test, run |-> run]
<1>1. ran \in Seq([source : 1..Sources, test : BOOLEAN, run : Runs])
  BY DEF ScriptTypeOK
<1>2. entry \in [source : 1..Sources, test : BOOLEAN, run : Runs] /\ ran' = Append(ran, entry)
  BY DEF Record
<1>3. /\ DOMAIN ran = 1..Len(ran) /\ DOMAIN ran' = 1..(Len(ran) + 1) /\ Len(ran) \in Nat
      /\ \A k \in 1..Len(ran) : ran'[k] = ran[k]
      /\ ran'[Len(ran) + 1] = entry
      /\ ran' \in Seq([source : 1..Sources, test : BOOLEAN, run : Runs])
  BY <1>1, <1>2
<1>4. ASSUME NEW i, NEW t, NEW v, Gave(i, t, v) PROVE Gave(i, t, v)'
  <2>1. PICK k \in DOMAIN ran : ran[k].source = i /\ ran[k].test = t /\ v = Result(ran[k].run)
    BY <1>4 DEF Gave, OfSource
  <2>2. k \in DOMAIN ran' /\ ran'[k] = ran[k]
    BY <1>3
  <2>3. k \in OfSource(i, t)' /\ v = Result(ran'[k].run)
    BY <2>1, <2>2 DEF OfSource
  <2> QED
    BY <2>3 DEF Gave
<1>5. ASSUME NEW i, i = dsource PROVE Gave(i, test, Result(run))'
  <2>1. Len(ran) + 1 \in DOMAIN ran' /\ ran'[Len(ran) + 1] = entry
    BY <1>3
  <2>2. Len(ran) + 1 \in OfSource(i, test)' /\ Result(run) = Result(ran'[Len(ran) + 1].run)
    BY <1>5, <2>1 DEF OfSource
  <2> QED
    BY <2>2 DEF Gave
<1> QED
  BY <1>3, <1>4, <1>5

LEMMA ScriptStep ==
  ASSUME ScriptTypeOK, ScriptInv, [ScriptNext]_scriptVars
  PROVE  ScriptTypeOK' /\ ScriptInv'
<1>0. /\ dsource \in Nat \ {0} /\ dsource <= Sources + 1 /\ Sources \in Nat /\ TestCases \in Nat
      /\ Len(testResults) \in Nat
  BY ScriptAssumption DEF ScriptAssumption, ScriptTypeOK
<1>1. CASE RunTestCase
  <2>1. PICK run \in Runs : Record(TRUE, run) /\ testResults' = Append(testResults, Result(run))
    BY <1>1 DEF RunTestCase
  <2>2. /\ dsource \in 1..Sources /\ Len(testResults) < TestCases
        /\ UNCHANGED <<spc, dsource, assertResults, dsourceResults, aggregated>>
    BY <1>0, <1>1 DEF RunTestCase, MoreSources
  <2>3. /\ ran' \in Seq([source : 1..Sources, test : BOOLEAN, run : Runs])
        /\ \A i, t, v : Gave(i, t, v) => Gave(i, t, v)'
        /\ \A i : i = dsource => Gave(i, TRUE, Result(run))'
    BY <2>1, <2>2, GaveGrows
  <2>4. /\ testResults' \in Seq(Results)
        /\ Len(testResults') = Len(testResults) + 1
        /\ \A j \in 1..Len(testResults) : testResults'[j] = testResults[j]
        /\ testResults'[Len(testResults) + 1] = Result(run)
    BY <2>1, ResultKinds DEF ScriptTypeOK
  <2>5. ScriptTypeOK'
    BY <2>2, <2>3, <2>4 DEF ScriptTypeOK
  <2>6. \A i \in 1..(dsource - 1) :
          /\ Gave(i, FALSE, dsourceResults[i])'
          /\ \A j \in 1..TestCases : Gave(i, TRUE, assertResults[i + 1][j])'
    <3>1. PICK ds, as : ds = dsourceResults /\ as = assertResults
      OBVIOUS
    <3>2. \A i \in 1..(dsource - 1) :
            Gave(i, FALSE, ds[i])' /\ \A j \in 1..TestCases : Gave(i, TRUE, as[i + 1][j])'
      BY <2>3, <3>1 DEF ScriptInv
    <3> QED
      BY <2>2, <3>1, <3>2
  <2>7. \A j \in 1..Len(testResults') : Gave(dsource, TRUE, testResults[j])'
    <3>1. PICK d, res, new : d = dsource /\ res = testResults /\ new = testResults'
      OBVIOUS
    <3>2. \A j \in 1..Len(res) : Gave(d, TRUE, res[j])'
      BY <2>3, <3>1 DEF ScriptInv
    <3>3. Gave(d, TRUE, Result(run))'
      BY <2>3, <3>1
    <3>4. \A j \in 1..(Len(res) + 1) : Gave(d, TRUE, new[j])'
      <4>1. SUFFICES ASSUME NEW j \in 1..(Len(res) + 1) PROVE Gave(d, TRUE, new[j])'
        OBVIOUS
      <4>2. CASE j \in 1..Len(res)
        BY <2>4, <3>1, <3>2, <4>2
      <4>3. CASE j = Len(res) + 1
        BY <2>4, <3>1, <3>3, <4>3
      <4>4. \A n \in Nat : \A m \in 1..(n + 1) : m \in 1..n \/ m = n + 1
        OBVIOUS
      <4>5. j \in 1..Len(res) \/ j = Len(res) + 1
        <5>1. Len(res) \in Nat
          BY <1>0, <3>1
        <5> QED
          BY <4>4, <5>1
      <4> QED
        BY <4>2, <4>3, <4>5
    <3> QED
      BY <2>2, <2>4, <3>1, <3>4
  <2>8. \A i \in 1..(dsource - 1) : Len(assertResults[i + 1]) = TestCases
    BY DEF ScriptInv
  <2>9. /\ Len(dsourceResults') = dsource' - 1 /\ Len(assertResults') = dsource'
        /\ Len(testResults') <= TestCases
        /\ spc' = "done" => dsource' = Sources + 1 /\ aggregated'.input = dsourceResults'
    BY <1>0, <2>2, <2>4 DEF ScriptInv
  <2>10. \A i \in 1..(dsource' - 1) :
           /\ Gave(i, FALSE, dsourceResults[i])'
           /\ Len(assertResults'[i + 1]) = TestCases
           /\ \A j \in 1..TestCases : Gave(i, TRUE, assertResults[i + 1][j])'
    BY <2>2, <2>6, <2>8
  <2> QED
    BY <2>5, <2>7, <2>9, <2>10 DEF ScriptInv
<1>2. CASE RunSource
  <2>1. PICK run \in Runs :
          Record(FALSE, run) /\ dsourceResults' = Append(dsourceResults, Result(run))
    BY <1>2 DEF RunSource
  <2>2. /\ dsource \in 1..Sources /\ Len(testResults) = TestCases /\ spc = "source"
        /\ assertResults' = Append(assertResults, testResults)
        /\ testResults' = <<>> /\ dsource' = dsource + 1 /\ UNCHANGED <<spc, aggregated>>
    BY <1>0, <1>2 DEF RunSource, MoreSources, FreshTests
  <2>3. /\ ran' \in Seq([source : 1..Sources, test : BOOLEAN, run : Runs])
        /\ \A i, t, v : Gave(i, t, v) => Gave(i, t, v)'
        /\ \A i : i = dsource => Gave(i, FALSE, Result(run))'
    BY <2>1, <2>2, GaveGrows
  <2>4. /\ dsourceResults' \in Seq(Results) /\ assertResults' \in Seq(Seq(Results))
        /\ Len(dsourceResults') = dsource /\ Len(assertResults') = dsource + 1
        /\ \A i \in 1..(dsource - 1) : dsourceResults'[i] = dsourceResults[i]
        /\ \A i \in 1..dsource : assertResults'[i] = assertResults[i]
        /\ dsourceResults'[dsource] = Result(run)
        /\ assertResults'[dsource + 1] = testResults
    BY <1>0, <2>1, <2>2, ResultKinds DEF ScriptTypeOK, ScriptInv
  <2>5. ScriptTypeOK'
    BY <1>0, <2>2, <2>3, <2>4 DEF ScriptTypeOK
  <2>6. ASSUME NEW i \in 1..(dsource' - 1)
        PROVE  /\ Gave(i, FALSE, dsourceResults[i])'
               /\ Len(assertResults'[i + 1]) = TestCases
               /\ \A j \in 1..TestCases : Gave(i, TRUE, assertResults[i + 1][j])'
    <3>1. PICK v, as : v = dsourceResults'[i] /\ as = assertResults'[i + 1]
      OBVIOUS
    <3>2. Gave(i, FALSE, v)' /\ Len(as) = TestCases /\ \A j \in 1..TestCases : Gave(i, TRUE, as[j])'
      <4>1. CASE i \in 1..(dsource - 1)
        <5>1. v = dsourceResults[i] /\ as = assertResults[i + 1]
          BY <1>0, <2>4, <3>1, <4>1
        <5>2. /\ Gave(i, FALSE, v) /\ Len(as) = TestCases
              /\ \A j \in 1..TestCases : Gave(i, TRUE, as[j])
          BY <4>1, <5>1 DEF ScriptInv
        <5> QED
          BY <2>3, <5>2
      <4>2. CASE i = dsource
        <5>1. v = Result(run) /\ as = testResults
          BY <2>4, <3>1, <4>2
        <5>2. \A j \in 1..TestCases : Gave(i, TRUE, as[j])
          BY <2>2, <4>2, <5>1 DEF ScriptInv
        <5> QED
          BY <2>2, <2>3, <4>2, <5>1, <5>2
      <4>3. dsource \in Nat /\ dsource' - 1 = dsource
        BY <1>0, <2>2
      <4>4. i \in 1..dsource
        BY <4>3
      <4>5. \A n \in Nat : \A m \in 1..n : m \in 1..(n - 1) \/ m = n
        OBVIOUS
      <4>6. i \in 1..(dsource - 1) \/ i = dsource
        BY <4>3, <4>4, <4>5
      <4> QED
        BY <4>1, <4>2, <4>6
    <3> QED
      BY <3>1, <3>2
  <2>7. /\ Len(dsourceResults') = dsource' - 1 /\ Len(assertResults') = dsource'
        /\ Len(testResults') <= TestCases /\ 1..Len(testResults') = {}
        /\ spc' # "done"
    BY <1>0, <2>2, <2>4
  <2>8. \A i \in 1..(dsource' - 1) :
          /\ Gave(i, FALSE, dsourceResults[i])'
          /\ Len(assertResults'[i + 1]) = TestCases
          /\ \A j \in 1..TestCases : Gave(i, TRUE, assertResults[i + 1][j])'
    BY <2>6
  <2> QED
    BY <2>5, <2>7, <2>8 DEF ScriptInv
<1>3. CASE RunOscript
  <2>1. /\ spc' = "done" /\ aggregated'.input = dsourceResults /\ dsource = Sources + 1
        /\ UNCHANGED <<dsource, ran, testResults, assertResults, dsourceResults>>
    BY <1>0, <1>3 DEF RunOscript, MoreSources
  <2>2. ScriptTypeOK'
    BY <2>1 DEF ScriptTypeOK
  <2>3. \A i, test, v : Gave(i, test, v)' <=> Gave(i, test, v)
    BY <2>1 DEF Gave, OfSource
  <2> QED
    BY <2>1, <2>2, <2>3 DEF ScriptInv
<1>4. CASE SpawnFails
  BY <1>4 DEF SpawnFails, ScriptTypeOK, ScriptInv, Gave, OfSource
<1>5. CASE UNCHANGED scriptVars
  BY <1>5 DEF scriptVars, ScriptTypeOK, ScriptInv, Gave, OfSource
<1> QED
  BY <1>1, <1>2, <1>3, <1>4, <1>5 DEF ScriptNext

LEMMA ScriptInvariant == ScriptSpec => [](ScriptTypeOK /\ ScriptInv)
<1>1. ASSUME ScriptInit PROVE ScriptTypeOK /\ ScriptInv
  <2>1. /\ 1 \in 1..(Sources + 1) /\ Sources \in Nat /\ TestCases \in Nat
    BY ScriptAssumption DEF ScriptAssumption
  <2>2. Len(<<>>) = 0 /\ Len(<< <<>> >>) = 1 /\ << <<>> >> \in Seq(Seq(Results))
    OBVIOUS
  <2> QED
    BY <1>1, <2>1, <2>2 DEF ScriptInit, ScriptTypeOK, ScriptInv
<1>2. ScriptTypeOK /\ ScriptInv /\ [ScriptNext]_scriptVars => ScriptTypeOK' /\ ScriptInv'
  BY ScriptStep
<1> QED
  BY <1>1, <1>2, PTL DEF ScriptSpec

\* The runner keeps its types, whatever the scripts do.
THEOREM ScriptTypes == ScriptSpec => []ScriptTypeOK
BY ScriptInvariant, PTL

\* Whatever the scripts do, each result is attributed to the source that gave
\* it, for any number of sources and test cases.
THEOREM Attributed == ScriptSpec => []ResultsAttributed
<1>1. ASSUME ScriptTypeOK, ScriptInv PROVE ResultsAttributed
  <2>1. Sources \in Nat
    BY ScriptAssumption DEF ScriptAssumption
  <2>2. SUFFICES ASSUME spc = "done" PROVE
          /\ Len(dsourceResults) = Sources
          /\ Len(assertResults) = Sources + 1
          /\ \A i \in 1..Sources :
               /\ Gave(i, FALSE, dsourceResults[i])
               /\ Len(assertResults[i + 1]) = TestCases
               /\ \A j \in 1..TestCases : Gave(i, TRUE, assertResults[i + 1][j])
          /\ aggregated.input = dsourceResults
    BY DEF ResultsAttributed, Gave
  <2>3. dsource = Sources + 1 /\ dsource - 1 = Sources
    BY <1>1, <2>1, <2>2 DEF ScriptInv
  <2> QED
    BY <1>1, <2>2, <2>3 DEF ScriptInv
<1> QED
  BY <1>1, ScriptInvariant, PTL

-----------------------------------------------------------------------------
(* The start of an executor *)

LEMMA StartStep ==
  ASSUME StartTypeOK, [StartNext]_startVars
  PROVE  StartTypeOK'
<1> USE DEF StartTypeOK
<1>1. CASE ReadEnvironment
  <2>1. env.pin \in Seq(Keys)
    <3>1. RightPin \in Seq(Keys)
      <4>1. RightPin \in Seq(Chars)
        BY StartAssumption DEF StartAssumption
      <4>2. \A i \in 1..Len(RightPin) : RightPin[i] \in Keys
        BY <4>1 DEF Keys
      <4> QED
        BY <4>1, <4>2
    <3>2. env.pin \in {RightPin, <<>>}
      BY DEF Environments, Pins
    <3>3. <<>> \in Seq(Keys)
      OBVIOUS
    <3> HIDE DEF StartTypeOK
    <3> QED
      BY <3>1, <3>2, <3>3, Zenon
  <2>2. /\ step' \in {"prompt", "evaluate", "connect", "leaving"}
        /\ input' \in {input, env.pin} /\ mnemonic' \in {mnemonic, "right"}
        /\ step' = "connect" => mnemonic' = "right"
    <3>1. CASE env.encrypted /\ ~env.docker
      BY <1>1, <3>1 DEF ReadEnvironment
    <3>2. CASE env.encrypted /\ env.docker
      BY <1>1, <3>2 DEF ReadEnvironment
    <3>3. CASE ~env.encrypted /\ env.plain
      BY <1>1, <3>3 DEF ReadEnvironment
    <3>4. CASE ~env.encrypted /\ ~env.plain
      BY <1>1, <3>4 DEF ReadEnvironment, Throw
    <3> QED
      BY <3>1, <3>2, <3>3, <3>4
  <2>3. UNCHANGED <<env, typed, pasted>>
    BY <1>1 DEF ReadEnvironment
  <2>4. input' \in Seq(Keys) /\ mnemonic' \in {"none", "right", "garbage"}
    BY <2>1, <2>2
  <2> QED
    BY <2>2, <2>3, <2>4
<1>2. ASSUME NEW chunk \in KeyChunks, KeysArrive(chunk) PROVE StartTypeOK'
  <2>1. chunk \in Seq(Keys) /\ chunk # <<>>
    <3>1. CASE \E k \in Keys : chunk = <<k>>
      BY <3>1
    <3>2. CASE \E k, l \in Keys : chunk = <<k, l>>
      BY <3>2
    <3> QED
      BY <3>1, <3>2 DEF KeyChunks
  <2>2. typed' \in Seq(Keys)
    BY <1>2, <2>1 DEF KeysArrive
  <2>3. input' \in Seq(Keys)
    <3>1. input' \in {input, backspace(input), input \o chunk}
      BY <1>2 DEF KeysArrive
    <3>2. input \in Seq(Keys)
      OBVIOUS
    <3>3. backspace(input) \in Seq(Keys)
      <4>1. CASE input = <<>>
        BY <3>2, <4>1 DEF backspace
      <4>2. CASE input # <<>>
        <5>1. Len(input) \in Nat \ {0} /\ backspace(input) = SubSeq(input, 1, Len(input) - 1)
          BY <3>2, <4>2 DEF backspace, Front
        <5>2. \A i \in 1..(Len(input) - 1) : input[i] \in Keys
          BY <3>2
        <5> QED
          BY <3>2, <5>1, <5>2
      <4> QED
        BY <4>1, <4>2
    <3>4. input \o chunk \in Seq(Keys)
      BY <2>1, <3>2
    <3> QED
      BY <3>1, <3>2, <3>3, <3>4
  <2>4. pasted' \in BOOLEAN
    <3>1. pasted' = (pasted \/ Len(chunk) > 1)
      BY <1>2 DEF KeysArrive
    <3> QED
      BY <3>1, Zenon
  <2>5. /\ step' \in {"prompt", "evaluate", "hung"} /\ UNCHANGED <<env, mnemonic>>
    BY <1>2 DEF KeysArrive
  <2> QED
    BY <2>2, <2>3, <2>4, <2>5
<1>3. CASE EvaluatePin
  <2>1. PICK plaintext \in {"right", "none", "garbage"} : Evaluate(plaintext)
    BY <1>3 DEF EvaluatePin
  <2> QED
    BY <1>3, <2>1 DEF EvaluatePin, Evaluate, Throw
<1>4. CASE ConnectProgram
  BY <1>4 DEF ConnectProgram
<1>5. CASE Leave
  BY <1>5 DEF Leave
<1>6. CASE UNCHANGED startVars
  BY <1>6 DEF startVars
<1> QED
  BY <1>1, <1>2, <1>3, <1>4, <1>5, <1>6 DEF StartNext, ProgramStep

\* No environment and no keys get an executor without a mnemonic as far as a
\* connection, on which it would take requests it cannot answer.
THEOREM StartTypes == StartSpec => []StartTypeOK
<1>1. StartInit => StartTypeOK
  <2>1. FALSE \in BOOLEAN
    BY Zenon
  <2>2. <<>> \in Seq(Keys)
    OBVIOUS
  <2> QED
    BY <2>1, <2>2 DEF StartInit, StartTypeOK
<1>2. StartTypeOK /\ [StartNext]_startVars => StartTypeOK'
  BY StartStep
<1> QED
  BY <1>1, <1>2, PTL DEF StartSpec
=============================================================================
