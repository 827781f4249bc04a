---------------------------- MODULE ScriptExecute ----------------------------
(***************************************************************************)
(* handleScript of the executor: for each data source of a service the     *)
(* test cases are run and then the source itself, every script in a Deno   *)
(* process of its own; the results of the sources are the input of the     *)
(* service's oscript.  What a script does is its exit code and what it     *)
(* writes; spawnPromise and processDenoScript make one text of it, and     *)
(* nothing in the text tells an answer from the text of an error.          *)
(***************************************************************************)
EXTENDS Naturals, Sequences

CONSTANTS
  Sources,     \* number of data sources of the service
  TestCases,   \* number of test cases of the service
  Texts        \* texts a script may write

ASSUME ScriptAssumption ==
  Sources \in Nat /\ TestCases \in Nat /\ "Download" \notin Texts

VARIABLES
  spc,             \* the kind of script that runs next, or how it ended
  dsource,         \* index of the loop's data source
  ran,             \* what the scripts of each source did, in order (history)
  testResults,     \* results of the test cases of the current source
  assertResults,   \* results of the test cases of all sources
  dsourceResults,  \* results of the sources
  aggregated       \* the oscript's input, and its result

scriptVars ==
  <<spc, dsource, ran, testResults, assertResults, dsourceResults, aggregated>>

\* What a script writes, or the empty string.
Results == Texts \cup {""}

\* stderr comes in one chunk at most.  "Download" stands for a chunk that has
\* this word or "Check" anywhere in it, beside an error or not.
Runs == [exit : {0, 1}, stdout : Results, stderr : Results \cup {"Download"}]

\* The chunk is dropped whole.
ErrorText(run) == IF run.stderr = "Download" THEN "" ELSE run.stderr

\* processDenoScript
Result(run) ==
  IF ErrorText(run) # "" \/ run.exit # 0 THEN ErrorText(run) ELSE run.stdout

NotAggregated == [input |-> <<>>, result |-> "none"]

ScriptInit ==
  /\ spc = "source"
  /\ dsource = 1
  /\ ran = <<>>
  /\ testResults = <<>>
  /\ assertResults = << <<>> >>
  /\ dsourceResults = <<>>
  /\ aggregated = NotAggregated

ScriptTypeOK ==
  /\ spc \in {"source", "done", "rejected"}
  /\ dsource \in 1..(Sources + 1)
  /\ ran \in Seq([source : 1..Sources, test : BOOLEAN, run : Runs])
  /\ testResults \in Seq(Results)
  /\ assertResults \in Seq(Seq(Results))
  /\ dsourceResults \in Seq(Results)

Record(test, run) ==
  ran' = Append(ran, [source |-> dsource, test |-> test, run |-> run])

-----------------------------------------------------------------------------
\* Mutant: the loop goes one further.
OneSourceMore == dsource <= Sources + 1

\* for (let dsource of dsources)
MoreSources == dsource <= Sources

\* executeTestCases, one test case
RunTestCase ==
  /\ spc = "source"
  /\ MoreSources
  /\ Len(testResults) < TestCases
  /\ \E run \in Runs :
       /\ Record(TRUE, run)
       /\ testResults' = Append(testResults, Result(run))
  /\ UNCHANGED <<spc, dsource, assertResults, dsourceResults, aggregated>>

\* Mutant: the results of the test cases pile up over the sources.
NextTests == testResults

\* A fresh array for the next source.
FreshTests == <<>>

RunSource ==
  /\ spc = "source"
  /\ MoreSources
  /\ Len(testResults) = TestCases
  /\ \E run \in Runs :
       /\ Record(FALSE, run)
       /\ dsourceResults' = Append(dsourceResults, Result(run))
  /\ assertResults' = Append(assertResults, testResults)
  /\ testResults' = FreshTests
  /\ dsource' = dsource + 1
  /\ UNCHANGED <<spc, aggregated>>

RunOscript ==
  /\ spc = "source"
  /\ ~MoreSources
  /\ \E run \in Runs :
       aggregated' = [input |-> dsourceResults, result |-> Result(run)]
  /\ spc' = "done"
  /\ UNCHANGED <<dsource, ran, testResults, assertResults, dsourceResults>>

\* The process cannot be started: the promise rejects, and so does the task.
SpawnFails ==
  /\ spc = "source"
  /\ spc' = "rejected"
  /\ UNCHANGED <<dsource, ran, testResults, assertResults, dsourceResults, aggregated>>

ScriptNext == RunTestCase \/ RunSource \/ RunOscript \/ SpawnFails

ScriptSpec == ScriptInit /\ [][ScriptNext]_scriptVars

-----------------------------------------------------------------------------
(* Properties *)

OfSource(i, test) ==
  {k \in DOMAIN ran : ran[k].source = i /\ ran[k].test = test}

\* Whatever the scripts do, the report attributes each text to the source
\* that gave it: one result per source in the order of the service, and the
\* results of its test cases one place further on, since assertResults
\* starts with an empty entry.
ResultsAttributed ==
  spc = "done" =>
    /\ Len(dsourceResults) = Sources
    /\ Len(assertResults) = Sources + 1
    /\ \A i \in 1..Sources :
         /\ \E k \in OfSource(i, FALSE) : dsourceResults[i] = Result(ran[k].run)
         /\ Len(assertResults[i + 1]) = TestCases
         /\ \A j \in 1..TestCases : \E k \in OfSource(i, TRUE) :
              assertResults[i + 1][j] = Result(ran[k].run)
    /\ aggregated.input = dsourceResults
=============================================================================
