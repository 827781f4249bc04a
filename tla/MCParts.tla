------------------------------- MODULE MCParts -------------------------------
(***************************************************************************)
(* The machines that share no state with each other, side by side: a       *)
(* polling dapp, the script runner and the start of an executor, and the   *)
(* database connection of the backend.  One of them runs in a behaviour,   *)
(* the others stay at rest.                                                *)
(***************************************************************************)
EXTENDS DappClient, ScriptExecute, MongoConnection, ExecutorStart

CONSTANTS e1, e2, e3, d1, d2

VARIABLE part

ThresholdTwo == [r \in Requests |-> 2]
PinOneTwo == <<"1", "2">>

pollVars == <<storeVars, dappVars>>
partsVars == <<part, pollVars, scriptVars, connectionVars, startVars>>

Polls(A) ==
  part = "dapp" /\ A /\ UNCHANGED <<part, scriptVars, connectionVars, startVars>>
Scripts(A) ==
  part = "scripts" /\ A /\ UNCHANGED <<part, pollVars, connectionVars, startVars>>
Connects(A) ==
  part = "connection" /\ A /\ UNCHANGED <<part, pollVars, scriptVars, startVars>>
Starts(A) ==
  part = "start" /\ A /\ UNCHANGED <<part, pollVars, scriptVars, connectionVars>>

\* A machine at rest is in one of its initial states.
PartsInit ==
  /\ part \in {"dapp", "scripts", "connection", "start"}
  /\ StoreInit /\ DappInit /\ ScriptInit /\ ConnectionInit /\ StartInit
  /\ part # "connection" => target = [c \in Callers |-> CHOOSE db \in Databases : TRUE]
  /\ part # "start" => env = CHOOSE e \in Environments : TRUE

PartsNext ==
  \/ Polls(DappNext)
  \/ Scripts(ScriptNext)
  \/ Connects(ConnectionNext)
  \/ Starts(StartNext)

\* The fairness of each machine's own specification.
PartsSpec ==
  /\ PartsInit
  /\ [][PartsNext]_partsVars
  /\ WF_partsVars(Polls(DappStep))
  /\ WF_partsVars(Connects(~exited /\ ConnectEnds))
  /\ WF_partsVars(Connects(~exited /\ CloseEnds))
  /\ \A c \in Callers : WF_partsVars(Connects(~exited /\ CallerStep(c)))
  /\ WF_partsVars(Starts(ProgramStep))
=============================================================================
