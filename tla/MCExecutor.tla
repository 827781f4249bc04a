----------------------------- MODULE MCExecutor -----------------------------
(***************************************************************************)
(* An instance of ExecutorClient for TLC: two processes on one mnemonic.   *)
(***************************************************************************)
EXTENDS ExecutorClient, TLC

CONSTANTS p1, p2, e1, d1, d2

ThresholdOne == [r \in Requests |-> 1]
TaskHandlers == Processes \X Requests
SharedOwner == [p \in Processes |-> e1]

Tx(ours, stages) == [ours |-> ours, stages |-> stages]

\* One with two requests, and one whose first message is for other contracts.
MixedTxs == {Tx(TRUE, <<1, 2>>), Tx(FALSE, <<2>>)}
=============================================================================
