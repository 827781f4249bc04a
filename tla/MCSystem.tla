------------------------------ MODULE MCSystem ------------------------------
(***************************************************************************)
(* Instances of OracleSystem for TLC: each process has its own executor.   *)
(***************************************************************************)
EXTENDS OracleSystem, TLC

CONSTANTS p1, p2, e1, e2, w1, w2, d1, d2

ThresholdOne == [r \in Requests |-> 1]
ThresholdTwo == [r \in Requests |-> 2]
TaskHandlers == Processes \X Requests
OwnOwner == [p \in Processes |-> IF p = p1 THEN e1 ELSE e2]
OneTx == {[ours |-> TRUE, stages |-> <<1>>]}

\* The dapp's request, and one of another contract with the same number.
TwoContracts == OneTx \cup {[ours |-> FALSE, stages |-> <<1>>]}
=============================================================================
