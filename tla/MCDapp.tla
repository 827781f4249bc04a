------------------------------- MODULE MCDapp -------------------------------
(***************************************************************************)
(* DappClient for TLC: model values for executors and payloads.            *)
(***************************************************************************)
EXTENDS DappClient

CONSTANTS e1, e2, e3, d1, d2

ThresholdTwo == [r \in Requests |-> 2]
=============================================================================
