----------------------------- MODULE MCBackend -----------------------------
(***************************************************************************)
(* Instances of Backend for TLC: model values for processes and executors, *)
(* numbers for request ids (the loop visits them in descending order).     *)
(***************************************************************************)
EXTENDS Backend, TLC

CONSTANTS h1, h2, e1, e2, e3, d1, w1, w2

ThresholdOne == [r \in Requests |-> 1]
ThresholdTwo == [r \in Requests |-> 2]

\* One request has more reports than a query returns when MAX_LIMIT is 1.
ThresholdMixed == [r \in Requests |-> IF r = 1 THEN 2 ELSE 1]

\* The server's handlers are interchangeable, and so are the executors.
ExecHandlersSym == Permutations(Executors) \cup Permutations(Handlers)
=============================================================================
