------------------------------ MODULE MCReads ------------------------------
(***************************************************************************)
(* Instances of BackendReads for TLC: executors are numbers, so that the   *)
(* hash of a report is one.                                                *)
(***************************************************************************)
EXTENDS BackendReads, TLC

CONSTANTS h1, h2, d1, w1

ThresholdOne == [r \in Requests |-> 1]
ThresholdTwo == [r \in Requests |-> 2]

\* The handlers of the server are interchangeable.
HandlerSym == Permutations(Handlers)

Numbered == [x \in Reports |-> 10 * x.requestId + x.executor]

\* The trees of up to six leaves, odd layers among them: each leaf has a proof
\* the contract accepts, a stranger has none, and no two have the same root.
ASSUME TreesVerify ==
  \A S \in SUBSET (1..6) : \A x \in 1..6 :
    IF x \in S THEN Verifies(getHexProof(S, x), x, getHexRoot(S))
    ELSE getHexProof(S, x) = <<>>

ASSUME RootsIdentify ==
  \A S, T \in SUBSET (1..6) : getHexRoot(S) = getHexRoot(T) => S = T
=============================================================================
