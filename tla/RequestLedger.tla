--------------------------- MODULE RequestLedger ---------------------------
(***************************************************************************)
(* What the backend promises about a request, without handlers, rounds or  *)
(* database calls: reports are accepted up to a small overshoot, surplus   *)
(* ones are shed while enough of them stay, a merkle root covers exactly   *)
(* the number of reports a proof may rely on, and once the request is      *)
(* sealed nothing that was accepted is lost and some root still covers     *)
(* reports everyone can fetch.                                             *)
(***************************************************************************)
EXTENDS Naturals, FiniteSets

CONSTANTS
  Stages,         \* request ids
  Entries,     \* reports, records with requestId and executor
  Needed,      \* Needed[r]: how many reports the request asks for
  Covered,     \* Covered[r]: how many of them its root covers
  Overshoot    \* how many reports may arrive beyond Needed[r]

VARIABLES
  accepted,    \* the reports on record for each request
  certified,   \* the roots (sets of reports) on record for each request
  sealed       \* the requests that are done

vars == <<accepted, certified, sealed>>

Init ==
  /\ accepted = [r \in Stages |-> {}]
  /\ certified = [r \in Stages |-> {}]
  /\ sealed = {}

\* One report per executor; late ones may still come after the seal.
Accept(r) ==
  /\ Cardinality(accepted[r]) < Needed[r] + Overshoot
  /\ \E x \in Entries :
       /\ x.requestId = r
       /\ \A y \in accepted[r] : y.executor # x.executor
       /\ accepted' = [accepted EXCEPT ![r] = @ \cup {x}]
  /\ UNCHANGED <<certified, sealed>>

Shed(r) ==
  /\ r \notin sealed
  /\ \E kept \in SUBSET accepted[r] :
       /\ Cardinality(kept) >= Needed[r]
       /\ accepted' = [accepted EXCEPT ![r] = kept]
  /\ UNCHANGED <<certified, sealed>>

Certify(r) ==
  /\ r \notin sealed
  /\ \E root \in SUBSET accepted[r] :
       /\ Cardinality(root) = Covered[r]
       /\ root \notin certified[r]
       /\ certified' = [certified EXCEPT ![r] = @ \cup {root}]
  /\ UNCHANGED <<accepted, sealed>>

Seal(r) ==
  /\ \E root \in certified[r] : root \subseteq accepted[r]
  /\ sealed' = sealed \cup {r}
  /\ UNCHANGED <<accepted, certified>>

Next == \E r \in Stages : Accept(r) \/ Shed(r) \/ Certify(r) \/ Seal(r)

Spec == Init /\ [][Next]_vars
=============================================================================
