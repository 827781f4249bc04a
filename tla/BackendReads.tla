---------------------------- MODULE BackendReads ----------------------------
(***************************************************************************)
(* The read endpoints beside the running backend: a reader's calls fall    *)
(* between the calls of the handlers and of the interval workers.          *)
(***************************************************************************)
EXTENDS Backend, ListController, ProofController

readVars == <<listVars, proofVars>>

ReadsInit == Init /\ ListInit /\ ProofInit

\* One reader walks through a list.
ListsNext ==
  \/ Next /\ ListObserves /\ UNCHANGED proofVars
  \/ ListStep /\ UNCHANGED <<handlerVars, workerVars, proofVars>>

ListsSpec == ReadsInit /\ [][ListsNext]_<<vars, readVars>>

\* One user of the oracle asks for proofs.
ProofsNext ==
  \/ Next /\ UNCHANGED readVars
  \/ ProofNext /\ UNCHANGED <<handlerVars, workerVars, listVars>>

ProofsSpec == ReadsInit /\ [][ProofsNext]_<<vars, readVars>>
=============================================================================
