-------------------------- MODULE ProofController --------------------------
(***************************************************************************)
(* POST /proof: whoever wants to use a report asks for the merkle proof of *)
(* it, which the contract checks against the root registered for the       *)
(* request.  The controller reads that root from the contract, then the    *)
(* leaves stored under it, and the two belong together only as far as the  *)
(* interval service keeps them together.                                   *)
(***************************************************************************)
EXTENDS OracleStore, MerkleTree

CONSTANTS
  Hash,     \* Hash[x]: the hash of the report x with its hashed data
  NoLeaf    \* what nobody asks for

ASSUME ProofAssumption ==
  /\ Hash \in [Reports -> Nat]
  /\ \A x, y \in Reports : Hash[x] = Hash[y] => x = y
  /\ NoLeaf \notin Reports

VARIABLES
  ppc,      \* the await getProof is at
  asked,    \* body.leaf and body.request_id
  held,     \* data.merkle_root
  reply     \* what was answered

proofVars == <<ppc, asked, held, reply>>

NoReply == [code |-> "none", proofs |-> <<>>]

ProofInit ==
  /\ ppc = "idle"
  /\ asked = NoLeaf
  /\ held = NoRoot
  /\ reply = NoReply

ProofTypeOK ==
  /\ ppc \in {"idle", "getRequest", "findLeaves"}
  /\ asked \in Reports \cup {NoLeaf}
  /\ held \in Roots
  /\ reply.code \in {"none", "waiting", "error", "notFound", "found"}
  /\ ppc # "idle" => asked \in Reports
  /\ ppc = "findLeaves" => held # NoRoot

-----------------------------------------------------------------------------
HashesOf(S) == {Hash[x] : x \in S}

\* The hash of a tree built from the leaves formTree stored.
HexRoot(S) == getHexRoot(HashesOf(S))

Reply(code, proofs) ==
  /\ ppc' = "idle"
  /\ reply' = [code |-> code, proofs |-> proofs]

AskProof ==
  /\ ppc = "idle"
  /\ \E x \in Reports : x.requestId \notin BenchIds /\ asked' = x
  /\ ppc' = "getRequest"
  /\ held' = NoRoot
  /\ reply' = NoReply
  /\ UNCHANGED storeVars

\* Mutant: an absent root is looked up like any other.
NeverWaits(root) == FALSE

\* if (!data.merkle_root)
NotRegistered(root) == root = NoRoot

ReadRoot ==
  /\ ppc = "getRequest"
  /\ held' = chainRoot[asked.requestId]
  /\ IF NotRegistered(chainRoot[asked.requestId])
     THEN Reply("waiting", <<>>)
     ELSE ppc' = "findLeaves" /\ UNCHANGED reply
  /\ UNCHANGED <<asked, storeVars>>

\* Mutant: the leaves of the newest document, whatever its root.
findLeavesNewest(root) ==
  IF merkleCollection = <<>> THEN {} ELSE {merkleCollection[Len(merkleCollection)]}

\* The leaves stored under a root: none, or one set.
findLeaves(root) == {S \in StoredRoots : S # NoRoot /\ HexRoot(S) = HexRoot(root)}

\* MerkleProofTree of null throws, which Nest answers with 500.
AnswerProof ==
  /\ ppc = "findLeaves"
  /\ \/ /\ findLeaves(held) = {}
        /\ Reply("error", <<>>)
     \/ \E S \in findLeaves(held) :
          LET proofs == getHexProof(HashesOf(S), Hash[asked])
          IN IF proofs = <<>> /\ Leaf(Hash[asked]) # HexRoot(S)
             THEN Reply("notFound", <<>>)
             ELSE Reply("found", proofs)
  /\ UNCHANGED <<asked, held, storeVars>>

\* A call throws: 500.
ProofFails ==
  /\ ppc # "idle"
  /\ Fault
  /\ Reply("error", <<>>)
  /\ UNCHANGED <<asked, held, executorCollection, requestCollection,
                 merkleCollection, chainRoot>>

ProofNext == AskProof \/ ReadRoot \/ AnswerProof \/ ProofFails

-----------------------------------------------------------------------------
(* Properties *)

\* A proof that was handed out convinces the contract: it leads from the
\* leaf to the root the contract holds, through odd layers and promoted
\* nodes, and although root and leaves were read at different times.
ProofConvinces ==
  reply.code = "found"
    => Verifies(reply.proofs, Hash[asked], HexRoot(chainRoot[asked.requestId]))

\* Only a report the registered root covers gets a proof, and only one it
\* does not cover is refused.
FoundIffCovered ==
  /\ reply.code = "found" => asked \in chainRoot[asked.requestId]
  /\ reply.code = "notFound" => asked \notin chainRoot[asked.requestId]
=============================================================================
