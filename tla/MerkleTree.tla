----------------------------- MODULE MerkleTree -----------------------------
(***************************************************************************)
(* The merkle tree of packages/backend/src/utils/merkleTree.ts, over       *)
(* collision-free hashes: a leaf is the node of a number, so that leaves   *)
(* can be sorted, and the hash of two nodes is the set of the two, since   *)
(* the tree sorts each pair before it hashes it (sort: true).  Layers and  *)
(* proofs are those of the merkletreejs package.                           *)
(***************************************************************************)
EXTENDS Naturals, FiniteSets, Sequences

Leaf(hash) == [leaf |-> hash]
Pair(a, b) == [kids |-> {a, b}]

\* The leaves in the order of the tree, whatever order they came in.
SortedLeaves(hashes) ==
  [i \in 1..Cardinality(hashes) |->
     Leaf(CHOOSE x \in hashes : Cardinality({y \in hashes : y < x}) = i - 1)]

\* The next layer; a last node without a sibling moves up as it is.
Parents(layer) ==
  [i \in 1..((Len(layer) + 1) \div 2) |->
     IF 2 * i <= Len(layer) THEN Pair(layer[2 * i - 1], layer[2 * i])
     ELSE layer[2 * i - 1]]

Layers(hashes) ==
  LET layer[k \in 0..Cardinality(hashes)] ==
        IF k = 0 THEN SortedLeaves(hashes) ELSE Parents(layer[k - 1])
  IN layer

Height(hashes) ==
  CHOOSE h \in 0..Cardinality(hashes) :
    /\ Len(Layers(hashes)[h]) <= 1
    /\ \A k \in 0..(h - 1) : Len(Layers(hashes)[k]) > 1

\* The root of no leaves is the empty string.
EmptyRoot == [kids |-> {}]

getHexRoot(hashes) ==
  IF hashes = {} THEN EmptyRoot ELSE Layers(hashes)[Height(hashes)][1]

\* The other child of the parent of the node at an index, counted from 0.
Sibling(index) == IF index % 2 = 1 THEN index - 1 ELSE index + 1

\* Where the node above a leaf is in each layer, counted from 0.
Places(hashes, hash) ==
  LET place[k \in 0..Cardinality(hashes)] ==
        IF k = 0 THEN Cardinality({y \in hashes : y < hash})
        ELSE place[k - 1] \div 2
  IN place

\* The sibling of the node at a place, unless it has none.
Beside(layer, place) ==
  IF Sibling(place) < Len(layer) THEN <<layer[Sibling(place) + 1]>> ELSE <<>>

\* The siblings met on the way from a leaf up to each layer.
Climb(hashes, hash) ==
  LET proof[k \in 0..Cardinality(hashes)] ==
        IF k = 0 THEN <<>>
        ELSE proof[k - 1] \o Beside(Layers(hashes)[k - 1], Places(hashes, hash)[k - 1])
  IN proof

\* The siblings on the way from a leaf to the root, none for a stranger.
getHexProof(hashes, hash) ==
  IF hash \in hashes THEN Climb(hashes, hash)[Height(hashes)] ELSE <<>>

\* External: the contract hashes a leaf with each node of the proof, sorted.
Ascent(proof, hash) ==
  LET node[k \in 0..Len(proof)] ==
        IF k = 0 THEN Leaf(hash) ELSE Pair(node[k - 1], proof[k])
  IN node

Verifies(proof, hash, root) == Ascent(proof, hash)[Len(proof)] = root
=============================================================================
