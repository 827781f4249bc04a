-------------------------- MODULE MerkleTree_proofs --------------------------
(***************************************************************************)
(* Trees of any number of leaves: every leaf has a proof that leads to the *)
(* root, and no two sets of leaves share a root.  The layers, places and   *)
(* proofs are recursive functions; what they compute is shown by induction *)
(* over sets of numbers (SetInduction).  The lemmas about ranks also serve *)
(* the pages of BackendReads_proofs.                                       *)
(***************************************************************************)
EXTENDS MerkleTree, FiniteSetTheorems, WellFoundedInduction, TLAPS

-----------------------------------------------------------------------------
(* Induction over the natural numbers *)

\* A set of numbers that is not empty has a least one.
LEMMA LeastOf ==
  ASSUME NEW T, T \subseteq Nat, T # {}
  PROVE  \E n \in T : \A m \in T : n <= m
<1> DEFINE less == {ss \in Nat \X Nat : ss[1] < ss[2]}
<1>1. IsWellFoundedOn(less, Nat)
  BY NatLessThanWellFounded DEF OpToRel
<1>2. PICK n \in T : \A m \in T : ~ (<<m, n>> \in less)
  BY <1>1, WFMin
<1>3. \A m \in T : ~ (m < n)
  BY <1>2
<1> QED
  BY <1>3

\* A set with 0 and with the successors of its numbers has them all.
LEMMA SetInduction ==
  ASSUME NEW S, 0 \in S, \A n \in Nat : n \in S => n + 1 \in S
  PROVE  Nat \subseteq S
<1> SUFFICES ASSUME ~ (Nat \subseteq S) PROVE FALSE
  OBVIOUS
<1> DEFINE T == Nat \ S
<1>1. T \subseteq Nat /\ T # {}
  OBVIOUS
<1> HIDE DEF T
<1>2. PICK n \in T : \A m \in T : n <= m
  BY <1>1, LeastOf
<1> USE DEF T
<1>3. n # 0 /\ n \in Nat
  OBVIOUS
<1>4. n - 1 \in Nat /\ n - 1 \notin T
  BY <1>2, <1>3
<1> QED
  BY <1>4, <1>3

-----------------------------------------------------------------------------
(* Ranks: how many members of a finite set come before one of them *)

Before(R, S, x) == {y \in S : <<y, x>> \in R}

StrictOrder(R, S) ==
  /\ \A x \in S : <<x, x>> \notin R
  /\ \A x, y, z \in S : <<x, y>> \in R /\ <<y, z>> \in R => <<x, z>> \in R
  /\ \A x, y \in S : x = y \/ <<x, y>> \in R \/ <<y, x>> \in R

\* The rank of a member is less than the number of members.
LEMMA RankType ==
  ASSUME NEW R, NEW S, IsFiniteSet(S), StrictOrder(R, S), NEW x \in S
  PROVE  /\ IsFiniteSet(Before(R, S, x))
         /\ Cardinality(Before(R, S, x)) \in Nat
         /\ Cardinality(S) \in Nat
         /\ Cardinality(Before(R, S, x)) < Cardinality(S)
<1>1. Before(R, S, x) \subseteq S /\ x \notin Before(R, S, x)
  BY DEF Before, StrictOrder
<1>2. IsFiniteSet(Before(R, S, x)) /\ Cardinality(Before(R, S, x)) <= Cardinality(S)
      /\ Cardinality(Before(R, S, x)) # Cardinality(S)
  BY <1>1, FS_Subset
<1>3. Cardinality(Before(R, S, x)) \in Nat /\ Cardinality(S) \in Nat
  BY <1>2, FS_CardinalityType
<1> QED
  BY <1>2, <1>3

\* A member that comes before another has the lesser rank.
LEMMA RankMonotone ==
  ASSUME NEW R, NEW S, IsFiniteSet(S), StrictOrder(R, S),
         NEW x \in S, NEW y \in S, <<x, y>> \in R
  PROVE  Cardinality(Before(R, S, x)) < Cardinality(Before(R, S, y))
<1>1. Before(R, S, x) \subseteq Before(R, S, y)
  BY DEF Before, StrictOrder
<1>2. x \in Before(R, S, y) /\ x \notin Before(R, S, x)
  BY DEF Before, StrictOrder
<1>3. IsFiniteSet(Before(R, S, y))
  BY RankType
<1>4. /\ Cardinality(Before(R, S, x)) <= Cardinality(Before(R, S, y))
      /\ Cardinality(Before(R, S, x)) # Cardinality(Before(R, S, y))
  BY <1>1, <1>2, <1>3, FS_Subset
<1> QED
  BY <1>4, RankType

\* Every number below that of the members is the rank of one of them.
LEMMA RankTaken ==
  ASSUME NEW R, NEW S, IsFiniteSet(S), StrictOrder(R, S),
         NEW i \in 0..(Cardinality(S) - 1)
  PROVE  \E x \in S : Cardinality(Before(R, S, x)) = i
<1> DEFINE rank == [x \in S |-> Cardinality(Before(R, S, x))]
           T == 0..(Cardinality(S) - 1)
<1>1. Cardinality(S) \in Nat
  BY FS_CardinalityType
<1>2. rank \in [S -> T]
  BY RankType, <1>1
<1>3. ASSUME NEW x \in S, NEW y \in S, x # y PROVE rank[x] # rank[y]
  <2>1. rank[x] < rank[y] \/ rank[y] < rank[x]
    BY <1>3, RankMonotone DEF StrictOrder
  <2> QED
    BY <2>1, <1>2
<1>4. rank \in Injection(S, T)
  BY <1>2, <1>3 DEF Injection, IsInjective
<1>5. IsFiniteSet(T) /\ Cardinality(T) = Cardinality(S)
  BY <1>1, FS_Interval
<1>6. rank \in Surjection(S, T)
  BY <1>4, <1>5, FS_Injection
<1>7. PICK x \in S : rank[x] = i
  BY <1>6 DEF Surjection
<1> QED
  BY <1>7

-----------------------------------------------------------------------------
(* The layers of a tree *)

HashSet(S) == S \subseteq Nat /\ IsFiniteSet(S)

less == {ss \in Nat \X Nat : ss[1] < ss[2]}

LEMMA LessOrders ==
  ASSUME NEW S, S \subseteq Nat
  PROVE  /\ StrictOrder(less, S)
         /\ \A x \in S : Before(less, S, x) = {y \in S : y < x}
<1>1. \A x, y \in S : <<x, y>> \in less <=> x < y
  BY DEF less
<1>2. StrictOrder(less, S)
  BY <1>1 DEF StrictOrder
<1> QED
  BY <1>1, <1>2 DEF Before

\* The first layer has every leaf once, each at its rank.
LEMMA LeavesSorted ==
  ASSUME NEW S, HashSet(S)
  PROVE  /\ Len(SortedLeaves(S)) = Cardinality(S)
         /\ DOMAIN SortedLeaves(S) = 1..Cardinality(S)
         /\ \A i \in 1..Cardinality(S) : \E x \in S : SortedLeaves(S)[i] = Leaf(x)
         /\ \A x \in S : LET place == Cardinality({y \in S : y < x})
                         IN place \in 0..(Cardinality(S) - 1)
                            /\ SortedLeaves(S)[place + 1] = Leaf(x)
<1> DEFINE rank(x) == Cardinality({y \in S : y < x})
<1>1. StrictOrder(less, S) /\ IsFiniteSet(S) /\ \A x \in S : Before(less, S, x) = {y \in S : y < x}
  BY LessOrders DEF HashSet
<1>2. Cardinality(S) \in Nat
  BY <1>1, FS_CardinalityType
<1>3. \A x \in S : rank(x) \in 0..(Cardinality(S) - 1)
  BY <1>1, <1>2, RankType
<1>4. \A i \in 0..(Cardinality(S) - 1) : \E x \in S : rank(x) = i
  BY <1>1, RankTaken
<1>5. \A x, y \in S : rank(x) = rank(y) => x = y
  <2> SUFFICES ASSUME NEW x \in S, NEW y \in S, x # y PROVE rank(x) # rank(y)
    OBVIOUS
  <2>1. rank(x) < rank(y) \/ rank(y) < rank(x)
    BY <1>1, RankMonotone DEF StrictOrder
  <2> QED
    BY <2>1, <1>3, <1>2
<1>6. SortedLeaves(S) = [i \in 1..Cardinality(S) |-> Leaf(CHOOSE x \in S : rank(x) = i - 1)]
  BY DEF SortedLeaves
<1> HIDE DEF rank
<1>7. ASSUME NEW i \in 1..Cardinality(S)
      PROVE  \E x \in S : rank(x) = i - 1 /\ SortedLeaves(S)[i] = Leaf(x)
  <2>1. i - 1 \in 0..(Cardinality(S) - 1)
    BY <1>2
  <2>2. \E x \in S : rank(x) = i - 1
    BY <2>1, <1>4
  <2> QED
    BY <2>2, <1>6
<1>8. Len(SortedLeaves(S)) = Cardinality(S) /\ DOMAIN SortedLeaves(S) = 1..Cardinality(S)
  BY <1>2, <1>6
<1>9. ASSUME NEW x \in S
      PROVE  rank(x) \in 0..(Cardinality(S) - 1) /\ SortedLeaves(S)[rank(x) + 1] = Leaf(x)
  <2>1. rank(x) + 1 \in 1..Cardinality(S) /\ (rank(x) + 1) - 1 = rank(x)
    BY <1>2, <1>3
  <2>2. PICK y \in S : rank(y) = rank(x) /\ SortedLeaves(S)[rank(x) + 1] = Leaf(y)
    BY <2>1, <1>7
  <2> QED
    BY <2>2, <1>3, <1>5
<1> QED
  BY <1>7, <1>8, <1>9 DEF rank

\* What the recursive definition of the layers means.
LEMMA LayersDef ==
  ASSUME NEW S, Cardinality(S) \in Nat
  PROVE  /\ Layers(S)[0] = SortedLeaves(S)
         /\ \A k \in 1..Cardinality(S) : Layers(S)[k] = Parents(Layers(S)[k - 1])
<1> DEFINE Up(f, m) == [k \in 0..m |-> IF k = 0 THEN SortedLeaves(S) ELSE Parents(f[k - 1])]
           D == {m \in Nat : \E f : f = Up(f, m)}
<1>1. 0 \in D
  <2>1. [k \in 0..0 |-> SortedLeaves(S)] = Up([k \in 0..0 |-> SortedLeaves(S)], 0)
    OBVIOUS
  <2> QED
    BY <2>1
<1>2. ASSUME NEW m \in Nat, m \in D PROVE m + 1 \in D
  <2>1. PICK f : f = Up(f, m)
    BY <1>2
  <2> DEFINE g == [k \in 0..(m + 1) |-> IF k = m + 1 THEN Parents(f[m]) ELSE f[k]]
  <2>2. g = Up(g, m + 1)
    <3> SUFFICES ASSUME NEW k \in 0..(m + 1)
                 PROVE  g[k] = IF k = 0 THEN SortedLeaves(S) ELSE Parents(g[k - 1])
      OBVIOUS
    <3>1. CASE k = m + 1
      BY <3>1
    <3>2. CASE k \in 1..m
      <4>1. f[k] = Parents(f[k - 1])
        BY <2>1, <3>2
      <4> QED
        BY <3>2, <4>1
    <3>3. CASE k = 0
      BY <2>1, <3>3
    <3> QED
      BY <3>1, <3>2, <3>3
  <2>3. \E h : h = Up(h, m + 1)
    <3> HIDE DEF g, Up
    <3> QED
      BY <2>2
  <2> QED
    BY <2>3
<1>3. Cardinality(S) \in D
  <2> HIDE DEF D
  <2> QED
    BY <1>1, <1>2, SetInduction
<1>4. Layers(S) = Up(Layers(S), Cardinality(S))
  <2>1. Layers(S) = CHOOSE f : f = Up(f, Cardinality(S))
    BY DEF Layers
  <2> QED
    BY <1>3, <2>1
<1> QED
  BY <1>4

\* A layer is a sequence of at least one node.
Layer(layer) == Len(layer) \in Nat \ {0} /\ DOMAIN layer = 1..Len(layer)

LEMMA ParentsLayer ==
  ASSUME NEW layer, Layer(layer)
  PROVE  /\ Layer(Parents(layer))
         /\ Len(Parents(layer)) = (Len(layer) + 1) \div 2
         /\ \A i \in 1..((Len(layer) + 1) \div 2) :
              Parents(layer)[i] = IF 2 * i <= Len(layer)
                                  THEN Pair(layer[2 * i - 1], layer[2 * i])
                                  ELSE layer[2 * i - 1]
<1>1. (Len(layer) + 1) \div 2 \in Nat \ {0}
  BY DEF Layer
<1> QED
  BY <1>1 DEF Parents, Layer

\* Every layer above one of several nodes is shorter.
LEMMA LayersShrink ==
  ASSUME NEW S, HashSet(S), S # {}
  PROVE  /\ Cardinality(S) \in Nat \ {0}
         /\ \A k \in 0..Cardinality(S) :
              /\ Layer(Layers(S)[k])
              /\ Len(Layers(S)[k]) = 1 \/ Len(Layers(S)[k]) <= Cardinality(S) - k
<1>1. Cardinality(S) \in Nat \ {0}
  BY FS_CardinalityType, FS_EmptySet DEF HashSet
<1> DEFINE n == Cardinality(S)
           Fits(k) == /\ Layer(Layers(S)[k])
                      /\ Len(Layers(S)[k]) = 1 \/ Len(Layers(S)[k]) <= n - k
           D == {k \in Nat : k <= n => Fits(k)}
<1>2. 0 \in D
  BY <1>1, LayersDef, LeavesSorted DEF Layer
<1>3. ASSUME NEW k \in Nat, k \in D PROVE k + 1 \in D
  <2> SUFFICES ASSUME k + 1 <= n PROVE Fits(k + 1)
    OBVIOUS
  <2>1. Fits(k)
    BY <1>1, <1>3
  <2>2. Layers(S)[k + 1] = Parents(Layers(S)[k])
    BY <1>1, LayersDef
  <2>3. Layer(Layers(S)[k + 1]) /\ Len(Layers(S)[k + 1]) = (Len(Layers(S)[k]) + 1) \div 2
    BY <2>1, <2>2, ParentsLayer
  <2>4. \A l \in Nat \ {0}, a \in Nat :
          l = 1 \/ l <= a + 1 => (l + 1) \div 2 = 1 \/ (l + 1) \div 2 <= a
    OBVIOUS
  <2>5. Len(Layers(S)[k]) \in Nat \ {0} /\ n - (k + 1) \in Nat /\ n - k = n - (k + 1) + 1
    BY <1>1, <2>1 DEF Layer
  <2> QED
    BY <2>1, <2>3, <2>4, <2>5
<1>4. Nat \subseteq D
  <2> HIDE DEF D
  <2> QED
    BY <1>2, <1>3, SetInduction
<1> QED
  BY <1>1, <1>4

\* The tree has a top layer, and the root is all there is on it.
LEMMA HeightDef ==
  ASSUME NEW S, HashSet(S), S # {}
  PROVE  /\ Height(S) \in 0..Cardinality(S)
         /\ Len(Layers(S)[Height(S)]) = 1
<1> DEFINE n == Cardinality(S)
           len(k) == Len(Layers(S)[k])
           flat == {h \in 0..n : len(h) <= 1}
<1>1. /\ n \in Nat \ {0}
      /\ \A k \in 0..n : len(k) \in Nat \ {0}
      /\ \A k \in 0..n : len(k) = 1 \/ len(k) <= n - k
  BY LayersShrink DEF Layer
<1>2. Height(S) = CHOOSE h \in 0..n : len(h) <= 1 /\ \A k \in 0..(h - 1) : len(k) > 1
  BY DEF Height
<1> HIDE DEF n, len
<1>3. n \in flat
  BY <1>1
<1>4. flat # {} /\ flat \subseteq Nat
  BY <1>1, <1>3
<1>5. PICK h \in flat : \A m \in flat : h <= m
  <2> HIDE DEF flat
  <2> QED
    BY <1>4, LeastOf
<1>6. \A k \in 0..(h - 1) : len(k) > 1
  BY <1>1, <1>5
<1>7. Height(S) \in 0..n /\ len(Height(S)) <= 1
  BY <1>2, <1>5, <1>6
<1>8. len(Height(S)) = 1
  BY <1>1, <1>7
<1> QED
  BY <1>7, <1>8 DEF n, len

-----------------------------------------------------------------------------
(* Proofs *)

\* What the recursive definition of the places means.
LEMMA PlacesDef ==
  ASSUME NEW S, NEW x, Cardinality(S) \in Nat
  PROVE  /\ Places(S, x)[0] = Cardinality({y \in S : y < x})
         /\ \A k \in 1..Cardinality(S) : Places(S, x)[k] = Places(S, x)[k - 1] \div 2
<1> DEFINE start == Cardinality({y \in S : y < x})
           half(v) == v \div 2
           Up(f, m) == [k \in 0..m |-> IF k = 0 THEN start ELSE half(f[k - 1])]
           D == {m \in Nat : \E f : f = Up(f, m)}
<1>0. Places(S, x) = CHOOSE f : f = Up(f, Cardinality(S))
  BY DEF Places
<1> HIDE DEF start, half
<1>1. 0 \in D
  <2>1. [k \in 0..0 |-> start] = Up([k \in 0..0 |-> start], 0)
    OBVIOUS
  <2> QED
    BY <2>1
<1>2. ASSUME NEW m \in Nat, m \in D PROVE m + 1 \in D
  <2>1. PICK f : f = Up(f, m)
    BY <1>2
  <2> DEFINE g == [k \in 0..(m + 1) |-> IF k = m + 1 THEN half(f[m]) ELSE f[k]]
  <2>2. g = Up(g, m + 1)
    <3> SUFFICES ASSUME NEW k \in 0..(m + 1)
                 PROVE  g[k] = IF k = 0 THEN start ELSE half(g[k - 1])
      OBVIOUS
    <3>1. CASE k = m + 1
      BY <3>1
    <3>2. CASE k \in 1..m
      <4>1. f[k] = half(f[k - 1])
        BY <2>1, <3>2
      <4> QED
        BY <3>2, <4>1
    <3>3. CASE k = 0
      BY <2>1, <3>3
    <3> QED
      BY <3>1, <3>2, <3>3
  <2>3. \E h : h = Up(h, m + 1)
    <3> HIDE DEF g, Up
    <3> QED
      BY <2>2
  <2> QED
    BY <2>3
<1>3. Cardinality(S) \in D
  <2> HIDE DEF D
  <2> QED
    BY <1>1, <1>2, SetInduction
<1>4. Places(S, x) = Up(Places(S, x), Cardinality(S))
  BY <1>0, <1>3
<1>5. /\ Places(S, x)[0] = start
      /\ \A k \in 1..Cardinality(S) : Places(S, x)[k] = half(Places(S, x)[k - 1])
  BY <1>4
<1> QED
  BY <1>5 DEF start, half

\* What the recursive definition of the climb means.
LEMMA ClimbDef ==
  ASSUME NEW S, NEW x, Cardinality(S) \in Nat
  PROVE  /\ Climb(S, x)[0] = <<>>
         /\ \A k \in 1..Cardinality(S) :
              Climb(S, x)[k] =
                Climb(S, x)[k - 1] \o Beside(Layers(S)[k - 1], Places(S, x)[k - 1])
<1> DEFINE more(v, k) == v \o Beside(Layers(S)[k], Places(S, x)[k])
           Up(f, m) == [k \in 0..m |-> IF k = 0 THEN <<>> ELSE more(f[k - 1], k - 1)]
           D == {m \in Nat : \E f : f = Up(f, m)}
<1>0. Climb(S, x) = CHOOSE f : f = Up(f, Cardinality(S))
  BY DEF Climb
<1> HIDE DEF more
<1>1. 0 \in D
  <2>1. [k \in 0..0 |-> <<>>] = Up([k \in 0..0 |-> <<>>], 0)
    OBVIOUS
  <2> QED
    BY <2>1
<1>2. ASSUME NEW m \in Nat, m \in D PROVE m + 1 \in D
  <2>1. PICK f : f = Up(f, m)
    BY <1>2
  <2> DEFINE g == [k \in 0..(m + 1) |-> IF k = m + 1 THEN more(f[m], m) ELSE f[k]]
  <2>2. g = Up(g, m + 1)
    <3> SUFFICES ASSUME NEW k \in 0..(m + 1)
                 PROVE  g[k] = IF k = 0 THEN <<>> ELSE more(g[k - 1], k - 1)
      OBVIOUS
    <3>1. CASE k = m + 1
      BY <3>1
    <3>2. CASE k \in 1..m
      <4>1. f[k] = more(f[k - 1], k - 1)
        BY <2>1, <3>2
      <4> QED
        BY <3>2, <4>1
    <3>3. CASE k = 0
      BY <2>1, <3>3
    <3> QED
      BY <3>1, <3>2, <3>3
  <2>3. \E h : h = Up(h, m + 1)
    <3> HIDE DEF g, Up
    <3> QED
      BY <2>2
  <2> QED
    BY <2>3
<1>3. Cardinality(S) \in D
  <2> HIDE DEF D
  <2> QED
    BY <1>1, <1>2, SetInduction
<1>4. Climb(S, x) = Up(Climb(S, x), Cardinality(S))
  BY <1>0, <1>3
<1> QED
  BY <1>4 DEF more

\* What the recursive definition of the ascent means.
LEMMA AscentDef ==
  ASSUME NEW p, NEW x, Len(p) \in Nat
  PROVE  /\ Ascent(p, x)[0] = Leaf(x)
         /\ \A k \in 1..Len(p) : Ascent(p, x)[k] = Pair(Ascent(p, x)[k - 1], p[k])
<1> DEFINE Up(f, m) == [k \in 0..m |-> IF k = 0 THEN Leaf(x) ELSE Pair(f[k - 1], p[k])]
           D == {m \in Nat : \E f : f = Up(f, m)}
<1>1. 0 \in D
  <2>1. [k \in 0..0 |-> Leaf(x)] = Up([k \in 0..0 |-> Leaf(x)], 0)
    OBVIOUS
  <2> QED
    BY <2>1
<1>2. ASSUME NEW m \in Nat, m \in D PROVE m + 1 \in D
  <2>1. PICK f : f = Up(f, m)
    BY <1>2
  <2> DEFINE g == [k \in 0..(m + 1) |-> IF k = m + 1 THEN Pair(f[m], p[m + 1]) ELSE f[k]]
  <2>2. g = Up(g, m + 1)
    <3> SUFFICES ASSUME NEW k \in 0..(m + 1)
                 PROVE  g[k] = IF k = 0 THEN Leaf(x) ELSE Pair(g[k - 1], p[k])
      OBVIOUS
    <3>1. CASE k = m + 1
      BY <3>1
    <3>2. CASE k \in 1..m
      <4>1. f[k] = Pair(f[k - 1], p[k])
        BY <2>1, <3>2
      <4> QED
        BY <3>2, <4>1
    <3>3. CASE k = 0
      BY <2>1, <3>3
    <3> QED
      BY <3>1, <3>2, <3>3
  <2>3. \E h : h = Up(h, m + 1)
    <3> HIDE DEF g, Up
    <3> QED
      BY <2>2
  <2> QED
    BY <2>3
<1>3. Len(p) \in D
  <2> HIDE DEF D
  <2> QED
    BY <1>1, <1>2, SetInduction
<1>4. Ascent(p, x) = Up(Ascent(p, x), Len(p))
  <2>1. Ascent(p, x) = CHOOSE f : f = Up(f, Len(p))
    BY DEF Ascent
  <2> QED
    BY <1>3, <2>1
<1> QED
  BY <1>4

Top(p, x) == Ascent(p, x)[Len(p)]

\* A sibling appended to a proof adds one node to the ascent.
LEMMA AscentAppends ==
  ASSUME NEW V, NEW p \in Seq(V), NEW v \in V, NEW x
  PROVE  Top(p \o <<v>>, x) = Pair(Top(p, x), v)
<1> DEFINE q == p \o <<v>>
           D == {k \in Nat : k <= Len(p) => Ascent(q, x)[k] = Ascent(p, x)[k]}
<1>1. /\ Len(p) \in Nat /\ Len(q) = Len(p) + 1 /\ q[Len(p) + 1] = v
      /\ \A k \in 1..Len(p) : q[k] = p[k]
  OBVIOUS
<1> HIDE DEF q
<1>2. 0 \in D
  BY <1>1, AscentDef
<1>3. ASSUME NEW k \in Nat, k \in D PROVE k + 1 \in D
  <2> SUFFICES ASSUME k + 1 <= Len(p) PROVE Ascent(q, x)[k + 1] = Ascent(p, x)[k + 1]
    OBVIOUS
  <2>1. Ascent(q, x)[k] = Ascent(p, x)[k]
    BY <1>1, <1>3
  <2>2. /\ k + 1 \in 1..Len(p) /\ k + 1 \in 1..Len(q) /\ (k + 1) - 1 = k
        /\ Len(q) \in Nat
    BY <1>1
  <2>3. /\ Ascent(q, x)[k + 1] = Pair(Ascent(q, x)[k], q[k + 1])
        /\ Ascent(p, x)[k + 1] = Pair(Ascent(p, x)[k], p[k + 1])
    BY <1>1, <2>2, AscentDef
  <2> QED
    BY <1>1, <2>1, <2>2, <2>3
<1>4. Len(p) \in D
  <2> HIDE DEF D
  <2> QED
    BY <1>1, <1>2, <1>3, SetInduction
<1>5. Ascent(q, x)[Len(q)] = Pair(Ascent(q, x)[Len(p)], v)
  <2>1. Len(q) \in 1..Len(q) /\ Len(q) - 1 = Len(p) /\ Len(q) \in Nat
    BY <1>1
  <2> QED
    BY <1>1, <2>1, AscentDef
<1> QED
  BY <1>1, <1>4, <1>5 DEF Top, q

Nodes(S) == UNION {{Layers(S)[k][i] : i \in DOMAIN Layers(S)[k]} : k \in 0..Cardinality(S)}

\* One layer up: the node above a place is the pair of the two siblings, or
\* the node itself when it has none.
LEMMA ParentAbove ==
  ASSUME NEW layer, Layer(layer), NEW place \in 0..(Len(layer) - 1)
  PROVE  /\ place \div 2 \in 0..(Len(Parents(layer)) - 1)
         /\ \/ /\ Beside(layer, place) = <<>>
               /\ Parents(layer)[place \div 2 + 1] = layer[place + 1]
            \/ \E i \in 1..Len(layer) :
                 /\ Beside(layer, place) = <<layer[i]>>
                 /\ Parents(layer)[place \div 2 + 1] = Pair(layer[place + 1], layer[i])
<1> DEFINE n == Len(layer)
<1>0. n \in Nat \ {0} /\ place \in Nat
  BY DEF Layer
<1>1. /\ Len(Parents(layer)) = (n + 1) \div 2
      /\ \A i \in 1..((n + 1) \div 2) :
           Parents(layer)[i] = IF 2 * i <= n THEN Pair(layer[2 * i - 1], layer[2 * i])
                               ELSE layer[2 * i - 1]
  BY ParentsLayer
<1>2. Beside(layer, place) = IF Sibling(place) < n THEN <<layer[Sibling(place) + 1]>> ELSE <<>>
  BY DEF Beside
<1>3. \A a, b : Pair(a, b) = Pair(b, a)
  BY DEF Pair
<1> HIDE DEF n
<1>4. place \div 2 \in 0..((n + 1) \div 2 - 1) /\ place \div 2 + 1 \in 1..((n + 1) \div 2)
  BY <1>0 DEF n
<1> DEFINE up == place \div 2 + 1
<1>5. CASE place % 2 = 1
  <2>1. 2 * up = place + 1 /\ 2 * up <= n /\ 2 * up - 1 = place
    BY <1>0, <1>5 DEF n
  <2>2. Sibling(place) = place - 1 /\ Sibling(place) < n /\ Sibling(place) + 1 = place
        /\ place \in 1..n
    BY <1>0, <1>5 DEF Sibling, n
  <2>3. Parents(layer)[up] = Pair(layer[place], layer[place + 1])
    BY <1>1, <1>4, <2>1
  <2>4. Beside(layer, place) = <<layer[place]>>
    BY <1>2, <2>2
  <2> QED
    BY <1>1, <1>3, <1>4, <2>2, <2>3, <2>4 DEF n
<1>6. CASE place % 2 = 0 /\ place + 1 < n
  <2>1. 2 * up = place + 2 /\ 2 * up <= n /\ 2 * up - 1 = place + 1
    BY <1>0, <1>6
  <2>2. Sibling(place) = place + 1 /\ Sibling(place) < n /\ Sibling(place) + 1 = place + 2
        /\ place + 2 \in 1..n
    BY <1>0, <1>6 DEF Sibling
  <2>3. Parents(layer)[up] = Pair(layer[place + 1], layer[place + 2])
    BY <1>1, <1>4, <2>1
  <2>4. Beside(layer, place) = <<layer[place + 2]>>
    BY <1>2, <2>2
  <2> QED
    BY <1>1, <1>4, <2>2, <2>3, <2>4 DEF n
<1>7. CASE place % 2 = 0 /\ ~ (place + 1 < n)
  <2>1. 2 * up = place + 2 /\ ~ (2 * up <= n) /\ 2 * up - 1 = place + 1
    BY <1>0, <1>7
  <2>2. Sibling(place) = place + 1 /\ ~ (Sibling(place) < n)
    BY <1>0, <1>7 DEF Sibling
  <2> QED
    BY <1>1, <1>2, <1>4, <2>1, <2>2
<1>8. place % 2 = 0 \/ place % 2 = 1
  BY <1>0
<1> QED
  BY <1>0, <1>5, <1>6, <1>7, <1>8

\* The way up from a leaf, layer by layer.
Climbed(S, x, k) ==
  /\ Places(S, x)[k] \in 0..(Len(Layers(S)[k]) - 1)
  /\ Climb(S, x)[k] \in Seq(Nodes(S))
  /\ Top(Climb(S, x)[k], x) = Layers(S)[k][Places(S, x)[k] + 1]

\* Whatever layer the climb has reached, hashing the leaf with the siblings
\* met so far gives the node of that layer above the leaf.
LEMMA ClimbLeads ==
  ASSUME NEW S, HashSet(S), NEW x \in S, NEW m \in 0..Cardinality(S)
  PROVE  Climbed(S, x, m)
<1> DEFINE n == Cardinality(S)
           D == {k \in Nat : k <= n => Climbed(S, x, k)}
<1>0. n \in Nat \ {0} /\ \A k \in 0..n : Layer(Layers(S)[k])
  BY LayersShrink
<1>1. 0 \in D
  <2>1. Layers(S)[0] = SortedLeaves(S) /\ Climb(S, x)[0] = <<>>
        /\ Places(S, x)[0] = Cardinality({y \in S : y < x})
    BY <1>0, LayersDef, PlacesDef, ClimbDef
  <2>2. /\ Len(SortedLeaves(S)) = n
        /\ Places(S, x)[0] \in 0..(n - 1)
        /\ SortedLeaves(S)[Places(S, x)[0] + 1] = Leaf(x)
    BY <2>1, LeavesSorted
  <2>3. Top(<<>>, x) = Leaf(x)
    BY AscentDef DEF Top
  <2>4. <<>> \in Seq(Nodes(S))
    OBVIOUS
  <2> QED
    BY <2>1, <2>2, <2>3, <2>4 DEF Climbed
<1>2. ASSUME NEW k \in Nat, k \in D PROVE k + 1 \in D
  <2> SUFFICES ASSUME k + 1 <= n PROVE Climbed(S, x, k + 1)
    OBVIOUS
  <2> DEFINE layer == Layers(S)[k]
             place == Places(S, x)[k]
             proof == Climb(S, x)[k]
  <2>0. k + 1 \in 1..n /\ (k + 1) - 1 = k /\ k \in 0..n
    BY <1>0
  <2>1. /\ Layer(layer) /\ place \in 0..(Len(layer) - 1) /\ proof \in Seq(Nodes(S))
        /\ Top(proof, x) = layer[place + 1]
    BY <1>0, <1>2, <2>0 DEF Climbed
  <2>2. /\ Layers(S)[k + 1] = Parents(layer)
        /\ Places(S, x)[k + 1] = place \div 2
        /\ Climb(S, x)[k + 1] = proof \o Beside(layer, place)
    <3>1. Layers(S)[k + 1] = Parents(Layers(S)[(k + 1) - 1])
      BY <1>0, <2>0, LayersDef
    <3>2. Places(S, x)[k + 1] = Places(S, x)[(k + 1) - 1] \div 2
      BY <1>0, <2>0, PlacesDef
    <3>3. Climb(S, x)[k + 1] = Climb(S, x)[(k + 1) - 1]
                                 \o Beside(Layers(S)[(k + 1) - 1], Places(S, x)[(k + 1) - 1])
      BY <1>0, <2>0, ClimbDef
    <3> QED
      BY <2>0, <3>1, <3>2, <3>3
  <2>3. \A i \in 1..Len(layer) : layer[i] \in Nodes(S)
    BY <2>0, <2>1 DEF Nodes, Layer
  <2> HIDE DEF layer, place, proof
  <2>4. place \div 2 \in 0..(Len(Parents(layer)) - 1)
    BY <2>1, ParentAbove
  <2>5. CASE /\ Beside(layer, place) = <<>>
             /\ Parents(layer)[place \div 2 + 1] = layer[place + 1]
    <3>1. Climb(S, x)[k + 1] = proof
      BY <2>1, <2>2, <2>5
    <3> QED
      BY <2>1, <2>2, <2>4, <2>5, <3>1 DEF Climbed
  <2>6. ASSUME NEW i \in 1..Len(layer),
               Beside(layer, place) = <<layer[i]>>,
               Parents(layer)[place \div 2 + 1] = Pair(layer[place + 1], layer[i])
        PROVE  Climbed(S, x, k + 1)
    <3>1. Climb(S, x)[k + 1] = proof \o <<layer[i]>> /\ layer[i] \in Nodes(S)
      BY <2>2, <2>3, <2>6
    <3>2. Top(proof \o <<layer[i]>>, x) = Pair(layer[place + 1], layer[i])
      BY <2>1, <3>1, AscentAppends
    <3>3. proof \o <<layer[i]>> \in Seq(Nodes(S))
      BY <2>1, <3>1
    <3> QED
      BY <2>2, <2>4, <2>6, <3>1, <3>2, <3>3 DEF Climbed
  <2> QED
    BY <2>1, <2>5, <2>6, ParentAbove
<1>3. m \in D
  <2> HIDE DEF D
  <2> QED
    BY <1>0, <1>1, <1>2, SetInduction
<1> QED
  BY <1>0, <1>3

\* Every leaf of a tree has a proof that the contract accepts against the
\* root of the tree: merkletreejs and verify_data agree on trees of any
\* size, those with odd layers and promoted nodes among them.
THEOREM TreeVerifies ==
  ASSUME NEW S, HashSet(S), NEW x \in S
  PROVE  Verifies(getHexProof(S, x), x, getHexRoot(S))
<1>1. Height(S) \in 0..Cardinality(S) /\ Len(Layers(S)[Height(S)]) = 1
  BY HeightDef
<1>2. Climbed(S, x, Height(S))
  BY <1>1, ClimbLeads
<1>3. Places(S, x)[Height(S)] + 1 = 1
  BY <1>1, <1>2 DEF Climbed
<1>4. getHexProof(S, x) = Climb(S, x)[Height(S)] /\ getHexRoot(S) = Layers(S)[Height(S)][1]
  BY DEF getHexProof, getHexRoot
<1> QED
  BY <1>2, <1>3, <1>4 DEF Climbed, Top, Verifies

-----------------------------------------------------------------------------
(* Roots *)

\* A leaf is no inner node, the root of no leaves is neither, and inner
\* nodes with the same children are the same.
LEMMA NodesDiffer ==
  ASSUME NEW a, NEW b, NEW c, NEW d, NEW x, NEW y
  PROVE  /\ Leaf(x) # Pair(a, b) /\ Leaf(x) # EmptyRoot /\ Pair(a, b) # EmptyRoot
         /\ Leaf(x) = Leaf(y) => x = y
         /\ Pair(a, b) = Pair(c, d) => a \in {c, d} /\ b \in {c, d} /\ c \in {a, b}
<1>1. DOMAIN Leaf(x) = {"leaf"} /\ DOMAIN Pair(a, b) = {"kids"} /\ DOMAIN EmptyRoot = {"kids"}
  BY DEF Leaf, Pair, EmptyRoot
<1>2. Leaf(x).leaf = x /\ Leaf(y).leaf = y
  BY DEF Leaf
<1>3. Pair(a, b).kids = {a, b} /\ Pair(c, d).kids = {c, d} /\ EmptyRoot.kids = {}
  BY DEF Pair, EmptyRoot
<1> QED
  BY <1>1, <1>2, <1>3

\* Every node of a tree is a leaf of one of its hashes, or the pair of two
\* nodes of the tree.
LEMMA NodeShapes ==
  ASSUME NEW S, HashSet(S), S # {}, NEW m \in 0..Cardinality(S),
         NEW i \in DOMAIN Layers(S)[m]
  PROVE  \/ \E x \in S : Layers(S)[m][i] = Leaf(x)
         \/ \E a, b \in Nodes(S) : Layers(S)[m][i] = Pair(a, b)
<1> DEFINE n == Cardinality(S)
           Known(v) == (\E x \in S : v = Leaf(x)) \/ \E a, b \in Nodes(S) : v = Pair(a, b)
           D == {k \in Nat : k <= n => \A j \in DOMAIN Layers(S)[k] : Known(Layers(S)[k][j])}
<1>0. n \in Nat \ {0} /\ \A k \in 0..n : Layer(Layers(S)[k])
  BY LayersShrink
<1>1. 0 \in D
  BY <1>0, LayersDef, LeavesSorted
<1>2. ASSUME NEW k \in Nat, k \in D PROVE k + 1 \in D
  <2> SUFFICES ASSUME k + 1 <= n, NEW j \in DOMAIN Layers(S)[k + 1]
               PROVE  Known(Layers(S)[k + 1][j])
    OBVIOUS
  <2> DEFINE layer == Layers(S)[k]
  <2>0. k + 1 \in 1..n /\ (k + 1) - 1 = k /\ k \in 0..n
    BY <1>0
  <2>1. Layer(layer) /\ \A l \in 1..Len(layer) : Known(layer[l])
    <3>1. Layer(layer)
      BY <1>0, <2>0
    <3>2. k <= n
      BY <1>0
    <3> HIDE DEF Known
    <3>3. \A l \in DOMAIN layer : Known(layer[l])
      BY <1>2, <3>2
    <3> QED
      BY <3>1, <3>3 DEF Layer
  <2>2. \A l \in 1..Len(layer) : layer[l] \in Nodes(S)
    BY <2>0, <2>1 DEF Nodes, Layer
  <2>3. Layers(S)[k + 1] = Parents(layer)
    BY <1>0, <2>0, LayersDef
  <2> HIDE DEF layer
  <2>4. /\ j \in 1..((Len(layer) + 1) \div 2)
        /\ Parents(layer)[j] = IF 2 * j <= Len(layer)
                               THEN Pair(layer[2 * j - 1], layer[2 * j]) ELSE layer[2 * j - 1]
    BY <2>1, <2>3, ParentsLayer DEF Layer
  <2>5. 2 * j - 1 \in 1..Len(layer) /\ (2 * j <= Len(layer) => 2 * j \in 1..Len(layer))
    BY <2>1, <2>4 DEF Layer
  <2> HIDE DEF Known
  <2>6. CASE 2 * j <= Len(layer)
    BY <2>2, <2>3, <2>4, <2>5, <2>6 DEF Known
  <2>7. CASE ~ (2 * j <= Len(layer))
    BY <2>1, <2>3, <2>4, <2>5, <2>7
  <2> QED
    BY <2>6, <2>7
<1>3. m \in D
  <2> HIDE DEF D
  <2> QED
    BY <1>0, <1>1, <1>2, SetInduction
<1> QED
  BY <1>0, <1>3

\* What holds of a root and of the children of what it holds of, holds of
\* every node of the tree.
LEMMA DownTheTree ==
  ASSUME NEW S, HashSet(S), S # {}, NEW N, getHexRoot(S) \in N,
         \A a, b : Pair(a, b) \in N => a \in N /\ b \in N,
         NEW x \in S
  PROVE  Leaf(x) \in N
<1> DEFINE top == Height(S)
           Inside(k) == \A i \in 1..Len(Layers(S)[k]) : Layers(S)[k][i] \in N
           D == {j \in Nat : j <= top => Inside(top - j)}
<1>0. /\ Cardinality(S) \in Nat \ {0} /\ top \in 0..Cardinality(S)
      /\ Len(Layers(S)[top]) = 1
      /\ \A k \in 0..Cardinality(S) : Layer(Layers(S)[k])
  BY LayersShrink, HeightDef
<1>1. 0 \in D
  <2>1. top - 0 = top /\ getHexRoot(S) = Layers(S)[top][1]
    BY <1>0 DEF getHexRoot
  <2> QED
    BY <1>0, <2>1
<1>2. ASSUME NEW j \in Nat, j \in D PROVE j + 1 \in D
  <2> SUFFICES ASSUME j + 1 <= top PROVE Inside(top - (j + 1))
    OBVIOUS
  <2> DEFINE k == top - (j + 1)
             layer == Layers(S)[k]
  <2>0. k \in 0..Cardinality(S) /\ k + 1 \in 1..Cardinality(S) /\ k + 1 = top - j /\ (k + 1) - 1 = k
    BY <1>0
  <2>1. Inside(k + 1)
    BY <1>0, <1>2, <2>0
  <2>2. Layers(S)[k + 1] = Parents(layer)
    BY <1>0, <2>0, LayersDef
  <2>3. Layer(layer)
    BY <1>0, <2>0
  <2>4. ASSUME NEW i \in 1..Len(layer) PROVE layer[i] \in N
    <3> HIDE DEF k, layer
    <3> DEFINE up == (i + 1) \div 2
    <3>1. Len(layer) \in Nat \ {0} /\ up \in 1..((Len(layer) + 1) \div 2)
      BY <2>3 DEF Layer
    <3>2. /\ Parents(layer)[up] \in N
          /\ Parents(layer)[up] = IF 2 * up <= Len(layer)
                                  THEN Pair(layer[2 * up - 1], layer[2 * up])
                                  ELSE layer[2 * up - 1]
      BY <2>1, <2>2, <2>3, <3>1, ParentsLayer
    <3>3. i = 2 * up - 1 \/ (i = 2 * up /\ 2 * up <= Len(layer))
      BY <3>1
    <3> HIDE DEF up
    <3> QED
      BY <3>2, <3>3
  <2> QED
    BY <2>4
<1>3. Inside(0)
  <2>1. top \in D
    <3> HIDE DEF D
    <3> QED
      BY <1>0, <1>1, <1>2, SetInduction
  <2> QED
    BY <1>0, <2>1
<1>4. PICK i \in 1..Len(Layers(S)[0]) : Layers(S)[0][i] = Leaf(x)
  <2>1. Layers(S)[0] = SortedLeaves(S)
    BY <1>0, LayersDef
  <2> DEFINE place == Cardinality({y \in S : y < x})
  <2>2. /\ Len(SortedLeaves(S)) = Cardinality(S)
        /\ place \in 0..(Cardinality(S) - 1)
        /\ SortedLeaves(S)[place + 1] = Leaf(x)
    BY LeavesSorted
  <2>3. place + 1 \in 1..Len(SortedLeaves(S))
    BY <1>0, <2>2
  <2> QED
    BY <2>1, <2>2, <2>3
<1> QED
  BY <1>3, <1>4

\* The nodes of a tree have the root among them and, with an inner node, both
\* of its children; the leaves among them are the leaves of the tree.
LEMMA NodesClosed ==
  ASSUME NEW S, HashSet(S), S # {}
  PROVE  /\ getHexRoot(S) \in Nodes(S)
         /\ \A a, b : Pair(a, b) \in Nodes(S) => a \in Nodes(S) /\ b \in Nodes(S)
         /\ \A x : Leaf(x) \in Nodes(S) => x \in S
         /\ EmptyRoot \notin Nodes(S)
<1>1. \A v \in Nodes(S) : (\E y \in S : v = Leaf(y)) \/ \E a, b \in Nodes(S) : v = Pair(a, b)
  BY NodeShapes DEF Nodes
<1>2. getHexRoot(S) \in Nodes(S)
  <2>1. /\ Height(S) \in 0..Cardinality(S) /\ Len(Layers(S)[Height(S)]) = 1
        /\ Layer(Layers(S)[Height(S)])
    BY HeightDef, LayersShrink
  <2>2. 1 \in DOMAIN Layers(S)[Height(S)]
    BY <2>1 DEF Layer
  <2> QED
    BY <2>1, <2>2 DEF Nodes, getHexRoot
<1>3. ASSUME NEW a, NEW b, Pair(a, b) \in Nodes(S) PROVE a \in Nodes(S) /\ b \in Nodes(S)
  BY <1>1, <1>3, NodesDiffer
<1>4. ASSUME NEW x, Leaf(x) \in Nodes(S) PROVE x \in S
  BY <1>1, <1>4, NodesDiffer
<1>5. EmptyRoot \notin Nodes(S)
  BY <1>1, NodesDiffer
<1> QED
  BY <1>2, <1>3, <1>4, <1>5

\* No two sets of leaves have the same root, so a root that is registered
\* on-chain commits the backend to its leaves.
THEOREM RootsDiffer ==
  ASSUME NEW S, HashSet(S), NEW T, HashSet(T), getHexRoot(S) = getHexRoot(T)
  PROVE  S = T
<1>1. ASSUME NEW U, HashSet(U), U # {} PROVE getHexRoot(U) # EmptyRoot
  BY <1>1, NodesClosed
<1>2. getHexRoot({}) = EmptyRoot
  BY DEF getHexRoot
<1>3. S = {} <=> T = {}
  BY <1>1, <1>2
<1>4. ASSUME NEW U, HashSet(U), U # {}, NEW W, HashSet(W), W # {},
             getHexRoot(U) = getHexRoot(W)
      PROVE  U \subseteq W
  BY <1>4, NodesClosed, DownTheTree
<1>5. CASE S # {} /\ T # {}
  BY <1>4, <1>5
<1> QED
  BY <1>3, <1>5

\* Whatever nodes are put forward as a proof, the contract accepts them only
\* for a leaf of the tree: a report outside it never passes for one of its
\* reports.
THEOREM TreeRefuses ==
  ASSUME NEW S, HashSet(S), NEW x, NEW p, Len(p) \in Nat,
         Verifies(p, x, getHexRoot(S))
  PROVE  x \in S
<1> DEFINE n == Len(p)
           D == {j \in Nat : j <= n => Ascent(p, x)[n - j] \in Nodes(S)}
<1>1. /\ Ascent(p, x)[0] = Leaf(x)
      /\ \A k \in 1..n : Ascent(p, x)[k] = Pair(Ascent(p, x)[k - 1], p[k])
      /\ Ascent(p, x)[n] = getHexRoot(S)
  BY AscentDef DEF Verifies
<1>2. S # {}
  <2>1. getHexRoot({}) = EmptyRoot
    BY DEF getHexRoot
  <2>2. \E a, b : getHexRoot(S) = Leaf(x) \/ getHexRoot(S) = Pair(a, b)
    BY <1>1
  <2> QED
    BY <2>1, <2>2, NodesDiffer
<1>3. 0 \in D
  BY <1>1, <1>2, NodesClosed
<1>4. ASSUME NEW j \in Nat, j \in D PROVE j + 1 \in D
  <2> SUFFICES ASSUME j + 1 <= n PROVE Ascent(p, x)[n - (j + 1)] \in Nodes(S)
    OBVIOUS
  <2>1. n - j \in 1..n /\ (n - j) - 1 = n - (j + 1) /\ Ascent(p, x)[n - j] \in Nodes(S)
    BY <1>4
  <2>2. Ascent(p, x)[n - j] = Pair(Ascent(p, x)[n - (j + 1)], p[n - j])
    BY <1>1, <2>1
  <2> QED
    BY <1>2, <2>1, <2>2, NodesClosed
<1>5. n \in D
  <2> HIDE DEF D
  <2> QED
    BY <1>3, <1>4, SetInduction
<1>6. Leaf(x) \in Nodes(S)
  <2>1. n - n = 0
    OBVIOUS
  <2> QED
    BY <1>1, <1>5, <2>1
<1> QED
  BY <1>2, <1>6, NodesClosed
=============================================================================
