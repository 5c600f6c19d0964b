-------------------------- MODULE MerkleTreeProofs --------------------------
(***************************************************************************)
(* Proofs about MerkleTree, for a tree of any depth: the incremental root  *)
(* of the contract is the root that every client rebuilds, as long as the  *)
(* leaves are discarded oldest first.                                      *)
(***************************************************************************)
EXTENDS MerkleTree, FiniteSets, FiniteSetTheorems, TLAPS

-----------------------------------------------------------------------------
(* Induction, from the pigeonhole principle: the library states it for an  *)
(* operator, here it is needed for a set.                                  *)

\* A set that has 0 and, with a number, the next one, has every number.
LEMMA SetInduction ==
  ASSUME NEW T, 0 \in T, \A n \in T \cap Nat : n + 1 \in T
  PROVE  Nat \subseteq T
<1> SUFFICES ASSUME NEW m \in Nat, m \notin T PROVE FALSE
  OBVIOUS
<1> DEFINE S == T \cap (0 .. m)
           f == [k \in S |-> k + 1]
<1>1. IsFiniteSet(S) /\ 0 \in S
  <2>1. IsFiniteSet(0 .. m)
    BY FS_Interval
  <2> QED BY <2>1, FS_Subset
<1>2. IsFiniteSet(S \ {0}) /\ Cardinality(S \ {0}) < Cardinality(S)
  <2>1. Cardinality(S) \in Nat
    BY <1>1, FS_CardinalityType
  <2>2. IsFiniteSet(S \ {0}) /\ Cardinality(S \ {0}) = Cardinality(S) - 1
    BY <1>1, FS_RemoveElement
  <2> HIDE DEF S
  <2> QED BY <2>1, <2>2
<1>3. f \in [S -> S \ {0}]
  <2> SUFFICES ASSUME NEW k \in S PROVE k + 1 \in S \ {0}
    OBVIOUS
  <2> QED OBVIOUS
<1>4. PICK x \in S, y \in S : x # y /\ f[x] = f[y]
  <2> HIDE DEF S, f
  <2> QED BY <1>1, <1>2, <1>3, FS_PigeonHole
<1> QED BY <1>4

\* Induction over the levels, from the leaves up to m.
LEMMA UpInduction ==
  ASSUME NEW m \in Nat, NEW T, 0 \in T,
         \A i \in 0 .. m - 1 : i \in T => i + 1 \in T
  PROVE  \A i \in 0 .. m : i \in T
<1> DEFINE S == {n \in Nat : n <= m => n \in T}
<1>1. 0 \in S
  OBVIOUS
<1>2. \A n \in S \cap Nat : n + 1 \in S
  OBVIOUS
<1>3. Nat \subseteq S
  <2> HIDE DEF S
  <2> QED BY <1>1, <1>2, SetInduction
<1> QED BY <1>3

\* Induction over the levels, from m down to the leaves.
LEMMA DownInduction ==
  ASSUME NEW m \in Nat, NEW T, m \in T,
         \A i \in 0 .. m - 1 : i + 1 \in T => i \in T
  PROVE  \A i \in 0 .. m : i \in T
<1> DEFINE S == {n \in Nat : n <= m => m - n \in T}
<1>1. 0 \in S
  OBVIOUS
<1>2. \A n \in S \cap Nat : n + 1 \in S
  <2> SUFFICES ASSUME NEW n \in Nat, n + 1 <= m, m - n \in T
               PROVE  m - (n + 1) \in T
    OBVIOUS
  <2>1. m - (n + 1) \in 0 .. m - 1 /\ (m - (n + 1)) + 1 = m - n
    OBVIOUS
  <2> QED BY <2>1
<1>3. Nat \subseteq S
  <2> HIDE DEF S
  <2> QED BY <1>1, <1>2, SetInduction
<1>4. ASSUME NEW i \in 0 .. m PROVE i \in T
  <2>1. m - i \in S /\ m - i <= m
    BY <1>3
  <2>2. m - (m - i) = i
    OBVIOUS
  <2> QED BY <2>1, <2>2
<1> QED BY <1>4

-----------------------------------------------------------------------------
(* The recursive functions of the model are what their definitions say:    *)
(* each one exists, level by level, so the choice of one is one.           *)

\* Powers of two.
LEMMA TwoToDef ==
  /\ TwoTo[0] = 1
  /\ \A i \in 0 .. Depth - 1 : TwoTo[i + 1] = 2 * TwoTo[i]
<1> DEFINE base == 1
           Step(i, v) == 2 * v
           Upto(g, n) == g = [i \in 0 .. n |-> IF i = 0 THEN base ELSE Step(i - 1, g[i - 1])]
           T == {n \in Nat : \E g : Upto(g, n)}
           f == TwoTo
<1>1. f = CHOOSE g : Upto(g, Depth)
  BY Zenon DEF TwoTo
<1> HIDE DEF base, Step, f
<1>2. 0 \in T
  <2>1. Upto([i \in 0 .. 0 |-> base], 0)
    OBVIOUS
  <2> QED BY <2>1
<1>3. ASSUME NEW n \in Nat, n \in T PROVE n + 1 \in T
  <2>1. PICK g : Upto(g, n)
    BY <1>3
  <2> DEFINE h == [i \in 0 .. n + 1 |-> IF i = 0 THEN base ELSE Step(i - 1, g[i - 1])]
  <2>2. \A i \in 1 .. n + 1 : h[i - 1] = g[i - 1]
    BY <2>1
  <2>3. \A i \in 0 .. n + 1 : h[i] = IF i = 0 THEN base ELSE Step(i - 1, h[i - 1])
    <3>1. h[0] = base
      OBVIOUS
    <3>2. ASSUME NEW i \in 1 .. n + 1 PROVE h[i] = Step(i - 1, h[i - 1])
      <4>1. h[i - 1] = g[i - 1]
        BY <2>2
      <4>2. h[i] = Step(i - 1, g[i - 1])
        OBVIOUS
      <4> HIDE DEF h
      <4> QED BY <4>1, <4>2
    <3> HIDE DEF h
    <3> QED BY <3>1, <3>2
  <2>4. h = [i \in 0 .. n + 1 |-> h[i]]
    OBVIOUS
  <2> HIDE DEF h
  <2>5. h = [i \in 0 .. n + 1 |-> IF i = 0 THEN base ELSE Step(i - 1, h[i - 1])]
    BY <2>3, <2>4
  <2> QED BY <2>5
<1>4. \E g : Upto(g, Depth)
  <2> HIDE DEF T
  <2>1. Nat \subseteq T
    BY <1>2, <1>3, SetInduction
  <2> QED BY <2>1, InitRequires DEF T
<1>5. Upto(f, Depth)
  <2> HIDE DEF Upto
  <2> QED BY <1>1, <1>4, Zenon
<1>6. f[0] = base /\ \A i \in 0 .. Depth - 1 : f[i + 1] = Step(i, f[i])
  BY <1>5, InitRequires
<1> QED BY <1>6 DEF base, Step, f

\* The nodes of an empty tree.
LEMMA DefaultZeroDef ==
  /\ DefaultZero[0] = Zero
  /\ \A i \in 0 .. Depth - 1 : DefaultZero[i + 1] = Hash(DefaultZero[i], DefaultZero[i])
<1> DEFINE base == Zero
           Step(i, v) == Hash(v, v)
           Upto(g, n) == g = [i \in 0 .. n |-> IF i = 0 THEN base ELSE Step(i - 1, g[i - 1])]
           T == {n \in Nat : \E g : Upto(g, n)}
           f == DefaultZero
<1>1. f = CHOOSE g : Upto(g, Depth)
  BY Zenon DEF DefaultZero
<1> HIDE DEF base, Step, f
<1>2. 0 \in T
  <2>1. Upto([i \in 0 .. 0 |-> base], 0)
    OBVIOUS
  <2> QED BY <2>1
<1>3. ASSUME NEW n \in Nat, n \in T PROVE n + 1 \in T
  <2>1. PICK g : Upto(g, n)
    BY <1>3
  <2> DEFINE h == [i \in 0 .. n + 1 |-> IF i = 0 THEN base ELSE Step(i - 1, g[i - 1])]
  <2>2. \A i \in 1 .. n + 1 : h[i - 1] = g[i - 1]
    BY <2>1
  <2>3. \A i \in 0 .. n + 1 : h[i] = IF i = 0 THEN base ELSE Step(i - 1, h[i - 1])
    <3>1. h[0] = base
      OBVIOUS
    <3>2. ASSUME NEW i \in 1 .. n + 1 PROVE h[i] = Step(i - 1, h[i - 1])
      <4>1. h[i - 1] = g[i - 1]
        BY <2>2
      <4>2. h[i] = Step(i - 1, g[i - 1])
        OBVIOUS
      <4> HIDE DEF h
      <4> QED BY <4>1, <4>2
    <3> HIDE DEF h
    <3> QED BY <3>1, <3>2
  <2>4. h = [i \in 0 .. n + 1 |-> h[i]]
    OBVIOUS
  <2> HIDE DEF h
  <2>5. h = [i \in 0 .. n + 1 |-> IF i = 0 THEN base ELSE Step(i - 1, h[i - 1])]
    BY <2>3, <2>4
  <2> QED BY <2>5
<1>4. \E g : Upto(g, Depth)
  <2> HIDE DEF T
  <2>1. Nat \subseteq T
    BY <1>2, <1>3, SetInduction
  <2> QED BY <2>1, InitRequires DEF T
<1>5. Upto(f, Depth)
  <2> HIDE DEF Upto
  <2> QED BY <1>1, <1>4, Zenon
<1>6. f[0] = base /\ \A i \in 0 .. Depth - 1 : f[i + 1] = Step(i, f[i])
  BY <1>5, InitRequires
<1> QED BY <1>6 DEF base, Step, f

\* The values that nodes have.
LEMMA NodeOfDef ==
  /\ NodeOf[0] = Leaf \cup {Zero}
  /\ \A i \in 0 .. Depth - 1 : NodeOf[i + 1] = NodeOf[i] \X NodeOf[i]
<1> DEFINE base == Leaf \cup {Zero}
           Step(i, v) == v \X v
           Upto(g, n) == g = [i \in 0 .. n |-> IF i = 0 THEN base ELSE Step(i - 1, g[i - 1])]
           T == {n \in Nat : \E g : Upto(g, n)}
           f == NodeOf
<1>1. f = CHOOSE g : Upto(g, Depth)
  BY Zenon DEF NodeOf
<1> HIDE DEF base, Step, f
<1>2. 0 \in T
  <2>1. Upto([i \in 0 .. 0 |-> base], 0)
    OBVIOUS
  <2> QED BY <2>1
<1>3. ASSUME NEW n \in Nat, n \in T PROVE n + 1 \in T
  <2>1. PICK g : Upto(g, n)
    BY <1>3
  <2> DEFINE h == [i \in 0 .. n + 1 |-> IF i = 0 THEN base ELSE Step(i - 1, g[i - 1])]
  <2>2. \A i \in 1 .. n + 1 : h[i - 1] = g[i - 1]
    BY <2>1
  <2>3. \A i \in 0 .. n + 1 : h[i] = IF i = 0 THEN base ELSE Step(i - 1, h[i - 1])
    <3>1. h[0] = base
      OBVIOUS
    <3>2. ASSUME NEW i \in 1 .. n + 1 PROVE h[i] = Step(i - 1, h[i - 1])
      <4>1. h[i - 1] = g[i - 1]
        BY <2>2
      <4>2. h[i] = Step(i - 1, g[i - 1])
        OBVIOUS
      <4> HIDE DEF h
      <4> QED BY <4>1, <4>2
    <3> HIDE DEF h
    <3> QED BY <3>1, <3>2
  <2>4. h = [i \in 0 .. n + 1 |-> h[i]]
    OBVIOUS
  <2> HIDE DEF h
  <2>5. h = [i \in 0 .. n + 1 |-> IF i = 0 THEN base ELSE Step(i - 1, h[i - 1])]
    BY <2>3, <2>4
  <2> QED BY <2>5
<1>4. \E g : Upto(g, Depth)
  <2> HIDE DEF T
  <2>1. Nat \subseteq T
    BY <1>2, <1>3, SetInduction
  <2> QED BY <2>1, InitRequires DEF T
<1>5. Upto(f, Depth)
  <2> HIDE DEF Upto
  <2> QED BY <1>1, <1>4, Zenon
<1>6. f[0] = base /\ \A i \in 0 .. Depth - 1 : f[i + 1] = Step(i, f[i])
  BY <1>5, InitRequires
<1> QED BY <1>6 DEF base, Step, f

\* The nodes on the way down from a root to a leaf.
LEMMA DescentDef ==
  ASSUME NEW root, NEW k
  PROVE  LET node == Descent(root, k)
         IN /\ node[0] = root
            /\ \A d \in 0 .. Depth - 1 : node[d + 1] = node[d][1 + Bit(k, Depth - (d + 1))]
<1> DEFINE base == root
           Step(i, v) == v[1 + Bit(k, Depth - i)]
           Upto(g, n) == g = [i \in 0 .. n |-> IF i = 0 THEN base ELSE Step(i, g[i - 1])]
           T == {n \in Nat : \E g : Upto(g, n)}
           f == Descent(root, k)
<1>1. f = CHOOSE g : Upto(g, Depth)
  BY Zenon DEF Descent
<1> HIDE DEF base, Step, f
<1>2. 0 \in T
  <2>1. Upto([i \in 0 .. 0 |-> base], 0)
    OBVIOUS
  <2> QED BY <2>1
<1>3. ASSUME NEW n \in Nat, n \in T PROVE n + 1 \in T
  <2>1. PICK g : Upto(g, n)
    BY <1>3
  <2> DEFINE h == [i \in 0 .. n + 1 |-> IF i = 0 THEN base ELSE Step(i, g[i - 1])]
  <2>2. \A i \in 1 .. n + 1 : h[i - 1] = g[i - 1]
    BY <2>1
  <2>3. \A i \in 0 .. n + 1 : h[i] = IF i = 0 THEN base ELSE Step(i, h[i - 1])
    <3>1. h[0] = base
      OBVIOUS
    <3>2. ASSUME NEW i \in 1 .. n + 1 PROVE h[i] = Step(i, h[i - 1])
      <4>1. h[i - 1] = g[i - 1]
        BY <2>2
      <4>2. h[i] = Step(i, g[i - 1])
        OBVIOUS
      <4> HIDE DEF h
      <4> QED BY <4>1, <4>2
    <3> HIDE DEF h
    <3> QED BY <3>1, <3>2
  <2>4. h = [i \in 0 .. n + 1 |-> h[i]]
    OBVIOUS
  <2> HIDE DEF h
  <2>5. h = [i \in 0 .. n + 1 |-> IF i = 0 THEN base ELSE Step(i, h[i - 1])]
    BY <2>3, <2>4
  <2> QED BY <2>5
<1>4. \E g : Upto(g, Depth)
  <2> HIDE DEF T
  <2>1. Nat \subseteq T
    BY <1>2, <1>3, SetInduction
  <2> QED BY <2>1, InitRequires DEF T
<1>5. Upto(f, Depth)
  <2> HIDE DEF Upto
  <2> QED BY <1>1, <1>4, Zenon
<1>6. f[0] = base /\ \A i \in 0 .. Depth - 1 : f[i + 1] = Step(i + 1, f[i])
  BY <1>5, InitRequires
<1> QED BY <1>6 DEF base, Step, f

\* The index of the node over leaf n at each level.
LEMMA ShiftedDef ==
  ASSUME NEW leaf
  PROVE  /\ Shifted(leaf)[0] = leaf
         /\ \A i \in 0 .. Depth - 1 : Shifted(leaf)[i + 1] = Shifted(leaf)[i] \div 2
<1> DEFINE base == leaf
           Step(i, v) == v \div 2
           Upto(g, n) == g = [i \in 0 .. n |-> IF i = 0 THEN base ELSE Step(i - 1, g[i - 1])]
           T == {n \in Nat : \E g : Upto(g, n)}
           f == Shifted(leaf)
<1>1. f = CHOOSE g : Upto(g, Depth)
  BY Zenon DEF Shifted
<1> HIDE DEF base, Step, f
<1>2. 0 \in T
  <2>1. Upto([i \in 0 .. 0 |-> base], 0)
    OBVIOUS
  <2> QED BY <2>1
<1>3. ASSUME NEW n \in Nat, n \in T PROVE n + 1 \in T
  <2>1. PICK g : Upto(g, n)
    BY <1>3
  <2> DEFINE h == [i \in 0 .. n + 1 |-> IF i = 0 THEN base ELSE Step(i - 1, g[i - 1])]
  <2>2. \A i \in 1 .. n + 1 : h[i - 1] = g[i - 1]
    BY <2>1
  <2>3. \A i \in 0 .. n + 1 : h[i] = IF i = 0 THEN base ELSE Step(i - 1, h[i - 1])
    <3>1. h[0] = base
      OBVIOUS
    <3>2. ASSUME NEW i \in 1 .. n + 1 PROVE h[i] = Step(i - 1, h[i - 1])
      <4>1. h[i - 1] = g[i - 1]
        BY <2>2
      <4>2. h[i] = Step(i - 1, g[i - 1])
        OBVIOUS
      <4> HIDE DEF h
      <4> QED BY <4>1, <4>2
    <3> HIDE DEF h
    <3> QED BY <3>1, <3>2
  <2>4. h = [i \in 0 .. n + 1 |-> h[i]]
    OBVIOUS
  <2> HIDE DEF h
  <2>5. h = [i \in 0 .. n + 1 |-> IF i = 0 THEN base ELSE Step(i - 1, h[i - 1])]
    BY <2>3, <2>4
  <2> QED BY <2>5
<1>4. \E g : Upto(g, Depth)
  <2> HIDE DEF T
  <2>1. Nat \subseteq T
    BY <1>2, <1>3, SetInduction
  <2> QED BY <2>1, InitRequires DEF T
<1>5. Upto(f, Depth)
  <2> HIDE DEF Upto
  <2> QED BY <1>1, <1>4, Zenon
<1>6. f[0] = base /\ \A i \in 0 .. Depth - 1 : f[i + 1] = Step(i, f[i])
  BY <1>5, InitRequires
<1> QED BY <1>6 DEF base, Step, f

\* The nodes on a path.
LEMMA PathNodesDef ==
  ASSUME NEW leaf, NEW side, NEW other
  PROVE  LET hash == PathNodes(leaf, side, other)
         IN /\ hash[0] = leaf
            /\ \A i \in 0 .. Depth - 1 :
                 hash[i + 1] = IF side[i] = 0 THEN Hash(hash[i], other[i])
                                              ELSE Hash(other[i], hash[i])
<1> DEFINE base == leaf
           Step(i, v) == IF side[i] = 0 THEN Hash(v, other[i]) ELSE Hash(other[i], v)
           Upto(g, n) == g = [i \in 0 .. n |-> IF i = 0 THEN base ELSE Step(i - 1, g[i - 1])]
           T == {n \in Nat : \E g : Upto(g, n)}
           f == PathNodes(leaf, side, other)
<1>1. f = CHOOSE g : Upto(g, Depth)
  BY Zenon DEF PathNodes
<1> HIDE DEF base, Step, f
<1>2. 0 \in T
  <2>1. Upto([i \in 0 .. 0 |-> base], 0)
    OBVIOUS
  <2> QED BY <2>1
<1>3. ASSUME NEW n \in Nat, n \in T PROVE n + 1 \in T
  <2>1. PICK g : Upto(g, n)
    BY <1>3
  <2> DEFINE h == [i \in 0 .. n + 1 |-> IF i = 0 THEN base ELSE Step(i - 1, g[i - 1])]
  <2>2. \A i \in 1 .. n + 1 : h[i - 1] = g[i - 1]
    BY <2>1
  <2>3. \A i \in 0 .. n + 1 : h[i] = IF i = 0 THEN base ELSE Step(i - 1, h[i - 1])
    <3>1. h[0] = base
      OBVIOUS
    <3>2. ASSUME NEW i \in 1 .. n + 1 PROVE h[i] = Step(i - 1, h[i - 1])
      <4>1. h[i - 1] = g[i - 1]
        BY <2>2
      <4>2. h[i] = Step(i - 1, g[i - 1])
        OBVIOUS
      <4> HIDE DEF h
      <4> QED BY <4>1, <4>2
    <3> HIDE DEF h
    <3> QED BY <3>1, <3>2
  <2>4. h = [i \in 0 .. n + 1 |-> h[i]]
    OBVIOUS
  <2> HIDE DEF h
  <2>5. h = [i \in 0 .. n + 1 |-> IF i = 0 THEN base ELSE Step(i - 1, h[i - 1])]
    BY <2>3, <2>4
  <2> QED BY <2>5
<1>4. \E g : Upto(g, Depth)
  <2> HIDE DEF T
  <2>1. Nat \subseteq T
    BY <1>2, <1>3, SetInduction
  <2> QED BY <2>1, InitRequires DEF T
<1>5. Upto(f, Depth)
  <2> HIDE DEF Upto
  <2> QED BY <1>1, <1>4, Zenon
<1>6. f[0] = base /\ \A i \in 0 .. Depth - 1 : f[i + 1] = Step(i, f[i])
  BY <1>5, InitRequires
<1> QED BY <1>6 DEF base, Step, f

\* The nodes of a tree.
LEMMA TreeOverDef ==
  ASSUME NEW leaves
  PROVE  LET node == TreeOver(leaves)
         IN /\ node[0] = leaves
            /\ \A i \in 0 .. Depth - 1 :
                 node[i + 1] = [k \in 0 .. TwoTo[Depth - (i + 1)] - 1 |->
                                 Hash(node[i][2 * k], node[i][2 * k + 1])]
<1> DEFINE base == leaves
           Step(i, v) == [k \in 0 .. TwoTo[Depth - i] - 1 |-> Hash(v[2 * k], v[2 * k + 1])]
           Upto(g, n) == g = [i \in 0 .. n |-> IF i = 0 THEN base ELSE Step(i, g[i - 1])]
           T == {n \in Nat : \E g : Upto(g, n)}
           f == TreeOver(leaves)
<1>1. f = CHOOSE g : Upto(g, Depth)
  BY Zenon DEF TreeOver
<1> HIDE DEF base, Step, f
<1>2. 0 \in T
  <2>1. Upto([i \in 0 .. 0 |-> base], 0)
    OBVIOUS
  <2> QED BY <2>1
<1>3. ASSUME NEW n \in Nat, n \in T PROVE n + 1 \in T
  <2>1. PICK g : Upto(g, n)
    BY <1>3
  <2> DEFINE h == [i \in 0 .. n + 1 |-> IF i = 0 THEN base ELSE Step(i, g[i - 1])]
  <2>2. \A i \in 1 .. n + 1 : h[i - 1] = g[i - 1]
    BY <2>1
  <2>3. \A i \in 0 .. n + 1 : h[i] = IF i = 0 THEN base ELSE Step(i, h[i - 1])
    <3>1. h[0] = base
      OBVIOUS
    <3>2. ASSUME NEW i \in 1 .. n + 1 PROVE h[i] = Step(i, h[i - 1])
      <4>1. h[i - 1] = g[i - 1]
        BY <2>2
      <4>2. h[i] = Step(i, g[i - 1])
        OBVIOUS
      <4> HIDE DEF h
      <4> QED BY <4>1, <4>2
    <3> HIDE DEF h
    <3> QED BY <3>1, <3>2
  <2>4. h = [i \in 0 .. n + 1 |-> h[i]]
    OBVIOUS
  <2> HIDE DEF h
  <2>5. h = [i \in 0 .. n + 1 |-> IF i = 0 THEN base ELSE Step(i, h[i - 1])]
    BY <2>3, <2>4
  <2> QED BY <2>5
<1>4. \E g : Upto(g, Depth)
  <2> HIDE DEF T
  <2>1. Nat \subseteq T
    BY <1>2, <1>3, SetInduction
  <2> QED BY <2>1, InitRequires DEF T
<1>5. Upto(f, Depth)
  <2> HIDE DEF Upto
  <2> QED BY <1>1, <1>4, Zenon
<1>6. f[0] = base /\ \A i \in 0 .. Depth - 1 : f[i + 1] = Step(i + 1, f[i])
  BY <1>5, InitRequires
<1> QED BY <1>6 DEF base, Step, f

\* The index gathered from the sides of a path.
LEMMA GatheredDef ==
  ASSUME NEW side
  PROVE  /\ Gathered(side)[0] = 0
         /\ \A i \in 0 .. Depth - 1 :
              Gathered(side)[i + 1] = Gathered(side)[i] + side[i] * TwoTo[i]
<1> DEFINE base == 0
           Step(i, v) == v + side[i] * TwoTo[i]
           Upto(g, n) == g = [i \in 0 .. n |-> IF i = 0 THEN base ELSE Step(i - 1, g[i - 1])]
           T == {n \in Nat : \E g : Upto(g, n)}
           f == Gathered(side)
<1>1. f = CHOOSE g : Upto(g, Depth)
  BY Zenon DEF Gathered
<1> HIDE DEF base, Step, f
<1>2. 0 \in T
  <2>1. Upto([i \in 0 .. 0 |-> base], 0)
    OBVIOUS
  <2> QED BY <2>1
<1>3. ASSUME NEW n \in Nat, n \in T PROVE n + 1 \in T
  <2>1. PICK g : Upto(g, n)
    BY <1>3
  <2> DEFINE h == [i \in 0 .. n + 1 |-> IF i = 0 THEN base ELSE Step(i - 1, g[i - 1])]
  <2>2. \A i \in 1 .. n + 1 : h[i - 1] = g[i - 1]
    BY <2>1
  <2>3. \A i \in 0 .. n + 1 : h[i] = IF i = 0 THEN base ELSE Step(i - 1, h[i - 1])
    <3>1. h[0] = base
      OBVIOUS
    <3>2. ASSUME NEW i \in 1 .. n + 1 PROVE h[i] = Step(i - 1, h[i - 1])
      <4>1. h[i - 1] = g[i - 1]
        BY <2>2
      <4>2. h[i] = Step(i - 1, g[i - 1])
        OBVIOUS
      <4> HIDE DEF h
      <4> QED BY <4>1, <4>2
    <3> HIDE DEF h
    <3> QED BY <3>1, <3>2
  <2>4. h = [i \in 0 .. n + 1 |-> h[i]]
    OBVIOUS
  <2> HIDE DEF h
  <2>5. h = [i \in 0 .. n + 1 |-> IF i = 0 THEN base ELSE Step(i - 1, h[i - 1])]
    BY <2>3, <2>4
  <2> QED BY <2>5
<1>4. \E g : Upto(g, Depth)
  <2> HIDE DEF T
  <2>1. Nat \subseteq T
    BY <1>2, <1>3, SetInduction
  <2> QED BY <2>1, InitRequires DEF T
<1>5. Upto(f, Depth)
  <2> HIDE DEF Upto
  <2> QED BY <1>1, <1>4, Zenon
<1>6. f[0] = base /\ \A i \in 0 .. Depth - 1 : f[i + 1] = Step(i, f[i])
  BY <1>5, InitRequires
<1> QED BY <1>6 DEF base, Step, f

-----------------------------------------------------------------------------
(* Numbers: powers of two, and the index of the node over a leaf.          *)

\* Powers of two are positive numbers.
LEMMA TwoToType == \A i \in 0 .. Depth : TwoTo[i] \in Nat \ {0}
<1> DEFINE T == {i \in 0 .. Depth : TwoTo[i] \in Nat \ {0}}
<1>1. 0 \in T /\ \A i \in 0 .. Depth - 1 : i \in T => i + 1 \in T
  BY TwoToDef, InitRequires
<1> HIDE DEF T
<1>2. \A i \in 0 .. Depth : i \in T
  BY <1>1, UpInduction, InitRequires
<1> QED BY <1>2 DEF T

\* The widths of two neighbouring levels.
LEMMA Width ==
  ASSUME NEW i \in Level
  PROVE  TwoTo[Depth - i] = 2 * TwoTo[Depth - (i + 1)]
<1>1. Depth - (i + 1) \in 0 .. Depth - 1 /\ (Depth - (i + 1)) + 1 = Depth - i
  BY InitRequires DEF Level
<1> QED BY <1>1, TwoToDef

LEMMA CapacityType == Capacity \in Nat \ {0} /\ Index = 0 .. Capacity - 1
BY TwoToType, InitRequires DEF Capacity, Index

\* The index of a node is a number, and its last bit is the side of the node.
LEMMA ShiftedType ==
  ASSUME NEW n \in Nat
  PROVE  \A i \in 0 .. Depth : Shifted(n)[i] \in Nat
<1> DEFINE T == {i \in 0 .. Depth : Shifted(n)[i] \in Nat}
<1>1. 0 \in T /\ \A i \in 0 .. Depth - 1 : i \in T => i + 1 \in T
  BY ShiftedDef, InitRequires
<1> HIDE DEF T
<1>2. \A i \in 0 .. Depth : i \in T
  BY <1>1, UpInduction, InitRequires
<1> QED BY <1>2 DEF T

LEMMA ShiftedStep ==
  ASSUME NEW n \in Nat, NEW i \in Level
  PROVE  /\ Shifted(n)[i] \in Nat /\ Shifted(n)[i + 1] \in Nat
         /\ Bit(n, i) \in {0, 1}
         /\ Shifted(n)[i] = 2 * Shifted(n)[i + 1] + Bit(n, i)
<1>1. i \in 0 .. Depth /\ i + 1 \in 0 .. Depth /\ i \in 0 .. Depth - 1
  BY InitRequires DEF Level
<1>2. Shifted(n)[i] \in Nat /\ Shifted(n)[i + 1] \in Nat
  BY <1>1, ShiftedType
<1>3. Shifted(n)[i + 1] = Shifted(n)[i] \div 2
  BY <1>1, ShiftedDef
<1> QED BY <1>2, <1>3 DEF Bit

\* The node over a leaf of the tree is a node of the tree; at the top it is the root.
LEMMA ShiftedBound ==
  ASSUME NEW k \in Index
  PROVE  /\ \A i \in 0 .. Depth : Shifted(k)[i] \in 0 .. TwoTo[Depth - i] - 1
         /\ Shifted(k)[Depth] = 0
<1> DEFINE T == {i \in 0 .. Depth : Shifted(k)[i] \in 0 .. TwoTo[Depth - i] - 1}
<1>0. k \in Nat
  BY CapacityType
<1>1. 0 \in T
  BY ShiftedDef, InitRequires DEF Index, Capacity
<1>2. ASSUME NEW i \in 0 .. Depth - 1, i \in T PROVE i + 1 \in T
  <2>1. i \in Level /\ Depth - (i + 1) \in 0 .. Depth /\ i + 1 \in 0 .. Depth
    BY InitRequires DEF Level
  <2>2. TwoTo[Depth - i] = 2 * TwoTo[Depth - (i + 1)] /\ TwoTo[Depth - (i + 1)] \in Nat
    BY <2>1, Width, TwoToType
  <2>3. Shifted(k)[i] \in 0 .. TwoTo[Depth - i] - 1
    BY <1>2
  <2>4. Shifted(k)[i + 1] \in 0 .. TwoTo[Depth - (i + 1)] - 1
    BY <1>0, <2>1, <2>2, <2>3, ShiftedStep
  <2> QED BY <2>1, <2>4
<1>3. \A i \in 0 .. Depth : i \in T
  <2> HIDE DEF T
  <2> QED BY <1>1, <1>2, UpInduction, InitRequires
<1>4. Depth \in T /\ Depth - Depth = 0 /\ TwoTo[0] = 1
  BY <1>3, TwoToDef, InitRequires
<1>5. Shifted(k)[Depth] \in 0 .. TwoTo[0] - 1
  BY <1>4
<1> QED BY <1>3, <1>4, <1>5

\* Nodes are in the order of the leaves under them.
LEMMA ShiftedMonotone ==
  ASSUME NEW m \in Nat, NEW n \in Nat, m <= n
  PROVE  \A i \in 0 .. Depth : Shifted(m)[i] <= Shifted(n)[i]
<1> DEFINE T == {i \in 0 .. Depth : Shifted(m)[i] <= Shifted(n)[i]}
<1>1. 0 \in T
  BY ShiftedDef, InitRequires
<1>2. ASSUME NEW i \in 0 .. Depth - 1, i \in T PROVE i + 1 \in T
  <2>1. i \in Level /\ i + 1 \in 0 .. Depth /\ Shifted(m)[i] <= Shifted(n)[i]
    BY <1>2, InitRequires DEF Level
  <2>2. Shifted(m)[i + 1] <= Shifted(n)[i + 1]
    BY <2>1, ShiftedStep
  <2> QED BY <2>1, <2>2
<1>3. \A i \in 0 .. Depth : i \in T
  <2> HIDE DEF T
  <2> QED BY <1>1, <1>2, UpInduction, InitRequires
<1> QED BY <1>3

\* The node over the next leaf is the same node or the next one.
LEMMA ShiftedNext ==
  ASSUME NEW n \in Nat
  PROVE  \A i \in 0 .. Depth : Shifted(n + 1)[i] \in {Shifted(n)[i], Shifted(n)[i] + 1}
<1> DEFINE T == {i \in 0 .. Depth : Shifted(n + 1)[i] \in {Shifted(n)[i], Shifted(n)[i] + 1}}
<1>1. 0 \in T
  BY ShiftedDef, InitRequires
<1>2. ASSUME NEW i \in 0 .. Depth - 1, i \in T PROVE i + 1 \in T
  <2>1. i \in Level /\ i + 1 \in 0 .. Depth
        /\ Shifted(n + 1)[i] \in {Shifted(n)[i], Shifted(n)[i] + 1}
    BY <1>2, InitRequires DEF Level
  <2>2. /\ Shifted(n)[i] = 2 * Shifted(n)[i + 1] + Bit(n, i)
        /\ Bit(n, i) \in {0, 1} /\ Shifted(n)[i + 1] \in Nat
    BY <2>1, ShiftedStep
  <2>3. /\ Shifted(n + 1)[i] = 2 * Shifted(n + 1)[i + 1] + Bit(n + 1, i)
        /\ Bit(n + 1, i) \in {0, 1} /\ Shifted(n + 1)[i + 1] \in Nat
    BY <2>1, ShiftedStep
  <2>4. \A s, t \in Nat, b, c \in {0, 1} :
          2 * t + c \in {2 * s + b, 2 * s + b + 1} => t \in {s, s + 1}
    OBVIOUS
  <2>5. Shifted(n + 1)[i + 1] \in {Shifted(n)[i + 1], Shifted(n)[i + 1] + 1}
    BY <2>1, <2>2, <2>3, <2>4
  <2> QED BY <2>1, <2>5
<1>3. \A i \in 0 .. Depth : i \in T
  <2> HIDE DEF T
  <2> QED BY <1>1, <1>2, UpInduction, InitRequires
<1> QED BY <1>3

\* There is a leaf under every node.
LEMMA LeafBelow ==
  ASSUME NEW i \in 0 .. Depth, NEW a \in 0 .. TwoTo[Depth - i] - 1
  PROVE  \E x \in Index : Shifted(x)[i] = a
<1> DEFINE T == {l \in 0 .. Depth : \A b \in 0 .. TwoTo[Depth - l] - 1 :
                                      \E x \in Index : Shifted(x)[l] = b}
<1>1. 0 \in T
  BY ShiftedDef, InitRequires DEF Index, Capacity
<1>2. ASSUME NEW l \in 0 .. Depth - 1, l \in T PROVE l + 1 \in T
  <2> SUFFICES ASSUME NEW b \in 0 .. TwoTo[Depth - (l + 1)] - 1
               PROVE  \E x \in Index : Shifted(x)[l + 1] = b
    BY InitRequires
  <2>1. l \in Level /\ Depth - (l + 1) \in 0 .. Depth /\ l + 1 \in 0 .. Depth
    BY InitRequires DEF Level
  <2>2. TwoTo[Depth - l] = 2 * TwoTo[Depth - (l + 1)] /\ TwoTo[Depth - (l + 1)] \in Nat
    BY <2>1, Width, TwoToType
  <2>3. 2 * b \in 0 .. TwoTo[Depth - l] - 1
    BY <2>2
  <2>4. PICK x \in Index : Shifted(x)[l] = 2 * b
    BY <1>2, <2>3
  <2>5. x \in Nat
    BY CapacityType
  <2>6. /\ Shifted(x)[l] = 2 * Shifted(x)[l + 1] + Bit(x, l)
        /\ Bit(x, l) \in {0, 1} /\ Shifted(x)[l + 1] \in Nat
    BY <2>1, <2>5, ShiftedStep
  <2>7. b \in Nat
    BY <2>2
  <2>8. Shifted(x)[l + 1] = b
    BY <2>4, <2>6, <2>7
  <2> QED BY <2>8
<1>3. \A l \in 0 .. Depth : l \in T
  <2> HIDE DEF T
  <2> QED BY <1>1, <1>2, UpInduction, InitRequires
<1> QED BY <1>3

\* The contract gathers the index of a leaf from the sides of its path.
LEMMA GatheredIsIndex ==
  ASSUME NEW k \in Index
  PROVE  Gathered(Bits(k))[Depth] = k
<1> DEFINE g == Gathered(Bits(k))
           T == {i \in 0 .. Depth : g[i] \in Nat /\ g[i] + TwoTo[i] * Shifted(k)[i] = k}
<1> HIDE DEF g
<1>0. k \in Nat
  BY CapacityType
<1>1. 0 \in T
  BY <1>0, GatheredDef, ShiftedDef, TwoToDef, InitRequires DEF g
<1>2. ASSUME NEW i \in 0 .. Depth - 1, i \in T PROVE i + 1 \in T
  <2>1. i \in Level /\ i + 1 \in 0 .. Depth /\ i \in 0 .. Depth
    BY InitRequires DEF Level
  <2>2. Bits(k)[i] = Bit(k, i)
    BY <2>1 DEF Bits
  <2>3. g[i + 1] = g[i] + Bit(k, i) * TwoTo[i]
    BY <2>2, GatheredDef DEF g
  <2>4. /\ Bit(k, i) \in {0, 1}
        /\ Shifted(k)[i] = 2 * Shifted(k)[i + 1] + Bit(k, i)
        /\ Shifted(k)[i + 1] \in Nat
    BY <1>0, <2>1, ShiftedStep
  <2>5. TwoTo[i] \in Nat /\ TwoTo[i + 1] = 2 * TwoTo[i]
    BY <2>1, TwoToType, TwoToDef
  <2>6. g[i] \in Nat /\ g[i] + TwoTo[i] * Shifted(k)[i] = k
    BY <1>2
  <2>7. \A t, s \in Nat : (2 * t) * s = t * (2 * s) /\ t * (2 * s + 1) = t * (2 * s) + t
    OBVIOUS
  <2>8. CASE Bit(k, i) = 0
    <3>1. g[i + 1] = g[i] /\ Shifted(k)[i] = 2 * Shifted(k)[i + 1]
      BY <2>3, <2>4, <2>5, <2>6, <2>8
    <3> QED BY <2>1, <2>4, <2>5, <2>6, <2>7, <3>1
  <2>9. CASE Bit(k, i) = 1
    <3>1. g[i + 1] = g[i] + TwoTo[i] /\ Shifted(k)[i] = 2 * Shifted(k)[i + 1] + 1
      BY <2>3, <2>4, <2>5, <2>6, <2>9
    <3>2. TwoTo[i] * Shifted(k)[i] = TwoTo[i + 1] * Shifted(k)[i + 1] + TwoTo[i]
      BY <2>4, <2>5, <2>7, <3>1
    <3>3. TwoTo[i + 1] * Shifted(k)[i + 1] \in Nat
      BY <2>4, <2>5
    <3> QED BY <2>1, <2>5, <2>6, <3>1, <3>2, <3>3
  <2> QED BY <2>4, <2>8, <2>9
<1>3. \A i \in 0 .. Depth : i \in T
  <2> HIDE DEF T
  <2> QED BY <1>1, <1>2, UpInduction, InitRequires
<1>4. g[Depth] \in Nat /\ g[Depth] + TwoTo[Depth] * 0 = k
  BY <1>3, ShiftedBound, InitRequires
<1> QED BY <1>4, TwoToType, InitRequires DEF g


-----------------------------------------------------------------------------
(* Trees: half as many nodes at each level, each the hash of its children. *)

NodesAt(i) == 0 .. TwoTo[Depth - i] - 1

\* The children of a node are nodes of the level below.
LEMMA Children ==
  ASSUME NEW f, NEW i \in Level, NEW k \in NodesAt(i + 1)
  PROVE  /\ 2 * k \in NodesAt(i) /\ 2 * k + 1 \in NodesAt(i)
         /\ TreeOver(f)[i + 1][k] = Hash(TreeOver(f)[i][2 * k], TreeOver(f)[i][2 * k + 1])
<1>1. /\ TwoTo[Depth - i] = 2 * TwoTo[Depth - (i + 1)]
      /\ TwoTo[Depth - (i + 1)] \in Nat
  BY Width, TwoToType, InitRequires DEF Level
<1>2. 2 * k \in NodesAt(i) /\ 2 * k + 1 \in NodesAt(i)
  BY <1>1 DEF NodesAt
<1>3. i \in 0 .. Depth - 1
  BY DEF Level
<1>4. TreeOver(f)[i + 1] = [n \in NodesAt(i + 1) |-> Hash(TreeOver(f)[i][2 * n], TreeOver(f)[i][2 * n + 1])]
  BY <1>3, TreeOverDef DEF NodesAt
<1> QED BY <1>2, <1>4

\* The node over leaf x, its sibling and their parent.
LEMMA Sides ==
  ASSUME NEW x \in Index, NEW i \in Level
  PROVE  LET s == Shifted(x)[i + 1]
         IN /\ s \in NodesAt(i + 1)
            /\ Bits(x)[i] = Bit(x, i) /\ Bit(x, i) \in {0, 1}
            /\ Bit(x, i) = 0 => Shifted(x)[i] = 2 * s /\ Sibling(Shifted(x)[i]) = 2 * s + 1
            /\ Bit(x, i) = 1 => Shifted(x)[i] = 2 * s + 1 /\ Sibling(Shifted(x)[i]) = 2 * s
<1>1. x \in Nat /\ i + 1 \in 0 .. Depth
  BY CapacityType, InitRequires DEF Level
<1>2. Shifted(x)[i + 1] \in NodesAt(i + 1)
  BY <1>1, ShiftedBound DEF NodesAt
<1>3. /\ Shifted(x)[i] \in Nat /\ Shifted(x)[i + 1] \in Nat
      /\ Bit(x, i) \in {0, 1}
      /\ Shifted(x)[i] = 2 * Shifted(x)[i + 1] + Bit(x, i)
  BY <1>1, ShiftedStep
<1>4. \A s \in Nat : (2 * s) % 2 = 0 /\ (2 * s + 1) % 2 = 1
  OBVIOUS
<1>5. ASSUME Bit(x, i) = 0
      PROVE  Shifted(x)[i] = 2 * Shifted(x)[i + 1]
             /\ Sibling(Shifted(x)[i]) = 2 * Shifted(x)[i + 1] + 1
  BY <1>3, <1>4, <1>5 DEF Sibling
<1>6. ASSUME Bit(x, i) = 1
      PROVE  Shifted(x)[i] = 2 * Shifted(x)[i + 1] + 1
             /\ Sibling(Shifted(x)[i]) = 2 * Shifted(x)[i + 1]
  BY <1>3, <1>4, <1>6 DEF Sibling
<1>7. Bits(x)[i] = Bit(x, i)
  BY DEF Bits
<1> QED BY <1>2, <1>3, <1>5, <1>6, <1>7

\* A change of one leaf changes no node but those over the leaf.
LEMMA TreeChange ==
  ASSUME NEW f, NEW g, NEW x \in Index, \A k \in Index : k # x => f[k] = g[k]
  PROVE  \A i \in 0 .. Depth : \A k \in NodesAt(i) :
           k # Shifted(x)[i] => TreeOver(f)[i][k] = TreeOver(g)[i][k]
<1> DEFINE Same(i) == \A k \in NodesAt(i) :
                        k # Shifted(x)[i] => TreeOver(f)[i][k] = TreeOver(g)[i][k]
           T == {i \in 0 .. Depth : Same(i)}
<1>1. 0 \in T
  BY TreeOverDef, ShiftedDef, InitRequires DEF NodesAt, Index, Capacity
<1>2. ASSUME NEW i \in 0 .. Depth - 1, i \in T PROVE i + 1 \in T
  <2>1. i \in Level /\ i + 1 \in 0 .. Depth
    BY InitRequires DEF Level
  <2> SUFFICES ASSUME NEW k \in NodesAt(i + 1), k # Shifted(x)[i + 1]
               PROVE  TreeOver(f)[i + 1][k] = TreeOver(g)[i + 1][k]
    BY <2>1
  <2>2. 2 * k \in NodesAt(i) /\ 2 * k + 1 \in NodesAt(i)
    BY <2>1, Children
  <2>3. 2 * k # Shifted(x)[i] /\ 2 * k + 1 # Shifted(x)[i]
    <3>1. Shifted(x)[i] \in {2 * Shifted(x)[i + 1], 2 * Shifted(x)[i + 1] + 1}
          /\ Shifted(x)[i + 1] \in NodesAt(i + 1)
      BY <2>1, Sides
    <3>2. NodesAt(i + 1) \subseteq Nat
      BY <2>1, TwoToType, InitRequires DEF NodesAt
    <3> QED BY <3>1, <3>2
  <2>4. /\ TreeOver(f)[i][2 * k] = TreeOver(g)[i][2 * k]
        /\ TreeOver(f)[i][2 * k + 1] = TreeOver(g)[i][2 * k + 1]
    BY <1>2, <2>2, <2>3
  <2> QED BY <2>1, <2>4, Children
<1>3. \A i \in 0 .. Depth : i \in T
  <2> HIDE DEF T
  <2> QED BY <1>1, <1>2, UpInduction, InitRequires
<1> QED BY <1>3

\* The nodes to the right of the last leaf are those of the empty tree.
LEMMA TreeBeyond ==
  ASSUME NEW f, NEW n \in Index, \A k \in Index : k > n => f[k] = Zero
  PROVE  \A i \in 0 .. Depth : \A k \in NodesAt(i) :
           k > Shifted(n)[i] => TreeOver(f)[i][k] = DefaultZero[i]
<1> DEFINE Beyond(i) == \A k \in NodesAt(i) :
                          k > Shifted(n)[i] => TreeOver(f)[i][k] = DefaultZero[i]
           T == {i \in 0 .. Depth : Beyond(i)}
<1>1. 0 \in T
  BY TreeOverDef, ShiftedDef, DefaultZeroDef, InitRequires DEF NodesAt, Index, Capacity
<1>2. ASSUME NEW i \in 0 .. Depth - 1, i \in T PROVE i + 1 \in T
  <2>1. i \in Level /\ i + 1 \in 0 .. Depth
    BY InitRequires DEF Level
  <2> SUFFICES ASSUME NEW k \in NodesAt(i + 1), k > Shifted(n)[i + 1]
               PROVE  TreeOver(f)[i + 1][k] = DefaultZero[i + 1]
    BY <2>1
  <2>2. 2 * k \in NodesAt(i) /\ 2 * k + 1 \in NodesAt(i)
    BY <2>1, Children
  <2>3. 2 * k > Shifted(n)[i] /\ 2 * k + 1 > Shifted(n)[i]
    <3>1. Shifted(n)[i] \in {2 * Shifted(n)[i + 1], 2 * Shifted(n)[i + 1] + 1}
          /\ Shifted(n)[i + 1] \in NodesAt(i + 1)
      BY <2>1, Sides
    <3>2. NodesAt(i + 1) \subseteq Nat
      BY <2>1, TwoToType, InitRequires DEF NodesAt
    <3> QED BY <3>1, <3>2
  <2>4. /\ TreeOver(f)[i][2 * k] = DefaultZero[i]
        /\ TreeOver(f)[i][2 * k + 1] = DefaultZero[i]
    BY <1>2, <2>2, <2>3
  <2> QED BY <2>1, <2>4, Children, DefaultZeroDef
<1>3. \A i \in 0 .. Depth : i \in T
  <2> HIDE DEF T
  <2> QED BY <1>1, <1>2, UpInduction, InitRequires
<1> QED BY <1>3

\* The tree of a client that has seen no event.
LEMMA TreeEmpty ==
  ASSUME NEW f, \A k \in Index : f[k] = Zero
  PROVE  \A i \in 0 .. Depth : \A k \in NodesAt(i) : TreeOver(f)[i][k] = DefaultZero[i]
<1> DEFINE T == {i \in 0 .. Depth : \A k \in NodesAt(i) : TreeOver(f)[i][k] = DefaultZero[i]}
<1>1. 0 \in T
  BY TreeOverDef, DefaultZeroDef, InitRequires DEF NodesAt, Index, Capacity
<1>2. ASSUME NEW i \in 0 .. Depth - 1, i \in T PROVE i + 1 \in T
  <2>1. i \in Level /\ i + 1 \in 0 .. Depth
    BY InitRequires DEF Level
  <2> SUFFICES ASSUME NEW k \in NodesAt(i + 1)
               PROVE  TreeOver(f)[i + 1][k] = DefaultZero[i + 1]
    BY <2>1
  <2>2. 2 * k \in NodesAt(i) /\ 2 * k + 1 \in NodesAt(i)
    BY <2>1, Children
  <2>4. /\ TreeOver(f)[i][2 * k] = DefaultZero[i]
        /\ TreeOver(f)[i][2 * k + 1] = DefaultZero[i]
    BY <1>2, <2>2
  <2> QED BY <2>1, <2>4, Children, DefaultZeroDef
<1>3. \A i \in 0 .. Depth : i \in T
  <2> HIDE DEF T
  <2> QED BY <1>1, <1>2, UpInduction, InitRequires
<1> QED BY <1>3

\* A path with the siblings of the tree goes through the nodes of the tree.
LEMMA PathUp ==
  ASSUME NEW f, NEW x \in Index, NEW other,
         \A i \in Level : other[i] = TreeOver(f)[i][Sibling(Shifted(x)[i])]
  PROVE  \A i \in 0 .. Depth :
           PathNodes(f[x], Bits(x), other)[i] = TreeOver(f)[i][Shifted(x)[i]]
<1> DEFINE hash == PathNodes(f[x], Bits(x), other)
           T == {i \in 0 .. Depth : hash[i] = TreeOver(f)[i][Shifted(x)[i]]}
<1>1. /\ hash[0] = f[x]
      /\ \A i \in 0 .. Depth - 1 :
           hash[i + 1] = IF Bits(x)[i] = 0 THEN Hash(hash[i], other[i])
                                           ELSE Hash(other[i], hash[i])
  BY PathNodesDef
<1> HIDE DEF hash
<1>2. 0 \in T
  BY <1>1, TreeOverDef, ShiftedDef, InitRequires
<1>3. ASSUME NEW i \in 0 .. Depth - 1, i \in T PROVE i + 1 \in T
  <2> DEFINE s == Shifted(x)[i + 1]
  <2>1. i \in Level /\ i + 1 \in 0 .. Depth
    BY InitRequires DEF Level
  <2>2. TreeOver(f)[i + 1][s] = Hash(TreeOver(f)[i][2 * s], TreeOver(f)[i][2 * s + 1])
    BY <2>1, Sides, Children
  <2>3. hash[i] = TreeOver(f)[i][Shifted(x)[i]]
    BY <1>3
  <2>4. CASE Bit(x, i) = 0
    <3>1. hash[i + 1] = Hash(hash[i], other[i])
      BY <1>1, <2>1, <2>4, Sides
    <3>2. other[i] = TreeOver(f)[i][2 * s + 1] /\ hash[i] = TreeOver(f)[i][2 * s]
      BY <2>1, <2>3, <2>4, Sides
    <3> QED BY <2>1, <2>2, <3>1, <3>2
  <2>5. CASE Bit(x, i) = 1
    <3>1. hash[i + 1] = Hash(other[i], hash[i])
      BY <1>1, <2>1, <2>5, Sides
    <3>2. other[i] = TreeOver(f)[i][2 * s] /\ hash[i] = TreeOver(f)[i][2 * s + 1]
      BY <2>1, <2>3, <2>5, Sides
    <3> QED BY <2>1, <2>2, <3>1, <3>2
  <2> QED BY <2>1, <2>4, <2>5, Sides
<1>4. \A i \in 0 .. Depth : i \in T
  <2> HIDE DEF T
  <2> QED BY <1>2, <1>3, UpInduction, InitRequires
<1> QED BY <1>4 DEF hash

\* A path that ends in the root of a tree is a path of the tree: its leaf and its
\* siblings are the ones of the tree.
LEMMA PathDown ==
  ASSUME NEW f, NEW x \in Index, NEW leaf, NEW other,
         PathNodes(leaf, Bits(x), other)[Depth] = TreeOver(f)[Depth][0]
  PROVE  /\ leaf = f[x]
         /\ \A i \in Level : other[i] = TreeOver(f)[i][Sibling(Shifted(x)[i])]
<1> DEFINE hash == PathNodes(leaf, Bits(x), other)
           T == {i \in 0 .. Depth : hash[i] = TreeOver(f)[i][Shifted(x)[i]]}
<1>1. /\ hash[0] = leaf
      /\ \A i \in 0 .. Depth - 1 :
           hash[i + 1] = IF Bits(x)[i] = 0 THEN Hash(hash[i], other[i])
                                           ELSE Hash(other[i], hash[i])
  BY PathNodesDef
<1>2. hash[Depth] = TreeOver(f)[Depth][0]
  OBVIOUS
<1> HIDE DEF hash
<1>3. ASSUME NEW i \in Level, hash[i + 1] = TreeOver(f)[i + 1][Shifted(x)[i + 1]]
      PROVE  /\ hash[i] = TreeOver(f)[i][Shifted(x)[i]]
             /\ other[i] = TreeOver(f)[i][Sibling(Shifted(x)[i])]
  <2> DEFINE s == Shifted(x)[i + 1]
  <2>1. i \in 0 .. Depth - 1
    BY DEF Level
  <2>2. hash[i + 1] = <<TreeOver(f)[i][2 * s], TreeOver(f)[i][2 * s + 1]>>
    BY <1>3, Sides, Children DEF Hash
  <2>3. CASE Bit(x, i) = 0
    <3>1. hash[i + 1] = <<hash[i], other[i]>>
      BY <1>1, <2>1, <2>3, Sides DEF Hash
    <3>2. other[i] = TreeOver(f)[i][2 * s + 1] /\ hash[i] = TreeOver(f)[i][2 * s]
      BY <2>2, <3>1
    <3> QED BY <2>3, <3>2, Sides
  <2>4. CASE Bit(x, i) = 1
    <3>0. Bits(x)[i] = 1
      BY <2>4, Sides
    <3>1. hash[i + 1] = IF Bits(x)[i] = 0 THEN Hash(hash[i], other[i])
                                          ELSE Hash(other[i], hash[i])
      BY <1>1, <2>1
    <3>2. hash[i + 1] = <<other[i], hash[i]>>
      BY <3>0, <3>1 DEF Hash
    <3>3. other[i] = TreeOver(f)[i][2 * s] /\ hash[i] = TreeOver(f)[i][2 * s + 1]
      BY <2>2, <3>2
    <3> QED BY <2>4, <3>3, Sides
  <2> QED BY <2>3, <2>4, Sides
<1>4. Depth \in T
  BY <1>2, ShiftedBound, InitRequires
<1>5. \A i \in 0 .. Depth - 1 : i + 1 \in T => i \in T
  BY <1>3, InitRequires DEF Level
<1>6. \A i \in 0 .. Depth : i \in T
  <2> HIDE DEF T
  <2> QED BY <1>4, <1>5, DownInduction, InitRequires
<1>7. leaf = f[x]
  BY <1>1, <1>6, TreeOverDef, ShiftedDef, InitRequires
<1>8. ASSUME NEW i \in Level PROVE other[i] = TreeOver(f)[i][Sibling(Shifted(x)[i])]
  <2>1. i + 1 \in 0 .. Depth
    BY InitRequires DEF Level
  <2>2. hash[i + 1] = TreeOver(f)[i + 1][Shifted(x)[i + 1]]
    BY <1>6, <2>1
  <2> QED BY <1>3, <2>2
<1> QED BY <1>7, <1>8

\* Two equal nodes of a level have the same leaves under them.
LEMMA SameNode ==
  ASSUME NEW f
  PROVE  \A i \in 0 .. Depth : \A a, b \in NodesAt(i), x \in Index :
           TreeOver(f)[i][a] = TreeOver(f)[i][b] /\ Shifted(x)[i] = a
             => \E y \in Index : Shifted(y)[i] = b /\ f[y] = f[x]
<1> DEFINE Same(i) == \A a, b \in NodesAt(i), x \in Index :
             TreeOver(f)[i][a] = TreeOver(f)[i][b] /\ Shifted(x)[i] = a
               => \E y \in Index : Shifted(y)[i] = b /\ f[y] = f[x]
           T == {i \in 0 .. Depth : Same(i)}
<1>1. 0 \in T
  BY TreeOverDef, ShiftedDef, InitRequires DEF NodesAt, Index, Capacity
<1>2. ASSUME NEW i \in 0 .. Depth - 1, i \in T PROVE i + 1 \in T
  <2>1. i \in Level /\ i + 1 \in 0 .. Depth
    BY InitRequires DEF Level
  <2> SUFFICES ASSUME NEW a \in NodesAt(i + 1), NEW b \in NodesAt(i + 1), NEW x \in Index,
                      TreeOver(f)[i + 1][a] = TreeOver(f)[i + 1][b],
                      Shifted(x)[i + 1] = a
               PROVE  \E y \in Index : Shifted(y)[i + 1] = b /\ f[y] = f[x]
    BY <2>1
  <2>2. <<TreeOver(f)[i][2 * a], TreeOver(f)[i][2 * a + 1]>>
          = <<TreeOver(f)[i][2 * b], TreeOver(f)[i][2 * b + 1]>>
    BY <2>1, Children DEF Hash
  <2>3. /\ TreeOver(f)[i][2 * a] = TreeOver(f)[i][2 * b]
        /\ TreeOver(f)[i][2 * a + 1] = TreeOver(f)[i][2 * b + 1]
    BY <2>2
  <2>4. NodesAt(i + 1) \subseteq Nat
    BY <2>1, TwoToType, InitRequires DEF NodesAt
  <2>5. /\ 2 * a \in NodesAt(i) /\ 2 * a + 1 \in NodesAt(i)
        /\ 2 * b \in NodesAt(i) /\ 2 * b + 1 \in NodesAt(i)
    BY <2>1, Children
  <2>6. Shifted(x)[i] \in {2 * a, 2 * a + 1}
    BY <2>1, Sides
  <2>7. PICK y \in Index : Shifted(y)[i] \in {2 * b, 2 * b + 1} /\ f[y] = f[x]
    BY <1>2, <2>3, <2>5, <2>6
  <2>8. Shifted(y)[i] \in {2 * Shifted(y)[i + 1], 2 * Shifted(y)[i + 1] + 1}
        /\ Shifted(y)[i + 1] \in NodesAt(i + 1)
    BY <2>1, Sides
  <2>9. \A s, t \in Nat : {2 * s, 2 * s + 1} \cap {2 * t, 2 * t + 1} # {} => s = t
    OBVIOUS
  <2>10. Shifted(y)[i + 1] = b
    BY <2>4, <2>7, <2>8, <2>9
  <2> QED BY <2>7, <2>10
<1>3. \A i \in 0 .. Depth : i \in T
  <2> HIDE DEF T
  <2> QED BY <1>1, <1>2, UpInduction, InitRequires
<1> QED BY <1>3

-----------------------------------------------------------------------------
(* The invariant                                                           *)

\* p is a proof that was made for leaf k, when the leaf was not zero.
MadeFor(p, k) ==
  /\ p = [leaf |-> p.leaf, siblings |-> [i \in Level |-> p.siblings[i]],
          pathIndices |-> Bits(k)]
  /\ p.leaf \in Leaf

\* What every call keeps, whatever the order in which leaves are discarded: no leaf was
\* inserted twice, and the proof on its way was made for some leaf.
Shape ==
  /\ numberOfLeaves \in 0 .. Capacity
  /\ inserted \in Seq(Leaf) /\ Len(inserted) = numberOfLeaves
  /\ \A i, j \in 1 .. numberOfLeaves : inserted[i] = inserted[j] => i = j
  /\ discarded \subseteq 0 .. numberOfLeaves - 1
  /\ DOMAIN roots = Slot
  /\ DOMAIN lastSubtrees = Level /\ \A i \in Level : Len(lastSubtrees[i]) = 2
  /\ proof # NoProof => \E k \in Index : MadeFor(proof, k)

LastLeaf == IF numberOfLeaves = 0 THEN 0 ELSE numberOfLeaves - 1

\* The two nodes of a level that the contract stores are the children of the node over
\* the leaf that was inserted last, as they are now.
PairsCurrent ==
  \A i \in Level :
    LET j == Shifted(LastLeaf)[i + 1]
    IN lastSubtrees[i] = <<ClientTree[i][2 * j], ClientTree[i][2 * j + 1]>>

Inv == Shape /\ PairsCurrent /\ RootMatchesClients

\* An odd node on the path of the next insertion has the same parent as the node that is
\* over the last leaf.
LEMMA OddNext ==
  ASSUME NEW n \in Nat, NEW i \in Level, Bit(n, i) = 1
  PROVE  Shifted(IF n = 0 THEN 0 ELSE n - 1)[i + 1] = Shifted(n)[i + 1]
<1>1. CASE n = 0
  BY <1>1
<1>2. CASE n # 0
  <2> DEFINE m == n - 1
  <2>1. m \in Nat /\ n = m + 1 /\ i \in 0 .. Depth
    BY <1>2, InitRequires DEF Level
  <2> HIDE DEF m
  <2>2. Shifted(n)[i] \in {Shifted(m)[i], Shifted(m)[i] + 1}
    BY <2>1, ShiftedNext
  <2>3. /\ Shifted(m)[i] = 2 * Shifted(m)[i + 1] + Bit(m, i)
        /\ Bit(m, i) \in {0, 1} /\ Shifted(m)[i + 1] \in Nat
    BY <2>1, ShiftedStep
  <2>4. Shifted(n)[i] = 2 * Shifted(n)[i + 1] + 1 /\ Shifted(n)[i + 1] \in Nat
    BY ShiftedStep
  <2>5. Shifted(m)[i + 1] = Shifted(n)[i + 1]
    BY <2>2, <2>3, <2>4
  <2> QED BY <1>2, <2>5 DEF m
<1> QED BY <1>1, <1>2

\* The tree of the clients, in every state and in the next one.
LEMMA Client ==
  /\ ClientTree = TreeOver(ClientLeaves)
  /\ ClientTree' = TreeOver(ClientLeaves')
  /\ ClientRoot = TreeOver(ClientLeaves)[Depth][0]
  /\ ClientRoot' = TreeOver(ClientLeaves')[Depth][0]
  /\ \A k \in Index :
       /\ ClientLeaves[k] = IF k < Len(inserted) /\ k \notin discarded
                             THEN inserted[k + 1] ELSE Zero
       /\ ClientLeaves'[k] = IF k < Len(inserted') /\ k \notin discarded'
                              THEN inserted'[k + 1] ELSE Zero
BY DEF ClientTree, ClientRoot, ClientLeaves

-----------------------------------------------------------------------------
(* The steps keep the shape                                                *)

LEMMA InitShape == Init => Shape
<1> SUFFICES ASSUME Init PROVE Shape
  OBVIOUS
<1>1. numberOfLeaves \in 0 .. Capacity
  BY CapacityType DEF Init
<1>2. DOMAIN lastSubtrees = Level /\ \A i \in Level : Len(lastSubtrees[i]) = 2
  BY DEF Init
<1>3. inserted \in Seq(Leaf) /\ Len(inserted) = numberOfLeaves /\ discarded = {}
      /\ numberOfLeaves = 0 /\ proof = NoProof /\ DOMAIN roots = Slot
  BY DEF Init
<1> QED BY <1>1, <1>2, <1>3 DEF Shape

LEMMA InsertShape ==
  ASSUME Shape, NEW leaf \in Leaf, InsertFresh(leaf)
  PROVE  Shape'
<1>1. /\ numberOfLeaves \in Nat /\ numberOfLeaves < Capacity
      /\ numberOfLeaves' = numberOfLeaves + 1 /\ inserted' = Append(inserted, leaf)
      /\ discarded' = discarded /\ proof' = proof
      /\ \A i \in DOMAIN inserted : inserted[i] # leaf
  BY CapacityType DEF Shape, InsertFresh, Insert, ToSet
<1>2. inserted \in Seq(Leaf) /\ Len(inserted) = numberOfLeaves
  BY DEF Shape
<1>3. inserted' \in Seq(Leaf) /\ Len(inserted') = numberOfLeaves'
      /\ inserted'[numberOfLeaves'] = leaf
      /\ \A i \in 1 .. numberOfLeaves : inserted'[i] = inserted[i]
  BY <1>1, <1>2
<1>4. numberOfLeaves' \in 0 .. Capacity /\ discarded' \subseteq 0 .. numberOfLeaves' - 1
  BY <1>1, CapacityType DEF Shape
<1>5. ASSUME NEW i \in 1 .. numberOfLeaves', NEW j \in 1 .. numberOfLeaves',
             inserted'[i] = inserted'[j]
      PROVE  i = j
  <2>1. \A k \in 1 .. numberOfLeaves : inserted'[k] = inserted[k] /\ inserted'[k] # leaf
    BY <1>1, <1>2, <1>3
  <2>2. CASE i # numberOfLeaves' /\ j # numberOfLeaves'
    <3>1. i \in 1 .. numberOfLeaves /\ j \in 1 .. numberOfLeaves
      BY <1>1, <2>2
    <3> QED BY <1>3, <1>5, <3>1 DEF Shape
  <2>3. CASE i = numberOfLeaves' /\ j # numberOfLeaves'
    <3>1. j \in 1 .. numberOfLeaves
      BY <1>1, <2>3
    <3> QED BY <1>3, <1>5, <2>1, <2>3, <3>1
  <2>4. CASE i # numberOfLeaves' /\ j = numberOfLeaves'
    <3>1. i \in 1 .. numberOfLeaves
      BY <1>1, <2>4
    <3> QED BY <1>3, <1>5, <2>1, <2>4, <3>1
  <2> QED BY <2>2, <2>3, <2>4
<1>6. DOMAIN roots' = Slot
  BY DEF Shape, InsertFresh, Insert
<1>7. DOMAIN lastSubtrees' = Level /\ \A i \in Level : Len(lastSubtrees'[i]) = 2
  BY DEF InsertFresh, Insert
<1>8. proof' # NoProof => \E k \in Index : MadeFor(proof', k)
  BY <1>1 DEF Shape
<1> QED BY <1>3, <1>4, <1>5, <1>6, <1>7, <1>8 DEF Shape, MadeFor

LEMMA ProveShape ==
  ASSUME Shape, NEW k \in Index, Prove(k)
  PROVE  Shape'
<1>1. proof' = CreateProof(k) /\ k < Len(inserted) /\ k \notin discarded
      /\ UNCHANGED <<numberOfLeaves, lastSubtrees, roots, inserted, discarded>>
  BY DEF Prove
<1>2. CreateProof(k).leaf \in Leaf
  <2>1. CreateProof(k).leaf = TreeOver(ClientLeaves)[0][k]
    BY Client DEF CreateProof
  <2>2. TreeOver(ClientLeaves)[0][k] = inserted[k + 1]
    BY <1>1, TreeOverDef, Client
  <2>3. inserted[k + 1] \in Leaf
    BY <1>1, CapacityType DEF Shape
  <2> QED BY <2>1, <2>2, <2>3
<1>3. MadeFor(CreateProof(k), k)
  BY <1>2 DEF CreateProof, MadeFor
<1>4. MadeFor(proof', k)
  BY <1>1, <1>3
<1>5. /\ numberOfLeaves' = numberOfLeaves /\ inserted' = inserted /\ roots' = roots
      /\ discarded' = discarded /\ lastSubtrees' = lastSubtrees
  BY <1>1
<1> QED BY <1>4, <1>5 DEF Shape, MadeFor

\* update discards the leaf that the proof was made for.
LEMMA IndexOfProof ==
  ASSUME NEW p, NEW k \in Index, MadeFor(p, k)
  PROVE  UpdateIndex(p) = k
<1>1. p.pathIndices = Bits(k)
  BY DEF MadeFor
<1> QED BY <1>1, GatheredIsIndex DEF UpdateIndex

LEMMA DiscardShape ==
  ASSUME Shape, Discard
  PROVE  Shape'
<1>1. PICK k \in Index : MadeFor(proof, k)
  BY DEF Shape, Discard
<1>2. UpdateIndex(proof) = k /\ k \in Nat
  BY <1>1, IndexOfProof, CapacityType
<1>3. k < numberOfLeaves /\ discarded' = discarded \cup {k}
  BY <1>2 DEF Discard, Update, UpdateRequires
<1>4. numberOfLeaves' = numberOfLeaves /\ inserted' = inserted /\ proof' = NoProof
  BY DEF Discard, Update
<1>5. DOMAIN roots' = Slot
  BY DEF Discard, Update, UpdatedRoots
<1>6. DOMAIN lastSubtrees' = Level /\ \A i \in Level : Len(lastSubtrees'[i]) = 2
  <2>1. lastSubtrees' = [i \in Level |-> UpdatedPair(proof, i, ProofPath(proof, Zero)[i])]
    BY DEF Discard, Update
  <2>2. \A i \in Level : \A node : Len(UpdatedPair(proof, i, node)) = 2
    BY DEF Shape, UpdatedPair
  <2> QED BY <2>1, <2>2
<1>7. discarded' \subseteq 0 .. numberOfLeaves' - 1
  BY <1>2, <1>3, <1>4, CapacityType DEF Shape
<1> QED BY <1>4, <1>5, <1>6, <1>7 DEF Shape

LEMMA NextShape == Shape /\ [Next]_vars => Shape'
<1> SUFFICES ASSUME Shape, [Next]_vars PROVE Shape'
  OBVIOUS
<1>1. ASSUME NEW leaf \in Leaf, InsertFresh(leaf) PROVE Shape'
  BY <1>1, InsertShape
<1>2. ASSUME NEW k \in Index, Prove(k) PROVE Shape'
  BY <1>2, ProveShape
<1>3. CASE Discard
  BY <1>3, DiscardShape
<1>4. CASE DiscardReverts
  BY <1>4 DEF DiscardReverts, Shape
<1>5. CASE UNCHANGED vars
  BY <1>5 DEF vars, Shape, MadeFor
<1> QED BY <1>1, <1>2, <1>3, <1>4, <1>5 DEF Next

\* The variables keep their shape whatever the order of the discards.
THEOREM TypeCorrect == Spec => []TypeOK
<1>1. Shape => TypeOK
  BY DEF Shape, TypeOK, MadeFor, Bits
<1> QED BY <1>1, InitShape, NextShape, PTL DEF Spec

-----------------------------------------------------------------------------
(* The root of the contract is the root of the clients                     *)

LEMMA InitInv == Init => Inv
<1> SUFFICES ASSUME Init PROVE Inv
  OBVIOUS
<1>1. \A i \in 0 .. Depth : \A k \in NodesAt(i) : TreeOver(ClientLeaves)[i][k] = DefaultZero[i]
  <2>1. \A k \in Index : ClientLeaves[k] = Zero
    BY CapacityType, Client DEF Init
  <2> QED BY <2>1, TreeEmpty
<1>2. PairsCurrent
  <2> SUFFICES ASSUME NEW i \in Level
               PROVE  lastSubtrees[i] = <<ClientTree[i][2 * Shifted(LastLeaf)[i + 1]],
                                          ClientTree[i][2 * Shifted(LastLeaf)[i + 1] + 1]>>
    BY DEF PairsCurrent
  <2>1. i \in 0 .. Depth /\ 0 \in Index /\ LastLeaf = 0
    BY CapacityType, InitRequires DEF Level, LastLeaf, Init
  <2>2. Shifted(0)[i + 1] \in NodesAt(i + 1)
    BY <2>1, Sides
  <2>3. /\ ClientTree[i][2 * Shifted(0)[i + 1]] = DefaultZero[i]
        /\ ClientTree[i][2 * Shifted(0)[i + 1] + 1] = DefaultZero[i]
    BY <1>1, <2>1, <2>2, Children, Client
  <2>4. lastSubtrees[i] = <<DefaultZero[i], DefaultZero[i]>>
    BY DEF Init
  <2> QED BY <2>1, <2>3, <2>4
<1>3. RootMatchesClients
  <2>1. Depth \in 0 .. Depth /\ 0 \in NodesAt(Depth)
    BY InitRequires, TwoToDef DEF NodesAt
  <2>2. ClientRoot = DefaultZero[Depth]
    BY <1>1, <2>1, Client
  <2>3. LastSlot = 0 /\ LastSlot \in Slot
    BY InitRequires DEF Init, LastSlot, Slot
  <2>4. roots[LastSlot] = DefaultZero[Depth]
    BY <2>3 DEF Init
  <2> QED BY <2>2, <2>4 DEF RootMatchesClients, GetLastRoot
<1> QED BY <1>2, <1>3, InitShape DEF Inv

\* An insertion puts the leaf at the first empty place.
LEMMA InsertLeaves ==
  ASSUME Shape, NEW leaf, InsertFresh(leaf)
  PROVE  /\ numberOfLeaves \in Index
         /\ ClientLeaves'[numberOfLeaves] = leaf
         /\ \A k \in Index : k # numberOfLeaves => ClientLeaves[k] = ClientLeaves'[k]
         /\ \A k \in Index : k > numberOfLeaves => ClientLeaves'[k] = Zero
<1>1. /\ numberOfLeaves \in Nat /\ numberOfLeaves < Capacity /\ numberOfLeaves \notin discarded
      /\ inserted \in Seq(Leaf) /\ Len(inserted) = numberOfLeaves
      /\ inserted' = Append(inserted, leaf) /\ discarded' = discarded
  BY CapacityType DEF Shape, InsertFresh, Insert
<1>2. /\ Len(inserted') = numberOfLeaves + 1
      /\ inserted'[numberOfLeaves + 1] = leaf
      /\ \A i \in 1 .. numberOfLeaves : inserted'[i] = inserted[i]
  BY <1>1
<1>3. numberOfLeaves \in Index
  BY <1>1, CapacityType
<1>4. ClientLeaves'[numberOfLeaves] = leaf
  BY <1>1, <1>2, <1>3, Client
<1>5. ASSUME NEW k \in Index, k # numberOfLeaves PROVE ClientLeaves[k] = ClientLeaves'[k]
  <2>1. k \in Nat
    BY CapacityType
  <2>2. CASE k < numberOfLeaves
    BY <1>1, <1>2, <2>1, <2>2, Client
  <2>3. CASE k > numberOfLeaves
    BY <1>1, <1>2, <2>1, <2>3, Client
  <2> QED BY <1>1, <1>5, <2>1, <2>2, <2>3
<1>6. ASSUME NEW k \in Index, k > numberOfLeaves PROVE ClientLeaves'[k] = Zero
  BY <1>1, <1>2, <1>6, CapacityType, Client
<1> QED BY <1>3, <1>4, <1>5, <1>6

\* The nodes that insert computes are the nodes of the new tree over the new leaf, and
\* the node it reads from lastSubtrees is the sibling there.
LEMMA InsertNodes ==
  ASSUME Shape, PairsCurrent, NEW leaf, InsertFresh(leaf)
  PROVE  /\ \A i \in 0 .. Depth :
              InsertPath(leaf)[i] = TreeOver(ClientLeaves')[i][Shifted(numberOfLeaves)[i]]
         /\ \A i \in Level :
              TreeOver(ClientLeaves')[i][Sibling(Shifted(numberOfLeaves)[i])]
                = IF Bit(numberOfLeaves, i) = 0 THEN DefaultZero[i] ELSE lastSubtrees[i][1]
<1> DEFINE n == numberOfLeaves
           f == ClientLeaves
           g == ClientLeaves'
           other == [i \in Level |-> IF Bit(n, i) = 0 THEN DefaultZero[i]
                                                      ELSE lastSubtrees[i][1]]
<1>1. /\ n \in Index /\ g[n] = leaf
      /\ \A k \in Index : k # n => f[k] = g[k]
      /\ \A k \in Index : k > n => g[k] = Zero
  BY InsertLeaves
<1>2. n \in Nat
  BY <1>1, CapacityType
<1>3. InsertPath(leaf) = PathNodes(leaf, Bits(n), other)
  BY DEF InsertPath
<1>4. \A i \in Level : LET j == Shifted(LastLeaf)[i + 1]
                       IN lastSubtrees[i] = <<TreeOver(f)[i][2 * j], TreeOver(f)[i][2 * j + 1]>>
  BY Client DEF PairsCurrent
<1>5. LastLeaf = IF n = 0 THEN 0 ELSE n - 1
  BY DEF LastLeaf
<1> HIDE DEF n, f, g
<1>6. ASSUME NEW i \in Level
      PROVE  other[i] = TreeOver(g)[i][Sibling(Shifted(n)[i])]
  <2> DEFINE s == Shifted(n)[i + 1]
  <2>1. i \in 0 .. Depth
    BY InitRequires DEF Level
  <2>2. s \in NodesAt(i + 1) /\ Bit(n, i) \in {0, 1}
    BY <1>1, Sides
  <2>3. 2 * s \in NodesAt(i) /\ 2 * s + 1 \in NodesAt(i)
    BY <2>2, Children
  <2>4. s \in Nat
    BY <1>2, ShiftedStep
  <2>5. CASE Bit(n, i) = 0
    <3>1. Shifted(n)[i] = 2 * s /\ Sibling(Shifted(n)[i]) = 2 * s + 1
      BY <1>1, <2>5, Sides
    <3>2. 2 * s + 1 > Shifted(n)[i]
      BY <2>4, <3>1
    <3>3. TreeOver(g)[i][2 * s + 1] = DefaultZero[i]
      BY <1>1, <2>1, <2>3, <3>2, TreeBeyond
    <3> QED BY <2>5, <3>1, <3>3
  <2>6. CASE Bit(n, i) = 1
    <3>1. Shifted(n)[i] = 2 * s + 1 /\ Sibling(Shifted(n)[i]) = 2 * s
      BY <1>1, <2>6, Sides
    <3>2. Shifted(LastLeaf)[i + 1] = s
      BY <1>2, <1>5, <2>6, OddNext
    <3>3. lastSubtrees[i][1] = TreeOver(f)[i][2 * s]
      <4>1. lastSubtrees[i] = <<TreeOver(f)[i][2 * s], TreeOver(f)[i][2 * s + 1]>>
        BY <1>4, <3>2
      <4> QED BY <4>1
    <3>4. 2 * s # Shifted(n)[i]
      BY <2>4, <3>1
    <3>5. TreeOver(f)[i][2 * s] = TreeOver(g)[i][2 * s]
      BY <1>1, <2>1, <2>3, <3>4, TreeChange
    <3>6. other[i] = lastSubtrees[i][1]
      BY <2>6
    <3> QED BY <3>1, <3>3, <3>5, <3>6
  <2> QED BY <2>2, <2>5, <2>6
<1> HIDE DEF other
<1>7. \A i \in 0 .. Depth : PathNodes(g[n], Bits(n), other)[i] = TreeOver(g)[i][Shifted(n)[i]]
  BY <1>1, <1>6, PathUp
<1>8. \A i \in 0 .. Depth : InsertPath(leaf)[i] = TreeOver(g)[i][Shifted(n)[i]]
  BY <1>1, <1>3, <1>7
<1>9. \A i \in Level : TreeOver(g)[i][Sibling(Shifted(n)[i])]
                         = IF Bit(n, i) = 0 THEN DefaultZero[i] ELSE lastSubtrees[i][1]
  BY <1>6 DEF other
<1> QED BY <1>8, <1>9 DEF n, g

LEMMA InsertInv ==
  ASSUME Inv, NEW leaf \in Leaf, InsertFresh(leaf)
  PROVE  Inv'
<1> DEFINE n == numberOfLeaves
           g == ClientLeaves'
           hash == InsertPath(leaf)
<1>1. /\ \A i \in 0 .. Depth : hash[i] = TreeOver(g)[i][Shifted(n)[i]]
      /\ \A i \in Level : TreeOver(g)[i][Sibling(Shifted(n)[i])]
                            = IF Bit(n, i) = 0 THEN DefaultZero[i] ELSE lastSubtrees[i][1]
  BY InsertNodes DEF Inv
<1>2. n \in Index /\ n \in Nat
  BY InsertLeaves, CapacityType DEF Inv
<1>3. /\ lastSubtrees' = [i \in Level |-> IF Bit(n, i) = 0 THEN <<hash[i], DefaultZero[i]>>
                                                           ELSE <<lastSubtrees[i][1], hash[i]>>]
      /\ numberOfLeaves' = n + 1
      /\ roots' = [roots EXCEPT ![(n + 1) % RootHistorySize] = hash[Depth]]
  BY DEF InsertFresh, Insert
<1>4. LastLeaf' = n
  BY <1>2, <1>3 DEF LastLeaf
<1>5. ClientTree' = TreeOver(g) /\ ClientRoot' = TreeOver(g)[Depth][0]
  BY Client
<1>6. DOMAIN roots = Slot
  BY DEF Inv, Shape
<1> HIDE DEF n, g, hash
<1>7. ASSUME NEW i \in Level
      PROVE  LET j == Shifted(n)[i + 1]
             IN lastSubtrees'[i] = <<TreeOver(g)[i][2 * j], TreeOver(g)[i][2 * j + 1]>>
  <2> DEFINE s == Shifted(n)[i + 1]
  <2>1. i \in 0 .. Depth
    BY InitRequires DEF Level
  <2>2. Bit(n, i) \in {0, 1}
    BY <1>2, Sides
  <2>3. hash[i] = TreeOver(g)[i][Shifted(n)[i]]
    BY <1>1, <2>1
  <2>4. CASE Bit(n, i) = 0
    <3>1. Shifted(n)[i] = 2 * s /\ Sibling(Shifted(n)[i]) = 2 * s + 1
      BY <1>2, <2>4, Sides
    <3>2. lastSubtrees'[i] = <<hash[i], DefaultZero[i]>>
      BY <1>3, <2>4
    <3>3. TreeOver(g)[i][2 * s + 1] = DefaultZero[i]
      BY <1>1, <2>4, <3>1
    <3> QED BY <2>3, <3>1, <3>2, <3>3
  <2>5. CASE Bit(n, i) = 1
    <3>1. Shifted(n)[i] = 2 * s + 1 /\ Sibling(Shifted(n)[i]) = 2 * s
      BY <1>2, <2>5, Sides
    <3>2. lastSubtrees'[i] = <<lastSubtrees[i][1], hash[i]>>
      BY <1>3, <2>5
    <3>3. TreeOver(g)[i][2 * s] = lastSubtrees[i][1]
      BY <1>1, <2>5, <3>1
    <3> QED BY <2>3, <3>1, <3>2, <3>3
  <2> QED BY <2>2, <2>4, <2>5
<1>8. PairsCurrent'
  BY <1>4, <1>5, <1>7 DEF PairsCurrent
<1>9. RootMatchesClients'
  <2>1. LastSlot' = (n + 1) % RootHistorySize /\ (n + 1) % RootHistorySize \in Slot
    BY <1>2, <1>3, InitRequires DEF LastSlot, Slot
  <2>2. roots'[LastSlot'] = hash[Depth]
    BY <1>3, <1>6, <2>1
  <2>3. hash[Depth] = TreeOver(g)[Depth][0]
    BY <1>1, <1>2, ShiftedBound, InitRequires
  <2> QED BY <1>5, <2>2, <2>3 DEF RootMatchesClients, GetLastRoot
<1> QED BY <1>8, <1>9, InsertShape DEF Inv

\* A proof that update accepts is the one a client would build now.
LEMMA AcceptedIsCurrent ==
  ASSUME RootMatchesClients, NEW p, NEW k \in Index, MadeFor(p, k), Verify(p)
  PROVE  /\ p.leaf = ClientLeaves[k]
         /\ \A i \in Level :
              p.siblings[i] = TreeOver(ClientLeaves)[i][Sibling(Shifted(k)[i])]
         /\ p = CreateProof(k)
<1> DEFINE f == ClientLeaves
<1>1. PathNodes(p.leaf, Bits(k), p.siblings)[Depth] = TreeOver(f)[Depth][0]
  <2>1. p.pathIndices = Bits(k)
    BY DEF MadeFor
  <2> QED BY <2>1, Client DEF Verify, ProofPath, RootMatchesClients
<1> HIDE DEF f
<1>2. /\ p.leaf = f[k]
      /\ \A i \in Level : p.siblings[i] = TreeOver(f)[i][Sibling(Shifted(k)[i])]
  BY <1>1, PathDown
<1>3. TreeOver(f)[0][k] = f[k]
  BY TreeOverDef
<1>4. CreateProof(k) = [leaf |-> f[k],
                        siblings |-> [i \in Level |-> TreeOver(f)[i][Sibling(Shifted(k)[i])]],
                        pathIndices |-> Bits(k)]
  BY <1>3, Client DEF CreateProof, f
<1>5. [i \in Level |-> p.siblings[i]]
        = [i \in Level |-> TreeOver(f)[i][Sibling(Shifted(k)[i])]]
  BY <1>2
<1>6. p = CreateProof(k)
  BY <1>2, <1>4, <1>5 DEF MadeFor
<1> QED BY <1>2, <1>6 DEF f

\* A discard turns one leaf that the clients have into zero.
LEMMA DiscardLeaves ==
  ASSUME Shape, RootMatchesClients, Discard, NEW k \in Index, MadeFor(proof, k)
  PROVE  /\ k < numberOfLeaves /\ k \notin discarded /\ discarded' = discarded \cup {k}
         /\ proof.leaf = ClientLeaves[k]
         /\ ClientLeaves'[k] = Zero
         /\ \A x \in Index : x # k => ClientLeaves[x] = ClientLeaves'[x]
<1>1. UpdateIndex(proof) = k /\ k \in Nat
  BY IndexOfProof, CapacityType
<1>2. /\ k < numberOfLeaves /\ discarded' = discarded \cup {k}
      /\ inserted' = inserted /\ Verify(proof)
  BY <1>1 DEF Discard, Update, UpdateRequires
<1>3. proof.leaf = ClientLeaves[k] /\ proof.leaf # Zero
  BY <1>2, AcceptedIsCurrent, LeafNotZero DEF MadeFor
<1>4. k \notin discarded
  BY <1>3, Client
<1>5. ClientLeaves'[k] = Zero
  BY <1>2, Client
<1>6. \A x \in Index : x # k => ClientLeaves[x] = ClientLeaves'[x]
  BY <1>2, Client
<1> QED BY <1>2, <1>3, <1>4, <1>5, <1>6

\* A leaf that was not discarded is nowhere else in the tree.
LEMMA LiveLeaf ==
  ASSUME Shape, NEW x \in Index, x < numberOfLeaves, x \notin discarded,
         NEW y \in Index, ClientLeaves[y] = ClientLeaves[x]
  PROVE  y = x
<1>1. x \in Nat /\ y \in Nat /\ numberOfLeaves \in Nat
  BY CapacityType DEF Shape
<1>2. /\ inserted \in Seq(Leaf) /\ Len(inserted) = numberOfLeaves
      /\ \A i, j \in 1 .. numberOfLeaves : inserted[i] = inserted[j] => i = j
  BY DEF Shape
<1>3. ClientLeaves[x] = inserted[x + 1] /\ inserted[x + 1] \in Leaf
  BY <1>1, <1>2, Client
<1>4. y < numberOfLeaves /\ ClientLeaves[y] = inserted[y + 1]
  BY <1>2, <1>3, LeafNotZero, Client
<1> QED BY <1>1, <1>2, <1>3, <1>4

\* Off the path of the last insertion, the sibling of a node on the path of the leaf to
\* discard never has the value that the contract stores: one of the leaves under the
\* stored node, or under the sibling, is newer than every discarded leaf, and a leaf is
\* in the tree once.
LEMMA OffThePath ==
  ASSUME Shape, NEW k \in Index, k < numberOfLeaves,
         \A d \in discarded : d < k,
         NEW i \in Level,
         Shifted(k)[i + 1] # Shifted(LastLeaf)[i + 1]
  PROVE  LET a == Shifted(k)[i + 1]
             j == Shifted(LastLeaf)[i + 1]
         IN /\ Bit(k, i) = 0 => TreeOver(ClientLeaves)[i][2 * a + 1]
                                  # TreeOver(ClientLeaves)[i][2 * j + 1]
            /\ Bit(k, i) = 1 => TreeOver(ClientLeaves)[i][2 * a]
                                  # TreeOver(ClientLeaves)[i][2 * j]
<1> DEFINE f == ClientLeaves
           n == numberOfLeaves
           m == LastLeaf
           a == Shifted(k)[i + 1]
           j == Shifted(m)[i + 1]
<1>1. /\ k \in Nat /\ n \in Nat /\ m \in Nat /\ k <= m /\ m = n - 1
      /\ i \in 0 .. Depth /\ i + 1 \in 0 .. Depth /\ m \in Index
  BY CapacityType, InitRequires DEF Shape, LastLeaf, Level
<1>2. \A x \in Index : k < x /\ x <= m => x < numberOfLeaves /\ x \notin discarded
  BY <1>1, CapacityType DEF Shape
<1>3. \A x, y \in Index : k < x /\ x <= m /\ f[y] = f[x] => y = x
  BY <1>2, LiveLeaf
<1> HIDE DEF m
<1>4. /\ a \in Nat /\ j \in Nat /\ a < j
      /\ Shifted(m)[i] \in {2 * j, 2 * j + 1}
      /\ a \in NodesAt(i + 1) /\ j \in NodesAt(i + 1)
  <2>1. a <= j
    BY <1>1, ShiftedMonotone
  <2>2. a \in Nat /\ j \in Nat
    BY <1>1, ShiftedType
  <2>3. a # j
    BY DEF m
  <2>4. Shifted(m)[i] \in {2 * j, 2 * j + 1}
    BY <1>1, Sides
  <2>5. a \in NodesAt(i + 1) /\ j \in NodesAt(i + 1)
    BY <1>1, Sides
  <2> HIDE DEF a, j
  <2> QED BY <2>1, <2>2, <2>3, <2>4, <2>5
<1>5. /\ 2 * a \in NodesAt(i) /\ 2 * a + 1 \in NodesAt(i)
      /\ 2 * j \in NodesAt(i) /\ 2 * j + 1 \in NodesAt(i)
  BY <1>4, Children
<1>6. \A x \in Index : /\ Shifted(x)[i] > Shifted(k)[i] => x > k
                       /\ Shifted(x)[i] < Shifted(m)[i] => x < m
  <2> SUFFICES ASSUME NEW x \in Index
               PROVE  /\ Shifted(x)[i] > Shifted(k)[i] => x > k
                      /\ Shifted(x)[i] < Shifted(m)[i] => x < m
    OBVIOUS
  <2>1. x \in Nat
    BY CapacityType
  <2>2. Shifted(x)[i] \in Nat /\ Shifted(k)[i] \in Nat /\ Shifted(m)[i] \in Nat
    BY <1>1, <2>1, ShiftedType
  <2>3. x <= k => Shifted(x)[i] <= Shifted(k)[i]
    BY <1>1, <2>1, ShiftedMonotone
  <2>4. m <= x => Shifted(m)[i] <= Shifted(x)[i]
    BY <1>1, <2>1, ShiftedMonotone
  <2> QED BY <1>1, <2>1, <2>2, <2>3, <2>4
<1> HIDE DEF f, n, a, j
<1>7. ASSUME Bit(k, i) = 0, TreeOver(f)[i][2 * a + 1] = TreeOver(f)[i][2 * j + 1]
      PROVE  FALSE
  <2>1. Shifted(k)[i] = 2 * a
    BY <1>7, Sides DEF a
  <2>2. PICK x \in Index : Shifted(x)[i] = 2 * a + 1
    BY <1>1, <1>5, LeafBelow DEF NodesAt
  <2>3. x > k /\ x < m
    BY <1>4, <1>6, <2>1, <2>2
  <2>4. PICK y \in Index : Shifted(y)[i] = 2 * j + 1 /\ f[y] = f[x]
    BY <1>1, <1>5, <1>7, <2>2, SameNode
  <2>5. y = x
    BY <1>1, <1>3, <2>3, <2>4, CapacityType
  <2> QED BY <1>4, <2>2, <2>4, <2>5
<1>8. ASSUME Bit(k, i) = 1, TreeOver(f)[i][2 * a] = TreeOver(f)[i][2 * j]
      PROVE  FALSE
  <2>1. Shifted(k)[i] = 2 * a + 1
    BY <1>8, Sides DEF a
  <2>2. PICK x \in Index : Shifted(x)[i] = 2 * j /\ x <= m
    <3>1. CASE Shifted(m)[i] = 2 * j
      BY <1>1, <3>1
    <3>2. CASE Shifted(m)[i] = 2 * j + 1
      <4>1. PICK x \in Index : Shifted(x)[i] = 2 * j
        BY <1>1, <1>5, LeafBelow DEF NodesAt
      <4>2. x < m
        BY <1>4, <1>6, <3>2, <4>1
      <4> QED BY <1>1, <4>1, <4>2, CapacityType
    <3> QED BY <1>4, <3>1, <3>2
  <2>3. x > k
    BY <1>4, <1>6, <2>1, <2>2
  <2>4. PICK y \in Index : Shifted(y)[i] = 2 * a /\ f[y] = f[x]
    BY <1>1, <1>5, <1>8, <2>2, SameNode
  <2>5. y = x
    BY <1>3, <2>2, <2>3, <2>4
  <2> QED BY <1>4, <2>2, <2>4, <2>5
<1> QED BY <1>7, <1>8 DEF f, a, j, m

\* With the leaves discarded oldest first, update stores the new children of the node
\* over the last leaf.
LEMMA DiscardInv ==
  ASSUME Inv, Discard, OldestFirst
  PROVE  Inv'
<1>1. PICK k \in Index : MadeFor(proof, k)
  BY DEF Inv, Shape, Discard
<1> DEFINE f == ClientLeaves
           g == ClientLeaves'
           hash == ProofPath(proof, Zero)
<1>2. /\ k < numberOfLeaves /\ k \notin discarded /\ discarded' = discarded \cup {k}
      /\ g[k] = Zero /\ \A x \in Index : x # k => f[x] = g[x]
  BY <1>1, DiscardLeaves DEF Inv
<1>3. \A d \in discarded : d < k
  BY <1>2 DEF OldestFirst
<1>4. \A i \in Level : proof.siblings[i] = TreeOver(f)[i][Sibling(Shifted(k)[i])]
  BY <1>1, AcceptedIsCurrent DEF Inv, Discard, Update, UpdateRequires
<1>5. proof.pathIndices = Bits(k)
  BY <1>1 DEF MadeFor
<1>6. /\ numberOfLeaves' = numberOfLeaves /\ LastSlot' = LastSlot /\ LastLeaf' = LastLeaf
      /\ lastSubtrees' = [i \in Level |-> UpdatedPair(proof, i, hash[i])]
      /\ roots' = UpdatedRoots(hash[Depth])
  BY DEF Discard, Update, LastSlot, LastLeaf
<1>7. \A i \in Level : LET j == Shifted(LastLeaf)[i + 1]
                       IN lastSubtrees[i] = <<TreeOver(f)[i][2 * j], TreeOver(f)[i][2 * j + 1]>>
  BY Client DEF Inv, PairsCurrent
<1>8. hash = PathNodes(g[k], Bits(k), proof.siblings)
  BY <1>2, <1>5 DEF ProofPath
<1>9. LastLeaf \in Index
  BY CapacityType DEF Inv, Shape, LastLeaf
<1>10. ClientTree' = TreeOver(g) /\ ClientRoot' = TreeOver(g)[Depth][0]
  BY Client
<1>11. ASSUME NEW i \in Level, Shifted(k)[i + 1] # Shifted(LastLeaf)[i + 1]
       PROVE  LET a == Shifted(k)[i + 1]
                  j == Shifted(LastLeaf)[i + 1]
              IN /\ Bit(k, i) = 0 => TreeOver(f)[i][2 * a + 1] # TreeOver(f)[i][2 * j + 1]
                 /\ Bit(k, i) = 1 => TreeOver(f)[i][2 * a] # TreeOver(f)[i][2 * j]
  BY <1>2, <1>3, <1>11, OffThePath DEF Inv
<1>12. DOMAIN roots = Slot /\ numberOfLeaves \in Nat
  BY CapacityType DEF Inv, Shape
<1> HIDE DEF f, g, hash
<1>13. \A i \in Level : proof.siblings[i] = TreeOver(g)[i][Sibling(Shifted(k)[i])]
  <2> SUFFICES ASSUME NEW i \in Level
               PROVE  TreeOver(f)[i][Sibling(Shifted(k)[i])]
                        = TreeOver(g)[i][Sibling(Shifted(k)[i])]
    BY <1>4
  <2> DEFINE a == Shifted(k)[i + 1]
  <2>1. /\ i \in 0 .. Depth /\ Bit(k, i) \in {0, 1} /\ k \in Nat
        /\ 2 * a \in NodesAt(i) /\ 2 * a + 1 \in NodesAt(i)
    <3>1. i \in 0 .. Depth /\ k \in Nat
      BY CapacityType, InitRequires DEF Level
    <3>2. Bit(k, i) \in {0, 1} /\ a \in NodesAt(i + 1)
      BY Sides
    <3>3. 2 * a \in NodesAt(i) /\ 2 * a + 1 \in NodesAt(i)
      BY <3>2, Children
    <3> QED BY <3>1, <3>2, <3>3
  <2>2. a \in Nat
    BY <2>1, ShiftedStep
  <2>3. Sibling(Shifted(k)[i]) \in {2 * a, 2 * a + 1} /\ Sibling(Shifted(k)[i]) # Shifted(k)[i]
    BY <2>1, <2>2, Sides
  <2> QED BY <1>2, <2>1, <2>3, TreeChange
<1>14. \A i \in 0 .. Depth : hash[i] = TreeOver(g)[i][Shifted(k)[i]]
  BY <1>8, <1>13, PathUp
<1>15. ASSUME NEW i \in Level
       PROVE  LET j == Shifted(LastLeaf)[i + 1]
              IN lastSubtrees'[i] = <<TreeOver(g)[i][2 * j], TreeOver(g)[i][2 * j + 1]>>
  <2> DEFINE a == Shifted(k)[i + 1]
             j == Shifted(LastLeaf)[i + 1]
  <2>1. /\ i \in 0 .. Depth /\ Bit(k, i) \in {0, 1} /\ k \in Nat /\ LastLeaf \in Nat
        /\ 2 * j \in NodesAt(i) /\ 2 * j + 1 \in NodesAt(i)
        /\ Bits(k)[i] = Bit(k, i)
    <3>1. i \in 0 .. Depth /\ k \in Nat /\ LastLeaf \in Nat
      BY <1>9, CapacityType, InitRequires DEF Level
    <3>2. Bit(k, i) \in {0, 1} /\ Bits(k)[i] = Bit(k, i)
      BY Sides
    <3>3. j \in NodesAt(i + 1)
      BY <1>9, Sides
    <3>4. 2 * j \in NodesAt(i) /\ 2 * j + 1 \in NodesAt(i)
      BY <3>3, Children
    <3> QED BY <3>1, <3>2, <3>4
  <2>2. a \in Nat /\ j \in Nat
    BY <2>1, ShiftedStep
  <2>3. lastSubtrees'[i] = UpdatedPair(proof, i, hash[i])
    BY <1>6
  <2>4. lastSubtrees[i] = <<TreeOver(f)[i][2 * j], TreeOver(f)[i][2 * j + 1]>>
    BY <1>7
  <2>5. proof.pathIndices[i] = Bit(k, i)
    BY <1>5, <2>1
  <2>6. \A b \in NodesAt(i) : b # Shifted(k)[i] => TreeOver(f)[i][b] = TreeOver(g)[i][b]
    BY <1>2, <2>1, TreeChange
  <2>7. hash[i] = TreeOver(g)[i][Shifted(k)[i]]
    BY <1>14, <2>1
  <2>8. CASE Bit(k, i) = 0
    <3>1. Shifted(k)[i] = 2 * a /\ Sibling(Shifted(k)[i]) = 2 * a + 1
      BY <2>8, Sides
    <3>2. proof.siblings[i] = TreeOver(f)[i][2 * a + 1]
      BY <1>4, <3>1
    <3>3. UpdatedPair(proof, i, hash[i])
            = IF TreeOver(f)[i][2 * a + 1] = TreeOver(f)[i][2 * j + 1]
              THEN <<hash[i], TreeOver(f)[i][2 * j + 1]>>
              ELSE <<TreeOver(f)[i][2 * j], TreeOver(f)[i][2 * j + 1]>>
      BY <2>4, <2>5, <2>8, <3>2 DEF UpdatedPair
    <3>4. 2 * j + 1 # 2 * a
      BY <2>2
    <3>5. TreeOver(f)[i][2 * j + 1] = TreeOver(g)[i][2 * j + 1]
      BY <2>1, <2>6, <3>1, <3>4
    <3>6. CASE a = j
      BY <2>3, <2>7, <3>1, <3>3, <3>5, <3>6
    <3>7. CASE a # j
      <4>1. TreeOver(f)[i][2 * a + 1] # TreeOver(f)[i][2 * j + 1]
        BY <1>11, <2>8, <3>7
      <4>2. 2 * j # 2 * a
        BY <2>2, <3>7
      <4>3. TreeOver(f)[i][2 * j] = TreeOver(g)[i][2 * j]
        BY <2>1, <2>6, <3>1, <4>2
      <4> QED BY <2>3, <3>3, <3>5, <4>1, <4>3
    <3> QED BY <3>6, <3>7
  <2>9. CASE Bit(k, i) = 1
    <3>1. Shifted(k)[i] = 2 * a + 1 /\ Sibling(Shifted(k)[i]) = 2 * a
      BY <2>9, Sides
    <3>2. proof.siblings[i] = TreeOver(f)[i][2 * a]
      BY <1>4, <3>1
    <3>3. UpdatedPair(proof, i, hash[i])
            = IF TreeOver(f)[i][2 * a] = TreeOver(f)[i][2 * j]
              THEN <<TreeOver(f)[i][2 * j], hash[i]>>
              ELSE <<TreeOver(f)[i][2 * j], TreeOver(f)[i][2 * j + 1]>>
      BY <2>4, <2>5, <2>9, <3>2 DEF UpdatedPair
    <3>4. 2 * j # 2 * a + 1
      BY <2>2
    <3>5. TreeOver(f)[i][2 * j] = TreeOver(g)[i][2 * j]
      BY <2>1, <2>6, <3>1, <3>4
    <3>6. CASE a = j
      BY <2>3, <2>7, <3>1, <3>3, <3>5, <3>6
    <3>7. CASE a # j
      <4>1. TreeOver(f)[i][2 * a] # TreeOver(f)[i][2 * j]
        BY <1>11, <2>9, <3>7
      <4>2. 2 * j + 1 # 2 * a + 1
        BY <2>2, <3>7
      <4>3. TreeOver(f)[i][2 * j + 1] = TreeOver(g)[i][2 * j + 1]
        BY <2>1, <2>6, <3>1, <4>2
      <4> QED BY <2>3, <3>3, <3>5, <4>1, <4>3
    <3> QED BY <3>6, <3>7
  <2> QED BY <2>1, <2>8, <2>9
<1>16. PairsCurrent'
  BY <1>6, <1>10, <1>15 DEF PairsCurrent
<1>17. RootMatchesClients'
  <2>1. LastSlot \in Slot
    BY <1>12, InitRequires DEF LastSlot, Slot
  <2>2. roots'[LastSlot'] = hash[Depth]
    BY <1>6, <2>1 DEF UpdatedRoots
  <2>3. hash[Depth] = TreeOver(g)[Depth][0]
    BY <1>14, ShiftedBound, InitRequires
  <2> QED BY <1>10, <2>2, <2>3 DEF RootMatchesClients, GetLastRoot
<1> QED BY <1>16, <1>17, DiscardShape DEF Inv

LEMMA NextInv == Inv /\ [Next /\ OldestFirst]_vars => Inv'
<1> SUFFICES ASSUME Inv, [Next /\ OldestFirst]_vars PROVE Inv'
  OBVIOUS
<1>1. ASSUME NEW leaf \in Leaf, InsertFresh(leaf) PROVE Inv'
  BY <1>1, InsertInv
<1>2. CASE Discard /\ OldestFirst
  BY <1>2, DiscardInv
<1>3. ASSUME UNCHANGED <<numberOfLeaves, lastSubtrees, roots, inserted, discarded>>, Shape'
      PROVE  Inv'
  <2>1. ClientLeaves' = ClientLeaves /\ LastLeaf' = LastLeaf /\ LastSlot' = LastSlot
    BY <1>3 DEF ClientLeaves, LastLeaf, LastSlot
  <2>2. ClientTree' = ClientTree /\ ClientRoot' = ClientRoot
    BY <2>1, Client
  <2>3. lastSubtrees' = lastSubtrees /\ roots' = roots
    BY <1>3
  <2> QED BY <1>3, <2>1, <2>2, <2>3 DEF Inv, PairsCurrent, RootMatchesClients, GetLastRoot
<1>4. ASSUME NEW k \in Index, Prove(k) PROVE Inv'
  BY <1>3, <1>4, ProveShape DEF Prove, Inv
<1>5. CASE DiscardReverts
  BY <1>3, <1>5, NextShape DEF DiscardReverts, Inv, Next
<1>6. CASE UNCHANGED vars
  BY <1>3, <1>6, NextShape DEF vars, Inv
<1> QED BY <1>1, <1>2, <1>4, <1>5, <1>6 DEF Next

\* The root of the contract is the root of the tree that every client rebuilds, for a
\* tree of any depth, as long as the leaves are discarded oldest first.
THEOREM RootsAgree == OrderedSpec => []RootMatchesClients
<1>1. Inv => RootMatchesClients
  BY DEF Inv
<1> QED BY <1>1, InitInv, NextInv, PTL DEF OrderedSpec

\* The left nodes that the next insertion reads are the ones of the tree of the clients.
THEOREM LeftNodesCurrent == OrderedSpec => []SubtreesCurrent
<1>1. Inv => SubtreesCurrent
  <2> SUFFICES ASSUME Inv, NEW i \in Level, Bit(numberOfLeaves, i) = 1
               PROVE  lastSubtrees[i][1] = ClientTree[i][Shifted(numberOfLeaves)[i] - 1]
    BY DEF SubtreesCurrent
  <2> DEFINE s == Shifted(numberOfLeaves)[i + 1]
  <2>1. numberOfLeaves \in Nat
    BY CapacityType DEF Inv, Shape
  <2>2. Shifted(numberOfLeaves)[i] = 2 * s + 1 /\ s \in Nat
    BY <2>1, ShiftedStep
  <2>3. Shifted(LastLeaf)[i + 1] = s
    BY <2>1, OddNext DEF LastLeaf
  <2>4. lastSubtrees[i] = <<ClientTree[i][2 * s], ClientTree[i][2 * s + 1]>>
    BY <2>3 DEF Inv, PairsCurrent
  <2>5. Shifted(numberOfLeaves)[i] - 1 = 2 * s
    BY <2>2
  <2> QED BY <2>4, <2>5
<1> QED BY <1>1, InitInv, NextInv, PTL DEF OrderedSpec

\* update takes effect only with the proof that a client would build at that moment.
THEOREM AppliedProofIsCurrent == OrderedSpec => OnlyCurrentProofApplies
<1>1. Inv /\ [Next /\ OldestFirst]_vars
        => [discarded' # discarded => proof = CreateProof(UpdateIndex(proof))]_vars
  <2> SUFFICES ASSUME Inv, Next, discarded' # discarded
               PROVE  proof = CreateProof(UpdateIndex(proof))
    BY DEF vars
  <2>1. Discard
    BY DEF Next, InsertFresh, Insert, Prove, DiscardReverts
  <2>2. PICK k \in Index : MadeFor(proof, k)
    BY <2>1 DEF Inv, Shape, Discard
  <2>3. UpdateIndex(proof) = k
    BY <2>2, IndexOfProof
  <2>4. proof = CreateProof(k)
    BY <2>1, <2>2, AcceptedIsCurrent DEF Inv, Discard, Update, UpdateRequires
  <2> QED BY <2>3, <2>4
<1> QED BY <1>1, InitInv, NextInv, PTL DEF OrderedSpec, OnlyCurrentProofApplies

-----------------------------------------------------------------------------
(* The ring of roots                                                       *)

LEMMA Division ==
  ASSUME NEW a \in Nat, NEW R \in Nat \ {0}
  PROVE  a = R * (a \div R) + (a % R) /\ a \div R \in Nat /\ a % R \in 0 .. R - 1
OBVIOUS

\* Quotient and remainder are unique.
LEMMA Remainder ==
  ASSUME NEW R \in Nat \ {0}, NEW a \in Nat, NEW q \in Nat, NEW m \in 0 .. R - 1,
         a = R * q + m
  PROVE  a % R = m
<1> DEFINE p == a \div R
           n == a % R
<1>1. R * p + n = R * q + m /\ p \in Nat /\ n \in 0 .. R - 1
  BY Division
<1> HIDE DEF p, n
<1>2. ASSUME NEW x \in Nat, NEW y \in Nat, x < y PROVE R * x + R <= R * y
  <2>1. R * (y - x - 1) \in Nat
    BY <1>2
  <2>2. R * (y - x - 1) = R * y - R * x - R
    BY <1>2
  <2>3. R * x \in Int /\ R * y \in Int
    OBVIOUS
  <2> QED BY <2>1, <2>2, <2>3
<1>3. R * p \in Nat /\ R * q \in Nat
  BY <1>1
<1>4. CASE p < q
  BY <1>1, <1>2, <1>3, <1>4
<1>5. CASE q < p
  BY <1>1, <1>2, <1>3, <1>5
<1>6. CASE p = q
  <2>1. n = m
    BY <1>1, <1>3, <1>6
  <2> QED BY <2>1 DEF n
<1> QED BY <1>1, <1>4, <1>5, <1>6

\* The slot after a slot.
LEMMA NextSlot ==
  ASSUME NEW R \in Nat \ {0}, NEW n \in Nat
  PROVE  (n + 1) % R = IF n % R = R - 1 THEN 0 ELSE (n % R) + 1
<1> DEFINE q == n \div R
           r == n % R
<1>1. n = R * q + r /\ q \in Nat /\ r \in 0 .. R - 1
  BY Division
<1> HIDE DEF q, r
<1>2. CASE r = R - 1
  <2>1. n + 1 = R * (q + 1) + 0
    BY <1>1, <1>2
  <2>2. (n + 1) % R = 0
    BY <1>1, <2>1, Remainder
  <2> QED BY <1>2, <2>2 DEF r
<1>3. CASE r # R - 1
  <2>1. n + 1 = R * q + (r + 1) /\ r + 1 \in 0 .. R - 1
    BY <1>1, <1>3
  <2>2. (n + 1) % R = r + 1
    BY <1>1, <2>1, Remainder
  <2> QED BY <1>3, <2>2 DEF r
<1> QED BY <1>2, <1>3

\* The slot j places before slot r.
LEMMA SlotBack ==
  ASSUME NEW R \in Nat \ {0}, NEW r \in 0 .. R - 1, NEW j \in 0 .. R - 1
  PROVE  (r + R - j) % R = IF j <= r THEN r - j ELSE r + R - j
<1>1. CASE j <= r
  <2>1. r + R - j = R * 1 + (r - j) /\ r - j \in 0 .. R - 1 /\ r + R - j \in Nat
    BY <1>1
  <2> QED BY <1>1, <2>1, Remainder
<1>2. CASE j > r
  <2>1. r + R - j = R * 0 + (r + R - j) /\ r + R - j \in 0 .. R - 1
    BY <1>2
  <2> QED BY <1>2, <2>1, Remainder
<1> QED BY <1>1, <1>2

\* The slots of the ring, backwards from the last one.
Back(j) == IF j <= LastSlot THEN LastSlot - j ELSE LastSlot + RootHistorySize - j

LEMMA RootBackIs ==
  ASSUME numberOfLeaves \in Nat
  PROVE  /\ LastSlot \in Slot
         /\ \A j \in Slot : RootBack(j) = roots[Back(j)] /\ Back(j) \in Slot
         /\ RootBack(0) = roots[LastSlot]
         /\ \A j \in Slot \ {0} : Back(j) # LastSlot
<1>1. LastSlot \in Slot /\ RootHistorySize \in Nat \ {0}
  BY InitRequires, Division DEF LastSlot, Slot
<1>2. ASSUME NEW j \in Slot PROVE RootBack(j) = roots[Back(j)] /\ Back(j) \in Slot
  BY <1>1, SlotBack DEF RootBack, Back, Slot
<1>3. 0 \in Slot /\ Back(0) = LastSlot
  BY <1>1 DEF Slot, Back
<1>4. \A j \in Slot \ {0} : Back(j) # LastSlot
  BY <1>1 DEF Slot, Back
<1> QED BY <1>1, <1>2, <1>3, <1>4

\* The history ends with the first slot, backwards, that is not set.
LEMMA HistoryLengthIs ==
  /\ HistoryEnds(HistoryLength)
  /\ \A h : HistoryEnds(h) => HistoryLength = h
<1> DEFINE R == RootHistorySize
           T == {m \in 0 .. R - 1 : \/ \A b \in 1 .. m : RootBack(b) # Zero
                                    \/ \E h : HistoryEnds(h)}
<1>1. R \in Nat \ {0}
  BY InitRequires
<1>2. 0 \in T
  BY <1>1
<1>3. ASSUME NEW m \in 0 .. (R - 1) - 1, m \in T PROVE m + 1 \in T
  <2>1. m + 1 \in 0 .. R - 1 /\ m + 1 \in 1 .. R /\ m + 1 < R
    BY <1>1
  <2>2. CASE \A b \in 1 .. m : RootBack(b) # Zero
    <3>1. CASE RootBack(m + 1) = Zero
      <4>1. HistoryEnds(m + 1)
        BY <1>1, <2>1, <2>2, <3>1 DEF HistoryEnds
      <4> QED BY <2>1, <4>1
    <3>2. CASE RootBack(m + 1) # Zero
      <4>1. \A b \in 1 .. m + 1 : RootBack(b) # Zero
        BY <1>1, <2>2, <3>2
      <4> QED BY <2>1, <4>1
    <3> QED BY <3>1, <3>2
  <2>3. CASE \E h : HistoryEnds(h)
    BY <2>1, <2>3
  <2> QED BY <1>3, <2>2, <2>3
<1>4. \A m \in 0 .. R - 1 : m \in T
  <2> HIDE DEF T
  <2>1. R - 1 \in Nat
    BY <1>1
  <2> QED BY <1>2, <1>3, <2>1, UpInduction
<1>5. PICK h : HistoryEnds(h)
  <2>1. R - 1 \in T
    BY <1>1, <1>4
  <2>2. CASE \A b \in 1 .. R - 1 : RootBack(b) # Zero
    <3>1. HistoryEnds(R)
      BY <1>1, <2>2 DEF HistoryEnds
    <3> QED BY <3>1
  <2> QED BY <2>1, <2>2
<1>6. ASSUME NEW g, HistoryEnds(g), NEW h1, HistoryEnds(h1) PROVE g = h1
  BY <1>1, <1>6 DEF HistoryEnds
<1>7. HistoryLength = CHOOSE j \in 1 .. R : HistoryEnds(j)
  BY DEF HistoryLength
<1>8. h \in 1 .. R
  BY <1>5 DEF HistoryEnds
<1>9. HistoryEnds(HistoryLength)
  <2> HIDE DEF R
  <2> QED BY <1>5, <1>7, <1>8, Zenon
<1> QED BY <1>6, <1>9

-----------------------------------------------------------------------------
(* MerkleTree implements CommitmentTree                                    *)

\* The node of a level has one of the values of the level.
LEMMA NodeValue ==
  ASSUME NEW f, \A k \in Index : f[k] \in Leaf \cup {Zero}
  PROVE  \A i \in 0 .. Depth : \A k \in NodesAt(i) : TreeOver(f)[i][k] \in NodeOf[i]
<1> DEFINE T == {i \in 0 .. Depth : \A k \in NodesAt(i) : TreeOver(f)[i][k] \in NodeOf[i]}
<1>1. 0 \in T
  BY TreeOverDef, NodeOfDef, InitRequires DEF NodesAt, Index, Capacity
<1>2. ASSUME NEW i \in 0 .. Depth - 1, i \in T PROVE i + 1 \in T
  <2>1. i \in Level /\ i + 1 \in 0 .. Depth
    BY InitRequires DEF Level
  <2> SUFFICES ASSUME NEW k \in NodesAt(i + 1)
               PROVE  TreeOver(f)[i + 1][k] \in NodeOf[i + 1]
    BY <2>1
  <2>2. 2 * k \in NodesAt(i) /\ 2 * k + 1 \in NodesAt(i)
    BY <2>1, Children
  <2>3. TreeOver(f)[i][2 * k] \in NodeOf[i] /\ TreeOver(f)[i][2 * k + 1] \in NodeOf[i]
    BY <1>2, <2>2
  <2>4. TreeOver(f)[i + 1][k] = <<TreeOver(f)[i][2 * k], TreeOver(f)[i][2 * k + 1]>>
    BY <2>1, Children DEF Hash
  <2> QED BY <2>3, <2>4, NodeOfDef
<1>3. \A i \in 0 .. Depth : i \in T
  <2> HIDE DEF T
  <2> QED BY <1>1, <1>2, UpInduction, InitRequires
<1> QED BY <1>3

\* The leaf found on the way down from the root of a tree is the leaf of the tree.
LEMMA LeafFound ==
  ASSUME NEW f, NEW k \in Index
  PROVE  LeafUnder(TreeOver(f)[Depth][0], k) = f[k]
<1> DEFINE node == Descent(TreeOver(f)[Depth][0], k)
           T == {d \in 0 .. Depth : node[d] = TreeOver(f)[Depth - d][Shifted(k)[Depth - d]]}
<1>1. /\ node[0] = TreeOver(f)[Depth][0]
      /\ \A d \in 0 .. Depth - 1 : node[d + 1] = node[d][1 + Bit(k, Depth - (d + 1))]
  BY DescentDef
<1> HIDE DEF node
<1>2. 0 \in T
  BY <1>1, ShiftedBound, InitRequires
<1>3. ASSUME NEW d \in 0 .. Depth - 1, d \in T PROVE d + 1 \in T
  <2> DEFINE i == Depth - (d + 1)
             s == Shifted(k)[i + 1]
  <2>1. i \in Level /\ i + 1 = Depth - d /\ d + 1 \in 0 .. Depth
    BY InitRequires DEF Level
  <2>2. node[d] = TreeOver(f)[i + 1][s] /\ node[d + 1] = node[d][1 + Bit(k, i)]
    BY <1>1, <1>3, <2>1
  <2> HIDE DEF i
  <2>3. TreeOver(f)[i + 1][s] = <<TreeOver(f)[i][2 * s], TreeOver(f)[i][2 * s + 1]>>
    BY <2>1, Sides, Children DEF Hash
  <2>4. node[d + 1] = TreeOver(f)[i][Shifted(k)[i]]
    <3>1. CASE Bit(k, i) = 0
      <4>1. Shifted(k)[i] = 2 * s
        BY <2>1, <3>1, Sides
      <4> QED BY <2>2, <2>3, <3>1, <4>1
    <3>2. CASE Bit(k, i) = 1
      <4>1. Shifted(k)[i] = 2 * s + 1
        BY <2>1, <3>2, Sides
      <4> QED BY <2>2, <2>3, <3>2, <4>1
    <3> QED BY <2>1, <3>1, <3>2, Sides
  <2> QED BY <2>1, <2>4 DEF i
<1>4. \A d \in 0 .. Depth : d \in T
  <2> HIDE DEF T
  <2> QED BY <1>2, <1>3, UpInduction, InitRequires
<1>5. node[Depth] = TreeOver(f)[0][Shifted(k)[0]]
  BY <1>4, InitRequires
<1> QED BY <1>5, TreeOverDef, ShiftedDef DEF node, LeafUnder

\* The leaves under a root are those that are not zero, each with its place.
LEMMA LeavesFound ==
  ASSUME NEW f
  PROVE  LeavesUnder(TreeOver(f)[Depth][0])
           = {<<k + 1, f[k]>> : k \in {j \in Index : f[j] # Zero}}
BY LeafFound DEF LeavesUnder

\* The root of the tree of the clients stands for the leaves of the abstract tree, and
\* it is no empty entry of the ring.
LEMMA ClientRootIs ==
  ASSUME Shape
  PROVE  /\ LeavesUnder(ClientRoot) = Promise!Root(ListOfLeaves)
         /\ ClientRoot # Zero
<1> DEFINE f == ClientLeaves
           n == numberOfLeaves
<1>1. n \in Nat /\ n <= Capacity /\ Len(inserted) = n /\ inserted \in Seq(Leaf)
      /\ Capacity \in Nat /\ Index = 0 .. Capacity - 1
  BY CapacityType DEF Shape
<1>2. \A k \in Index : f[k] # Zero => k < n
  BY <1>1, Client
<1>3. \A k \in Index : f[k] \in Leaf \cup {Zero}
  BY <1>1, Client
<1>4. ClientRoot = TreeOver(f)[Depth][0]
  BY Client
<1>5. ListOfLeaves = [i \in 1 .. n |-> f[i - 1]]
  BY <1>1 DEF ListOfLeaves
<1> HIDE DEF f, n
<1>6. LeavesUnder(ClientRoot) = {<<k + 1, f[k]>> : k \in {j \in Index : f[j] # Zero}}
  BY <1>4, LeavesFound
<1>7. Promise!Root(ListOfLeaves)
        = {<<i, ListOfLeaves[i]>> : i \in {j \in DOMAIN ListOfLeaves : ListOfLeaves[j] # Zero}}
  BY DEF Promise!Root
<1>8. ASSUME NEW k \in Index, f[k] # Zero
      PROVE  k + 1 \in DOMAIN ListOfLeaves /\ ListOfLeaves[k + 1] = f[k]
  BY <1>1, <1>2, <1>5, <1>8
<1>9. ASSUME NEW i \in DOMAIN ListOfLeaves
      PROVE  i - 1 \in Index /\ (i - 1) + 1 = i /\ ListOfLeaves[i] = f[i - 1]
  BY <1>1, <1>5
<1>10. LeavesUnder(ClientRoot) = Promise!Root(ListOfLeaves)
  <2>1. ASSUME NEW z \in LeavesUnder(ClientRoot) PROVE z \in Promise!Root(ListOfLeaves)
    <3>1. PICK k \in Index : f[k] # Zero /\ z = <<k + 1, f[k]>>
      BY <1>6
    <3> QED BY <1>7, <1>8, <3>1
  <2>2. ASSUME NEW z \in Promise!Root(ListOfLeaves) PROVE z \in LeavesUnder(ClientRoot)
    <3>1. PICK i \in DOMAIN ListOfLeaves : ListOfLeaves[i] # Zero /\ z = <<i, ListOfLeaves[i]>>
      BY <1>7
    <3>2. i - 1 \in Index /\ f[i - 1] # Zero /\ z = <<(i - 1) + 1, f[i - 1]>>
      BY <1>9, <3>1
    <3> QED BY <1>6, <3>2
  <2> QED BY <2>1, <2>2
<1>11. ClientRoot # Zero
  <2>1. Depth \in 0 .. Depth /\ 0 \in NodesAt(Depth)
    BY InitRequires, TwoToDef DEF NodesAt
  <2> QED BY <1>3, <1>4, <2>1, NodeValue, RootNotZero
<1> QED BY <1>10, <1>11

\* The newest of the roots that the contract knows is the one of the abstract leaves.
LEMMA NewestRoot ==
  Inv => /\ RootBack(0) # Zero
         /\ LeavesUnder(RootBack(0)) = Promise!Root(ListOfLeaves)
<1> SUFFICES ASSUME Inv PROVE /\ RootBack(0) # Zero
                              /\ LeavesUnder(RootBack(0)) = Promise!Root(ListOfLeaves)
  OBVIOUS
<1>1. RootBack(0) = roots[LastSlot]
  BY RootBackIs, CapacityType DEF Inv, Shape
<1>2. roots[LastSlot] = ClientRoot
  BY DEF Inv, RootMatchesClients, GetLastRoot
<1> QED BY <1>1, <1>2, ClientRootIs DEF Inv

\* The same in the next state.
LEMMA NextRoot == (Inv => LeavesUnder(RootBack(0)) = Promise!Root(ListOfLeaves))'
<1>1. Inv => LeavesUnder(RootBack(0)) = Promise!Root(ListOfLeaves)
  BY NewestRoot
<1> QED BY <1>1, PTL

LEMMA NextHistory == (\A h : HistoryEnds(h) => HistoryLength = h)'
<1>1. \A h : HistoryEnds(h) => HistoryLength = h
  BY HistoryLengthIs
<1> QED BY <1>1, PTL

\* The root of a list is a root of leaves.
LEMMA RootIsKnown ==
  ASSUME NEW n \in Nat, NEW ls, DOMAIN ls = 1 .. n
  PROVE  Promise!Root(ls) # Promise!Unknown
<1>1. \A e \in Promise!Root(ls) : e[1] \in 1 .. n
  BY DEF Promise!Root
<1>2. <<0, Zero>> \in Promise!Unknown /\ <<0, Zero>>[1] = 0
  BY DEF Promise!Unknown
<1>3. 0 \notin 1 .. n
  OBVIOUS
<1> QED BY <1>1, <1>2, <1>3

LEMMA InitPromise == Init => Promise!TreeInit
<1> SUFFICES ASSUME Init PROVE Promise!TreeInit
  OBVIOUS
<1>1. Inv
  BY InitInv
<1>2. ListOfLeaves = <<>>
  BY DEF Init, ListOfLeaves
<1>3. HistoryLength = 1
  <2>1. numberOfLeaves = 0 /\ numberOfLeaves \in Nat /\ LastSlot = 0
    BY InitRequires DEF Init, LastSlot
  <2>2. ASSUME 1 < RootHistorySize PROVE RootBack(1) = Zero
    <3>1. 1 \in Slot /\ 1 \in Slot \ {0}
      BY <2>2, InitRequires DEF Slot
    <3>2. RootBack(1) = roots[Back(1)] /\ Back(1) \in Slot /\ Back(1) # 0
      BY <2>1, <3>1, RootBackIs
    <3> QED BY <3>2 DEF Init
  <2>3. HistoryEnds(1)
    BY <2>2, InitRequires DEF HistoryEnds
  <2> QED BY <2>3, HistoryLengthIs
<1>4. KnownRoots = <<Promise!Root(<<>>)>>
  <2>1. LeavesUnder(RootBack(0)) = Promise!Root(<<>>)
    BY <1>1, <1>2, NewestRoot
  <2>2. KnownRoots = [j \in 1 .. 1 |-> LeavesUnder(RootBack(0))]
    BY <1>3 DEF KnownRoots
  <2> QED BY <2>1, <2>2
<1> QED BY <1>2, <1>4 DEF Promise!TreeInit

\* After an insertion the older roots are one place further back.
LEMMA RingMoves ==
  ASSUME Inv, NEW leaf, InsertFresh(leaf)
  PROVE  \A j \in Slot \ {0} : RootBack(j)' = RootBack(j - 1)
<1> SUFFICES ASSUME NEW j \in Slot \ {0} PROVE RootBack(j)' = RootBack(j - 1)
  OBVIOUS
<1> DEFINE R == RootHistorySize
           r == LastSlot
           q == LastSlot'
<1>1. numberOfLeaves \in Nat /\ numberOfLeaves' = numberOfLeaves + 1 /\ R \in Nat \ {0}
      /\ numberOfLeaves' \in Nat
  BY CapacityType, InitRequires DEF Inv, Shape, InsertFresh, Insert
<1>2. q = IF r = R - 1 THEN 0 ELSE r + 1
  BY <1>1, NextSlot DEF LastSlot
<1>3. r \in 0 .. R - 1 /\ q \in 0 .. R - 1
  BY <1>1, Division DEF LastSlot
<1>4. RootBack(j)' = roots'[(q + R - j) % R] /\ RootBack(j - 1) = roots[(r + R - (j - 1)) % R]
  BY DEF RootBack
<1>5. j \in 0 .. R - 1 /\ j - 1 \in 0 .. R - 1 /\ j # 0
  BY <1>1 DEF Slot
<1>6. roots' = [roots EXCEPT ![q] = InsertPath(leaf)[Depth]] /\ DOMAIN roots = 0 .. R - 1
  BY <1>1 DEF InsertFresh, Insert, LastSlot, Inv, Shape, Slot
<1> HIDE DEF r, q, R
<1>7. (q + R - j) % R = IF j <= q THEN q - j ELSE q + R - j
  BY <1>1, <1>3, <1>5, SlotBack
<1>8. (r + R - (j - 1)) % R = IF j - 1 <= r THEN r - (j - 1) ELSE r + R - (j - 1)
  BY <1>1, <1>3, <1>5, SlotBack
<1>9. (q + R - j) % R = (r + R - (j - 1)) % R /\ (q + R - j) % R # q
  BY <1>1, <1>2, <1>3, <1>5, <1>7, <1>8
<1> QED BY <1>4, <1>6, <1>9

LEMMA InsertPromise ==
  ASSUME Inv, NEW leaf \in Leaf, InsertFresh(leaf)
  PROVE  \E r \in Promise!SimulatedInsert(leaf) : Promise!TreeInsert(leaf, r)
<1> DEFINE R == RootHistorySize
           len == HistoryLength
<1>0. Inv'
  BY InsertInv
<1>1. /\ numberOfLeaves \in Nat /\ numberOfLeaves < Capacity
      /\ Len(inserted) = numberOfLeaves /\ inserted \in Seq(Leaf)
      /\ inserted' = Append(inserted, leaf)
  BY CapacityType DEF Inv, Shape, InsertFresh, Insert
<1>2. ListOfLeaves \in Seq(Leaf \cup {Zero}) /\ Len(ListOfLeaves) = numberOfLeaves
  <2>1. \A i \in 1 .. numberOfLeaves : ClientLeaves[i - 1] \in Leaf \cup {Zero}
    BY <1>1, CapacityType, Client
  <2>2. ListOfLeaves = [i \in 1 .. numberOfLeaves |-> ClientLeaves[i - 1]]
    BY <1>1 DEF ListOfLeaves
  <2> QED BY <1>1, <2>1, <2>2
<1>3. ListOfLeaves' = Append(ListOfLeaves, leaf)
  <2>1. Len(inserted') = numberOfLeaves + 1
    BY <1>1
  <2>2. ListOfLeaves' = [i \in 1 .. numberOfLeaves + 1 |-> ClientLeaves'[i - 1]]
    BY <2>1 DEF ListOfLeaves
  <2>3. \A i \in 1 .. numberOfLeaves : ClientLeaves'[i - 1] = ListOfLeaves[i]
    <3>1. ASSUME NEW i \in 1 .. numberOfLeaves PROVE ClientLeaves'[i - 1] = ListOfLeaves[i]
      <4>1. i - 1 \in Index /\ i - 1 # numberOfLeaves
        BY <1>1, CapacityType
      <4>2. ClientLeaves'[i - 1] = ClientLeaves[i - 1]
        BY <4>1, InsertLeaves DEF Inv
      <4> QED BY <1>1, <4>2 DEF ListOfLeaves
    <3> QED BY <3>1
  <2>4. ClientLeaves'[(numberOfLeaves + 1) - 1] = leaf
    <3>1. (numberOfLeaves + 1) - 1 = numberOfLeaves
      BY <1>1
    <3> QED BY <3>1, InsertLeaves DEF Inv
  <2>5. Append(ListOfLeaves, leaf)
          = [i \in 1 .. numberOfLeaves + 1 |-> IF i = numberOfLeaves + 1 THEN leaf
                                                                     ELSE ListOfLeaves[i]]
    <3> DEFINE s == Append(ListOfLeaves, leaf)
    <3>1. s \in Seq(Leaf \cup {Zero}) /\ Len(s) = numberOfLeaves + 1
      BY <1>1, <1>2
    <3>2. s[numberOfLeaves + 1] = leaf
          /\ \A i \in 1 .. numberOfLeaves : s[i] = ListOfLeaves[i]
      BY <1>1, <1>2
    <3>3. s = [i \in 1 .. numberOfLeaves + 1 |-> s[i]]
      <4>1. DOMAIN s = 1 .. numberOfLeaves + 1
        BY <1>1, <3>1
      <4> HIDE DEF s
      <4>2. s = [i \in DOMAIN s |-> s[i]]
        BY <3>1
      <4> QED BY <4>1, <4>2
    <3>4. \A i \in 1 .. numberOfLeaves + 1 : i # numberOfLeaves + 1 => i \in 1 .. numberOfLeaves
      BY <1>1
    <3> HIDE DEF s
    <3> QED BY <3>2, <3>3, <3>4 DEF s
  <2>6. ASSUME NEW i \in 1 .. numberOfLeaves + 1
        PROVE  ClientLeaves'[i - 1]
                 = IF i = numberOfLeaves + 1 THEN leaf ELSE ListOfLeaves[i]
    <3>1. CASE i = numberOfLeaves + 1
      BY <2>4, <3>1
    <3>2. CASE i # numberOfLeaves + 1
      <4>1. i \in 1 .. numberOfLeaves
        BY <1>1, <3>2
      <4> QED BY <2>3, <3>2, <4>1
    <3> QED BY <3>1, <3>2
  <2> QED BY <2>2, <2>5, <2>6
<1>4. HistoryEnds(len) /\ R \in Nat \ {0} /\ len \in 1 .. R
  BY HistoryLengthIs, InitRequires DEF HistoryEnds
<1>5. \A j \in 1 .. R - 1 : RootBack(j)' = RootBack(j - 1)
  BY <1>4, RingMoves DEF Slot
<1>6. /\ RootBack(0) # Zero
      /\ LeavesUnder(RootBack(0)') = Promise!Root(Append(ListOfLeaves, leaf))
  <2>1. RootBack(0) # Zero
    BY NewestRoot
  <2>2. LeavesUnder(RootBack(0))' = Promise!Root(ListOfLeaves)'
    BY <1>0, NextRoot
  <2> QED BY <1>3, <2>1, <2>2 DEF LeavesUnder, LeafUnder, Promise!Root
<1>7. PICK g : g = IF len < R THEN len + 1 ELSE R
  OBVIOUS
<1>8. HistoryLength' = g
  <2>1. /\ len \in 1 .. R
        /\ \A b \in 1 .. len - 1 : RootBack(b) # Zero
        /\ len < R => RootBack(len) = Zero
    BY <1>4 DEF HistoryEnds
  <2>2. \A b \in 0 .. len - 1 : RootBack(b) # Zero
    BY <1>6, <2>1
  <2>3. ASSUME NEW b \in 1 .. g - 1 PROVE RootBack(b)' # Zero
    <3>1. b \in 1 .. R - 1 /\ b - 1 \in 0 .. len - 1
      BY <1>4, <1>7
    <3> QED BY <1>5, <2>2, <3>1
  <2>4. ASSUME g < R PROVE RootBack(g)' = Zero
    <3>1. len < R /\ g = len + 1 /\ g \in 1 .. R - 1 /\ g - 1 = len
      BY <1>4, <1>7, <2>4
    <3> QED BY <1>5, <2>1, <3>1
  <2>5. g \in 1 .. R
    BY <1>4, <1>7
  <2>6. HistoryEnds(g)'
    BY <2>3, <2>4, <2>5 DEF HistoryEnds
  <2>7. (\A h : HistoryEnds(h) => HistoryLength = h)'
    BY NextHistory
  <2>8. HistoryLength' = g
    BY <2>6, <2>7
  <2> QED BY <2>8
<1>9. Len(KnownRoots) = len /\ \A j \in 1 .. len : KnownRoots[j] = LeavesUnder(RootBack(j - 1))
  BY <1>4 DEF KnownRoots
<1>10. KnownRoots' = [j \in 1 .. g |-> LeavesUnder(RootBack(j - 1)')]
  BY <1>8 DEF KnownRoots, LeavesUnder, LeafUnder
<1>11. Promise!Remember(Promise!Root(Append(ListOfLeaves, leaf)))
         = [j \in 1 .. g |-> IF j = 1 THEN Promise!Root(Append(ListOfLeaves, leaf))
                                      ELSE KnownRoots[j - 1]]
  <2>1. Promise!Lesser(R, Len(KnownRoots) + 1) = g
    BY <1>4, <1>9, <1>7 DEF Promise!Lesser
  <2> QED BY <2>1 DEF Promise!Remember
<1>12. ASSUME NEW j \in 1 .. g
       PROVE  LeavesUnder(RootBack(j - 1)')
                = IF j = 1 THEN Promise!Root(Append(ListOfLeaves, leaf))
                           ELSE KnownRoots[j - 1]
  <2>1. CASE j = 1
    BY <1>6, <2>1
  <2>2. CASE j # 1
    <3>1. j - 1 \in 1 .. len /\ j - 1 \in 1 .. R - 1
      BY <1>4, <1>7, <2>2
    <3>2. RootBack(j - 1)' = RootBack((j - 1) - 1)
      BY <1>5, <3>1
    <3>3. KnownRoots[j - 1] = LeavesUnder(RootBack((j - 1) - 1))
      BY <1>9, <3>1
    <3> QED BY <2>2, <3>2, <3>3
  <2> QED BY <2>1, <2>2
<1> DEFINE root == Promise!Root(Append(ListOfLeaves, leaf))
<1>13. KnownRoots' = Promise!Remember(root)
  BY <1>10, <1>11, <1>12
<1>14. root # Promise!Unknown /\ Promise!LastRoot # Promise!Unknown
  <2>1. DOMAIN Append(ListOfLeaves, leaf) = 1 .. numberOfLeaves + 1 /\ numberOfLeaves + 1 \in Nat
        /\ DOMAIN ListOfLeaves = 1 .. numberOfLeaves
    BY <1>1, <1>2
  <2>2. root # Promise!Unknown
    BY <2>1, RootIsKnown
  <2>3. Promise!LastRoot = Promise!Root(ListOfLeaves)
    <3>1. 1 \in 1 .. len /\ 1 - 1 = 0
      BY <1>4
    <3>2. KnownRoots[1] = LeavesUnder(RootBack(0))
      BY <1>9, <3>1
    <3> QED BY <3>2, NewestRoot DEF Promise!LastRoot
  <2>4. Promise!LastRoot # Promise!Unknown
    BY <1>1, <2>1, <2>3, RootIsKnown
  <2> QED BY <2>2, <2>4
<1>15. root \in Promise!SimulatedInsert(leaf)
  BY <1>14 DEF Promise!SimulatedInsert
<1> HIDE DEF root
<1>16. Promise!TreeInsert(leaf, root)
  BY <1>1, <1>2, <1>3, <1>13, <1>15 DEF Promise!TreeInsert
<1> QED BY <1>15, <1>16

LEMMA DiscardPromise ==
  ASSUME Inv, Discard, OldestFirst
  PROVE  \E i \in DOMAIN ListOfLeaves : Promise!TreeDiscard(<<i>>)
<1>0. Inv'
  BY DiscardInv
<1>1. PICK k \in Index : MadeFor(proof, k)
  BY DEF Inv, Shape, Discard
<1>2. /\ k < numberOfLeaves /\ k \notin discarded
      /\ ClientLeaves'[k] = Zero
      /\ \A x \in Index : x # k => ClientLeaves[x] = ClientLeaves'[x]
  BY <1>1, DiscardLeaves DEF Inv
<1>3. /\ numberOfLeaves \in Nat /\ numberOfLeaves <= Capacity
      /\ Len(inserted) = numberOfLeaves /\ inserted \in Seq(Leaf)
      /\ inserted' = inserted /\ numberOfLeaves' = numberOfLeaves
      /\ roots' = UpdatedRoots(ProofPath(proof, Zero)[Depth]) /\ k \in Nat
  BY CapacityType DEF Inv, Shape, Discard, Update
<1>4. ListOfLeaves = [i \in 1 .. numberOfLeaves |-> ClientLeaves[i - 1]]
  BY <1>3 DEF ListOfLeaves
<1>5. k + 1 \in DOMAIN ListOfLeaves /\ ListOfLeaves[k + 1] # Zero
  <2>1. k + 1 \in 1 .. numberOfLeaves /\ (k + 1) - 1 = k
    BY <1>2, <1>3
  <2>2. ClientLeaves[k] # Zero
    BY <1>2, <1>3, <2>1, Client, LeafNotZero
  <2> QED BY <1>4, <2>1, <2>2
<1>6. ListOfLeaves' = Promise!Zeroed(ListOfLeaves, {k + 1})
  <2>1. ListOfLeaves' = [i \in 1 .. numberOfLeaves |-> ClientLeaves'[i - 1]]
    BY <1>3 DEF ListOfLeaves
  <2>2. Promise!Zeroed(ListOfLeaves, {k + 1})
          = [i \in 1 .. numberOfLeaves |-> IF i \in {k + 1} THEN Zero ELSE ListOfLeaves[i]]
    BY <1>4 DEF Promise!Zeroed
  <2>3. ASSUME NEW i \in 1 .. numberOfLeaves
        PROVE  ClientLeaves'[i - 1] = IF i \in {k + 1} THEN Zero ELSE ListOfLeaves[i]
    <3>1. CASE i = k + 1
      <4>1. i - 1 = k
        BY <1>3, <3>1
      <4> QED BY <1>2, <3>1, <4>1
    <3>2. CASE i # k + 1
      <4>1. i - 1 \in Index /\ i - 1 # k
        BY <1>3, <3>2, CapacityType
      <4> QED BY <1>2, <1>4, <3>2, <4>1
    <3> QED BY <3>1, <3>2
  <2> QED BY <2>1, <2>2, <2>3
<1>7. HistoryLength' = 1
  <2>1. LastSlot' = LastSlot
    BY <1>3 DEF LastSlot
  <2>2. ASSUME 1 < RootHistorySize PROVE RootBack(1)' = Zero
    <3>1. 1 \in Slot \ {0}
      BY <2>2, InitRequires DEF Slot
    <3>2. Back(1) \in Slot /\ Back(1) # LastSlot
      BY <1>3, <3>1, RootBackIs
    <3>3. RootBack(1)' = roots'[Back(1)]
      <4>1. RootBack(1)' = roots'[(LastSlot + RootHistorySize - 1) % RootHistorySize]
        BY <2>1 DEF RootBack
      <4>2. LastSlot \in 0 .. RootHistorySize - 1 /\ RootHistorySize \in Nat \ {0}
            /\ 1 \in 0 .. RootHistorySize - 1
        BY <1>3, <3>1, RootBackIs, InitRequires DEF Slot
      <4> QED BY <4>1, <4>2, SlotBack DEF Back
    <3> QED BY <1>3, <3>2, <3>3 DEF UpdatedRoots
  <2>3. HistoryEnds(1)'
    BY <2>2, InitRequires DEF HistoryEnds
  <2>4. (\A h : HistoryEnds(h) => HistoryLength = h)'
    BY NextHistory
  <2> QED BY <2>3, <2>4
<1>8. KnownRoots' = <<Promise!Root(Promise!Zeroed(ListOfLeaves, {k + 1}))>>
  <2>1. LeavesUnder(RootBack(0))' = Promise!Root(ListOfLeaves)'
    BY <1>0, NextRoot
  <2>2. LeavesUnder(RootBack(0)') = Promise!Root(Promise!Zeroed(ListOfLeaves, {k + 1}))
    BY <1>6, <2>1 DEF LeavesUnder, LeafUnder, Promise!Root
  <2>3. KnownRoots' = [j \in 1 .. 1 |-> LeavesUnder(RootBack(0)')]
    BY <1>7 DEF KnownRoots, LeavesUnder, LeafUnder
  <2> QED BY <2>2, <2>3
<1> DEFINE list == <<k + 1>>
<1>9. DOMAIN list = {1} /\ list[1] = k + 1 /\ list # <<>> /\ Promise!Positions(list) = {k + 1}
  BY DEF Promise!Positions
<1>10. Promise!LastRoot # Promise!Unknown
  <2>1. HistoryLength \in 1 .. RootHistorySize
    BY HistoryLengthIs DEF HistoryEnds
  <2>2. KnownRoots[1] = LeavesUnder(RootBack(1 - 1)) /\ 1 - 1 = 0
    BY <2>1, InitRequires DEF KnownRoots
  <2>3. DOMAIN ListOfLeaves = 1 .. numberOfLeaves
    BY <1>4
  <2> QED BY <1>3, <2>2, <2>3, NewestRoot, RootIsKnown DEF Promise!LastRoot
<1>11. Promise!Younger(ListOfLeaves, list)
  <2>1. ASSUME NEW j \in 1 .. numberOfLeaves, ListOfLeaves[j] = Zero PROVE j < k + 1
    <3>1. ClientLeaves[j - 1] = Zero /\ j - 1 \in Index /\ (j - 1) + 1 = j /\ j - 1 < Len(inserted)
      BY <1>3, <1>4, <2>1, CapacityType
    <3>2. inserted[j] \in Leaf
      BY <1>3
    <3>3. j - 1 \in discarded
      BY <3>1, <3>2, Client, LeafNotZero
    <3>4. k \in discarded' \ discarded
      BY <1>1, <1>2, DiscardLeaves DEF Inv
    <3>5. j - 1 < k
      BY <3>3, <3>4 DEF OldestFirst
    <3> QED BY <1>3, <3>5
  <2> QED BY <1>4, <1>9, <2>1 DEF Promise!Younger
<1> HIDE DEF list
<1>12. Promise!TreeDiscard(list)
  BY <1>5, <1>6, <1>8, <1>9, <1>10, <1>11 DEF Promise!TreeDiscard, Promise!Discarding
<1> QED BY <1>5, <1>12 DEF list

LEMMA NextPromise ==
  Inv /\ [Next /\ OldestFirst]_vars => [Promise!TreeNext]_(Promise!treeVars)
<1> SUFFICES ASSUME Inv, [Next /\ OldestFirst]_vars
             PROVE  Promise!TreeNext \/ UNCHANGED Promise!treeVars
  OBVIOUS
<1>1. ASSUME NEW leaf \in Leaf, InsertFresh(leaf) PROVE Promise!TreeNext
  BY <1>1, InsertPromise DEF Promise!TreeNext
<1>2. CASE Discard /\ OldestFirst
  BY <1>2, DiscardPromise DEF Promise!TreeNext
<1>3. ASSUME UNCHANGED <<numberOfLeaves, roots, inserted, discarded>>
      PROVE  UNCHANGED Promise!treeVars
  <2>1. ClientLeaves' = ClientLeaves /\ LastSlot' = LastSlot
    BY <1>3 DEF ClientLeaves, LastSlot
  <2>2. ListOfLeaves' = ListOfLeaves
    BY <1>3, <2>1 DEF ListOfLeaves
  <2>3. \A j : RootBack(j)' = RootBack(j)
    BY <1>3, <2>1 DEF RootBack
  <2>4. HistoryLength' = HistoryLength
    BY <2>3 DEF HistoryLength, HistoryEnds
  <2>5. KnownRoots' = KnownRoots
    BY <2>3, <2>4 DEF KnownRoots, LeavesUnder, LeafUnder
  <2> QED BY <2>2, <2>5 DEF Promise!treeVars
<1>4. ASSUME NEW k \in Index, Prove(k) PROVE UNCHANGED Promise!treeVars
  BY <1>3, <1>4 DEF Prove
<1>5. CASE DiscardReverts
  BY <1>3, <1>5 DEF DiscardReverts
<1>6. CASE UNCHANGED vars
  BY <1>3, <1>6 DEF vars
<1> QED BY <1>1, <1>2, <1>4, <1>5, <1>6 DEF Next

\* The incremental tree implements the abstract one: every operation appends or zeroes one
\* leaf, and the roots it accepts are the last ones since the last discard.
THEOREM TreeKeepsPromise == OrderedSpec => KeepsPromise
BY InitInv, NextInv, InitPromise, NextPromise, PTL DEF OrderedSpec, KeepsPromise, Promise!TreeSpec

=============================================================================
