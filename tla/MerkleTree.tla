----------------------------- MODULE MerkleTree -----------------------------
(***************************************************************************)
(* contracts/MerkleTree.sol: an incremental Merkle tree that stores only   *)
(* the nodes along the path of the last insertion and a ring of roots,     *)
(* together with the caller that supplies membership proofs: a client that *)
(* rebuilds the whole tree from the events of the account                  *)
(* (src/utils/MerkleTree.ts) and whose proof may be old by the time the    *)
(* transaction that carries it is executed.                                *)
(***************************************************************************)
EXTENDS Integers, Sequences, SequencesExt

CONSTANTS
  Leaf,             \* the commitment hashes
  Zero,             \* Z_0, also the value of a roots entry that is not set
  NoProof,          \* no client holds a proof
  Depth,
  RootHistorySize,
  MaxLeaves         \* bound on the number of insertions of a run

ASSUME LeafNotZero == Zero \notin Leaf
ASSUME InitRequires ==
  /\ Depth \in Nat /\ RootHistorySize \in Nat /\ MaxLeaves \in Nat
  /\ Depth > 0
  /\ RootHistorySize > 0 /\ RootHistorySize <= Depth

VARIABLES
  numberOfLeaves,
  lastSubtrees,     \* level -> <<left node, right node>>
  roots,            \* slot of the ring -> root or Zero
  inserted,         \* the commitment hashes inserted, in order (events)
  discarded,        \* the positions in inserted that were discarded (events)
  proof             \* a membership proof on its way to the contract

vars == <<numberOfLeaves, lastSubtrees, roots, inserted, discarded, proof>>

Level == 0 .. Depth - 1
Slot == 0 .. RootHistorySize - 1

-----------------------------------------------------------------------------
(* Nodes. The hash is free: a node is the pair of its children.            *)

Hash(l, r) == <<l, r>>

DefaultZero[i \in 0 .. Depth] ==
  IF i = 0 THEN Zero ELSE Hash(DefaultZero[i - 1], DefaultZero[i - 1])

\* What can be a node of each level. The root of a tree is never Z_0, the value that
\* isKnownRoot refuses: no preimage of 0 under the hash is known.
NodeOf[i \in 0 .. Depth] ==
  IF i = 0 THEN Leaf \cup {Zero} ELSE NodeOf[i - 1] \X NodeOf[i - 1]

ASSUME RootNotZero == Zero \notin NodeOf[Depth]

TwoTo[i \in 0 .. Depth] == IF i = 0 THEN 1 ELSE 2 * TwoTo[i - 1]

Capacity == TwoTo[Depth]
Index == 0 .. Capacity - 1

\* index >>= 1, once per level; its lowest bit is the side of the node.
Shifted(n) ==
  LET index[i \in 0 .. Depth] == IF i = 0 THEN n ELSE index[i - 1] \div 2
  IN index

Bit(n, i) == Shifted(n)[i] % 2
Bits(n) == [i \in Level |-> Bit(n, i)]

\* The nodes from a leaf up to the root, given the other child at each level.
PathNodes(leaf, side, other) ==
  LET hash[i \in 0 .. Depth] ==
        IF i = 0 THEN leaf
        ELSE IF side[i - 1] = 0
             THEN Hash(hash[i - 1], other[i - 1])
             ELSE Hash(other[i - 1], hash[i - 1])
  IN hash

\* The whole tree over a function from Index: level -> index -> node.
TreeOver(leaves) ==
  LET node[i \in 0 .. Depth] ==
        IF i = 0 THEN leaves
        ELSE [k \in 0 .. TwoTo[Depth - i] - 1 |->
               Hash(node[i - 1][2 * k], node[i - 1][2 * k + 1])]
  IN node

\* The tree of a client, rebuilt from the events.
ClientLeaves ==
  [k \in Index |-> IF k < Len(inserted) /\ k \notin discarded
                     THEN inserted[k + 1] ELSE Zero]

ClientTree == TreeOver(ClientLeaves)

ClientRoot == ClientTree[Depth][0]

(* createProof: the sibling and the side of every node on the path of k.   *)
Sibling(k) == IF k % 2 = 0 THEN k + 1 ELSE k - 1

CreateProof(k) ==
  LET tree == ClientTree
  IN [leaf |-> tree[0][k],
      siblings |-> [i \in Level |-> tree[i][Sibling(Shifted(k)[i])]],
      pathIndices |-> Bits(k)]

-----------------------------------------------------------------------------
(* The operations of the library                                           *)

Init ==
  /\ numberOfLeaves = 0
  /\ lastSubtrees = [i \in Level |-> <<DefaultZero[i], DefaultZero[i]>>]
  /\ roots = [s \in Slot |-> IF s = 0 THEN DefaultZero[Depth] ELSE Zero]
  /\ inserted = <<>>
  /\ discarded = {}
  /\ proof = NoProof

LastSlot == numberOfLeaves % RootHistorySize

GetLastRoot == roots[LastSlot]

\* The nodes on the path of an insertion at numberOfLeaves.
InsertPath(leaf) ==
  PathNodes(leaf, Bits(numberOfLeaves),
            [i \in Level |-> IF Bit(numberOfLeaves, i) = 0
                               THEN DefaultZero[i] ELSE lastSubtrees[i][1]])

SimulatedInsert(leaf) == InsertPath(leaf)[Depth]

Insert(leaf) ==
  /\ numberOfLeaves < Capacity
  /\ LET hash == InsertPath(leaf)
         n == numberOfLeaves + 1
     IN /\ lastSubtrees' = [i \in Level |->
                              IF Bit(numberOfLeaves, i) = 0
                                THEN <<hash[i], DefaultZero[i]>>
                                ELSE <<lastSubtrees[i][1], hash[i]>>]
        /\ numberOfLeaves' = n
        /\ roots' = [roots EXCEPT ![n % RootHistorySize] = hash[Depth]]
  /\ inserted' = Append(inserted, leaf)
  /\ UNCHANGED <<discarded, proof>>

\* The ring is scanned downwards from the last slot, once around.
IsKnownRoot(root) == root # Zero /\ \E s \in Slot : roots[s] = root

\* The nodes recomputed from a proof, with newLeaf in the place of its leaf.
ProofPath(p, newLeaf) == PathNodes(newLeaf, p.pathIndices, p.siblings)

\* Mutant of Verify: any root of the history will do, as for the proofs of users.
VerifyKnownRoot(p) == IsKnownRoot(ProofPath(p, p.leaf)[Depth])

Verify(p) == ProofPath(p, p.leaf)[Depth] = GetLastRoot

\* updateIndex |= proofPathIndices[i] << i, once per level.
Gathered(side) ==
  LET index[i \in 0 .. Depth] ==
        IF i = 0 THEN 0 ELSE index[i - 1] + side[i - 1] * TwoTo[i - 1]
  IN index

UpdateIndex(p) == Gathered(p.pathIndices)[Depth]

\* Mutant of UpdatedPair: update leaves lastSubtrees to the next insertion.
UpdatedPairForgotten(p, i, node) == lastSubtrees[i]

\* The stored pair of level i follows when the sibling has the stored value.
UpdatedPair(p, i, node) ==
  LET pair == lastSubtrees[i]
  IN IF p.pathIndices[i] = 0
     THEN IF p.siblings[i] = pair[2] THEN <<node, pair[2]>> ELSE pair
     ELSE IF p.siblings[i] = pair[1] THEN <<pair[1], node>> ELSE pair

\* Mutant of UpdatedRoots: the older roots stay valid after a discard.
UpdatedRootsKept(root) == [roots EXCEPT ![LastSlot] = root]

UpdatedRoots(root) == [s \in Slot |-> IF s = LastSlot THEN root ELSE Zero]

UpdateRequires(p) ==
  /\ p.leaf # Zero
  /\ Verify(p)
  /\ UpdateIndex(p) < numberOfLeaves

Update(p) ==
  /\ UpdateRequires(p)
  /\ LET hash == ProofPath(p, Zero)
     IN /\ lastSubtrees' = [i \in Level |-> UpdatedPair(p, i, hash[i])]
        /\ roots' = UpdatedRoots(hash[Depth])
  /\ discarded' = discarded \cup {UpdateIndex(p)}
  /\ UNCHANGED <<numberOfLeaves, inserted>>

-----------------------------------------------------------------------------
(* The callers                                                             *)

\* The account inserts a commitment hash that was never inserted before.
InsertFresh(leaf) ==
  /\ Len(inserted) < MaxLeaves
  /\ leaf \notin ToSet(inserted)
  /\ Insert(leaf)

\* Mutant of Prove: the client forgets that leaves can be discarded.
ProveAny(k) ==
  /\ proof = NoProof
  /\ k < Len(inserted)
  /\ proof' = CreateProof(k)
  /\ UNCHANGED <<numberOfLeaves, lastSubtrees, roots, inserted, discarded>>

\* A client builds a proof for a leaf that it does not know to be discarded.
Prove(k) ==
  /\ proof = NoProof
  /\ k < Len(inserted) /\ k \notin discarded
  /\ proof' = CreateProof(k)
  /\ UNCHANGED <<numberOfLeaves, lastSubtrees, roots, inserted, discarded>>

Discard ==
  /\ proof # NoProof
  /\ Update(proof)
  /\ proof' = NoProof

\* The transaction reverts: the tree moved since the proof was built.
DiscardReverts ==
  /\ proof # NoProof
  /\ ~ UpdateRequires(proof)
  /\ proof' = NoProof
  /\ UNCHANGED <<numberOfLeaves, lastSubtrees, roots, inserted, discarded>>

Next ==
  \/ \E leaf \in Leaf : InsertFresh(leaf)
  \/ \E k \in Index : Prove(k)
  \/ Discard
  \/ DiscardReverts

Spec == Init /\ [][Next]_vars

(***************************************************************************)
(* The callers that the library copes with: a leaf is discarded only after *)
(* every older leaf that is going to be. A single call with the result of  *)
(* checkIntegrity does so while every nullifier has one event only; two    *)
(* calls need not.                                                         *)
(***************************************************************************)
OldestFirst == \A k \in discarded' \ discarded : \A d \in discarded : d < k

OrderedSpec == Init /\ [][Next /\ OldestFirst]_vars

-----------------------------------------------------------------------------
(* Properties                                                              *)

\* Every variable keeps its shape, and the leaf counter counts the insertions;
\* proofs are as long as the tree is deep.
TypeOK ==
  /\ numberOfLeaves \in 0 .. Capacity
  /\ DOMAIN lastSubtrees = Level /\ \A i \in Level : Len(lastSubtrees[i]) = 2
  /\ DOMAIN roots = Slot
  /\ inserted \in Seq(Leaf) /\ Len(inserted) = numberOfLeaves
  /\ discarded \subseteq 0 .. numberOfLeaves - 1
  /\ proof # NoProof =>
       /\ proof.leaf \in Leaf
       /\ DOMAIN proof.siblings = Level /\ DOMAIN proof.pathIndices = Level

\* The root the contract computes with its few stored nodes is the root of the
\* whole tree that every client rebuilds from the events. When it is not, no
\* proof of any client is accepted any more.
RootMatchesClients == GetLastRoot = ClientRoot

\* The left nodes that the next insertion is going to read are the current ones
\* (insert and simulatedInsert trust lastSubtrees, update keeps it up to date).
SubtreesCurrent ==
  \A i \in Level : Bit(numberOfLeaves, i) = 1 =>
    lastSubtrees[i][1] = ClientTree[i][Shifted(numberOfLeaves)[i] - 1]

\* update takes effect only with the proof a client would build at that moment,
\* whatever was inserted since the proof was built.
OnlyCurrentProofApplies ==
  [][discarded' # discarded => proof = CreateProof(UpdateIndex(proof))]_vars

(* The refinement mapping: the leaf at position k under a root, the set of *)
(* leaves a root commits to, and the ring read backwards from the last     *)
(* root to the first slot that is not set.                                 *)
Descent(root, k) ==
  LET node[d \in 0 .. Depth] ==
        IF d = 0 THEN root ELSE node[d - 1][1 + Bit(k, Depth - d)]
  IN node

LeafUnder(root, k) == Descent(root, k)[Depth]

LeavesUnder(root) ==
  {<<k + 1, LeafUnder(root, k)>> : k \in {j \in Index : LeafUnder(root, j) # Zero}}

RootBack(j) == roots[(LastSlot + RootHistorySize - j) % RootHistorySize]

HistoryEnds(h) ==
  /\ h \in 1 .. RootHistorySize
  /\ \A b \in 1 .. h - 1 : RootBack(b) # Zero
  /\ h < RootHistorySize => RootBack(h) = Zero

HistoryLength == CHOOSE h \in 1 .. RootHistorySize : HistoryEnds(h)

ListOfLeaves == [i \in 1 .. Len(inserted) |-> ClientLeaves[i - 1]]

KnownRoots == [j \in 1 .. HistoryLength |-> LeavesUnder(RootBack(j - 1))]

Promise == INSTANCE CommitmentTree WITH
  Commitment <- Leaf,
  Capacity <- Capacity,
  leaves <- ListOfLeaves,
  known <- KnownRoots,
  inOrder <- TRUE

\* The incremental tree keeps the promise of CommitmentTree: each operation
\* appends or zeroes one leaf, and the accepted roots are the last
\* RootHistorySize ones since the last discard.
KeepsPromise == Promise!TreeSpec
=============================================================================
