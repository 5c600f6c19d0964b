------------------------------ MODULE MCTrees ------------------------------
(***************************************************************************)
(* MerkleTree with discards in the order of the leaves and DiscardOrder,   *)
(* with discards in any order, in one run: two trees, of which a behaviour *)
(* uses one.                                                               *)
(***************************************************************************)
EXTENDS MCMerkleTree

VARIABLES scene, anyNumber, anySubtrees, anyRoots, anyInserted, anyDiscarded, anyProof, inOrder

anyVars ==
  <<anyNumber, anySubtrees, anyRoots, anyInserted, anyDiscarded, anyProof, inOrder>>

AnyOrder == INSTANCE DiscardOrder WITH
  numberOfLeaves <- anyNumber,
  lastSubtrees <- anySubtrees,
  roots <- anyRoots,
  inserted <- anyInserted,
  discarded <- anyDiscarded,
  proof <- anyProof

\* In whatever order leaves are discarded, MerkleTree is the tree that the account is
\* modelled with (MerkleTree.sol:238-250): the property of that name of DiscardOrder.
KeepsWeakPromise == AnyOrder!KeepsWeakPromise

AnyInFixedOrder == IsPrefix(anyInserted, FixedOrder)

TreesInit == scene \in {"oldest first", "any order"} /\ Init /\ AnyOrder!AnyOrderInit

TreesNext ==
  \/ scene = "oldest first" /\ Next /\ OldestFirst /\ UNCHANGED <<scene, anyVars>>
  \/ scene = "any order" /\ AnyOrder!AnyOrderNext /\ UNCHANGED <<scene, vars>>

TreesSpec == TreesInit /\ [][TreesNext]_<<scene, vars, anyVars>>
=============================================================================
