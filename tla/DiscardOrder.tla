---------------------------- MODULE DiscardOrder ----------------------------
(***************************************************************************)
(* MerkleTree with discards in any order. Once a leaf was discarded behind *)
(* a younger one, update may have left a stored left node out of date, and *)
(* the insertion that reads it gives a root that is nobody's: that much of *)
(* the promise of CommitmentTree is what the account can build on.         *)
(***************************************************************************)
EXTENDS MerkleTree

VARIABLE inOrder    \* history: every discarded leaf was younger than those before

orderVars == <<vars, inOrder>>

AnyOrderInit == Init /\ inOrder = TRUE

AnyOrderNext == Next /\ inOrder' = (inOrder /\ OldestFirst)

AnyOrderSpec == AnyOrderInit /\ [][AnyOrderNext]_orderVars

\* The root of j insertions ago, when it is the root of the leaves there were then.
\* No leaf was discarded since: that would have cleared the history.
RootOrUnknown(j) ==
  LET root == Promise!Root(SubSeq(ListOfLeaves, 1, Len(ListOfLeaves) - j))
  IN IF LeavesUnder(RootBack(j)) = root THEN root ELSE Promise!Unknown

WeakPromise == INSTANCE CommitmentTree WITH
  Commitment <- Leaf,
  Capacity <- Capacity,
  leaves <- ListOfLeaves,
  known <- [j \in 1 .. HistoryLength |-> RootOrUnknown(j - 1)],
  inOrder <- inOrder

\* In whatever order leaves are discarded: the accepted roots are those of the last
\* lists of leaves or, only after a discard behind a younger one, of nobody; such a
\* root is never followed by a good one, and nothing can be discarded under it
\* (MerkleTree.sol:238-250, and the proofs of the clients against its roots).
KeepsWeakPromise == WeakPromise!TreeSpec
=============================================================================
