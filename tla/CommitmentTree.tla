--------------------------- MODULE CommitmentTree ---------------------------
(***************************************************************************)
(* What the commitment tree of a ZkTeamAccount promises to the account and *)
(* to the clients, with the hashing abstracted away: an append-only list   *)
(* of commitment hashes in which a leaf can be replaced by zero, and a     *)
(* short memory of the roots the list went through.                        *)
(*                                                                         *)
(* The module MerkleTree models how contracts/MerkleTree.sol computes this *)
(* incrementally; ZkTeam builds the whole system on the promise. The       *)
(* promise is weaker than one would like: once a leaf was discarded after  *)
(* a younger one, an insertion may give a root that is nobody's.           *)
(***************************************************************************)
EXTENDS Integers, Sequences

CONSTANTS
  Commitment,       \* the commitment hashes that can be inserted
  Zero,             \* the leaf 0 that a discarded commitment is replaced with
  Capacity,         \* number of leaves of the tree, 2^20 in the contract
  RootHistorySize   \* number of roots the contract keeps, 5 in the contract

VARIABLES
  leaves,           \* the leaves, in order of insertion
  known,            \* the roots isKnownRoot accepts, newest first
  inOrder           \* history: every discarded leaf was younger than those before

treeVars == <<leaves, known, inOrder>>

(***************************************************************************)
(* Poseidon is collision free on the inputs that occur, so a root stands   *)
(* for the leaves it commits to. Zero leaves do not count: an empty leaf   *)
(* and a discarded one hash alike, and so do a list and the same list      *)
(* followed by zeros.                                                      *)
(***************************************************************************)
Root(ls) == {<<i, ls[i]>> : i \in {j \in DOMAIN ls : ls[j] # Zero}}

\* Stands for a root that is not the root of any leaves.
Unknown == {<<0, Zero>>}

Zeroed(ls, P) == [i \in DOMAIN ls |-> IF i \in P THEN Zero ELSE ls[i]]

LastRoot == known[1]

IsKnownRoot(r) == \E j \in DOMAIN known : known[j] = r

(***************************************************************************)
(* The roots that an insertion of c can give: the one of the leaves, and,  *)
(* when update has met the leaves in another order, a root in which some   *)
(* stored node is out of date. All later roots have that node in them.     *)
(***************************************************************************)
SimulatedInsert(c) ==
  {r \in {Root(Append(leaves, c)), Unknown} :
     IF r = Unknown THEN ~ inOrder ELSE LastRoot # Unknown}

Lesser(m, n) == IF m < n THEN m ELSE n

\* The history with r in front; the oldest root drops out of a full one.
Remember(r) == [j \in 1 .. Lesser(RootHistorySize, Len(known) + 1) |->
                  IF j = 1 THEN r ELSE known[j - 1]]

TreeInit == leaves = <<>> /\ known = <<Root(<<>>)>> /\ inOrder = TRUE

TreeInsert(c, r) ==
  /\ Len(leaves) < Capacity
  /\ r \in SimulatedInsert(c)
  /\ leaves' = Append(leaves, c)
  /\ known' = Remember(r)
  /\ UNCHANGED inOrder

Positions(list) == {list[k] : k \in DOMAIN list}

\* Each of the listed leaves of ls is younger than every one zeroed before it.
Younger(ls, list) ==
  \A k \in DOMAIN list :
    /\ \A j \in DOMAIN ls : ls[j] = Zero => j < list[k]
    /\ \A m \in 1 .. k - 1 : list[m] < list[k]

\* Replace the listed leaves of ls by zero, one after the other; every older
\* root is forgotten. The proofs of the clients are about a root they know.
Discarding(ls, r, list) ==
  /\ r # Unknown
  /\ list # <<>>
  /\ \A k \in DOMAIN list :
       /\ list[k] \in DOMAIN ls /\ ls[list[k]] # Zero
       /\ \A m \in 1 .. k - 1 : list[m] # list[k]
  /\ leaves' = Zeroed(ls, Positions(list))
  /\ known' = <<Root(Zeroed(ls, Positions(list)))>>
  /\ inOrder' = (inOrder /\ Younger(ls, list))

TreeDiscard(list) == Discarding(leaves, LastRoot, list)

\* A discard behind an insertion, in one transaction.
TreeInsertAndDiscard(c, r, i) ==
  /\ Len(leaves) < Capacity
  /\ r \in SimulatedInsert(c)
  /\ Discarding(Append(leaves, c), r, <<i>>)

TreeNext ==
  \/ \E c \in Commitment : \E r \in SimulatedInsert(c) : TreeInsert(c, r)
  \/ \E i \in DOMAIN leaves : TreeDiscard(<<i>>)

TreeSpec == TreeInit /\ [][TreeNext]_treeVars
=============================================================================
