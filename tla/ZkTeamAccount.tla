---------------------------- MODULE ZkTeamAccount ----------------------------
(***************************************************************************)
(* The smart account (contracts/ZkTeamAccount.sol), created by its factory *)
(* (contracts/ZkTeamAccountFactory.sol) with the first user operation, and *)
(* the part of the ERC-4337 EntryPoint that calls it: nonce check, gas     *)
(* prefund, validation, execution. One action is one user operation or one *)
(* transaction of the owner.                                               *)
(*                                                                         *)
(* The account takes whatever passes its own checks. What those leave to   *)
(* the clients is named here, as Lawful, and remembered in lawful.         *)
(***************************************************************************)
EXTENDS Integers, Sequences

CONSTANTS
  User,
  Zero,             \* the leaf of a discarded commitment
  HashZero,         \* 32 zero bytes in the place of an encrypted allowance
  Junk,             \* 32 bytes that do not decrypt
  Capacity,         \* number of leaves of the tree
  RootHistorySize,
  CircuitRange,     \* GreaterEqThan(64) compares within 2^64
  MaxNonce,         \* bound on the number of user operations that go through
  MaxBalance,       \* bound on the ether of the account
  Fees              \* what a user operation can cost the account: 0 if sponsored

(* A commitment hash hides a nullifier, a secret and an allowance; the     *)
(* first two are derived from the key of a user and an index.              *)
Note == [user : User, index : Nat, amount : Nat]

ASSUME AccountSizes ==
  /\ Zero \notin Note
  /\ HashZero \notin Nat /\ Junk \notin Nat /\ HashZero # Junk
  /\ Capacity \in Nat /\ RootHistorySize \in Nat \ {0} /\ CircuitRange \in Nat
  /\ MaxNonce \in Nat /\ MaxBalance \in Nat /\ Fees \subseteq Nat

VARIABLES
  deployed,         \* the factory has created the account
  leaves, known,    \* the commitment tree
  inOrder,          \* history: see CommitmentTree
  nullifierHashes,  \* nullifier -> encrypted allowance it was burnt with
  nonce,            \* of the account in the EntryPoint
  balance,          \* ether of the account
  executions,       \* the ZkTeamExecution events
  discards,         \* the commitment hashes of the ZkTeamDiscard events
  granted, paid,    \* history: user -> sums over the executed operations
  lawful            \* history: every executed operation was Lawful

INSTANCE CommitmentTree WITH Commitment <- Note

accountVars == <<deployed, leaves, known, inOrder, nullifierHashes, nonce, balance,
                 executions, discards, granted, paid, lawful>>

-----------------------------------------------------------------------------
Nullifier(n) == <<n.user, n.index>>

\* The 32 bytes are chosen by the caller. What decrypts is written as its plaintext.
EncryptedAllowance == Nat \cup {HashZero, Junk}

\* The entry of a nullifier is bytes32(0) until it is written, and after zero is.
Used(n) == n \in DOMAIN nullifierHashes /\ nullifierHashes[n] # HashZero

Roots == SUBSET (Nat \X (Note \cup {Zero}))

\* The destination and the data of an operation: somebody else is paid, or the
\* account calls its own withdraw or discardCommitmentHashes, of one leaf.
Call == [name : {"pay", "withdraw", "discard"}, arg : Nat]

Pay == [name |-> "pay", arg |-> 0]

\* The public signals of a proof. The hash of the call data is right or wrong.
Signals == [nullifierHash : User \X Nat, oldRoot : Roots, commitmentHash : Note,
            newRoot : Roots, value : Nat, callDataHash : BOOLEAN]

\* A user operation is signed by the owner (65 bytes) or carries a proof.
SignedOp == [signed : {TRUE}, init : BOOLEAN, nonce : Nat, nullifier : User \X Nat,
             commitment : Note, value : Nat, encryptedAllowance : EncryptedAllowance,
             call : Call]

ProvedOp == [signed : {FALSE}, init : BOOLEAN, nonce : Nat, nullifier : User \X Nat,
             commitment : Note, value : Nat, encryptedAllowance : EncryptedAllowance,
             call : Call, signals : Signals]

UserOp == SignedOp \cup ProvedOp

AccountInit ==
  /\ deployed = FALSE
  /\ TreeInit
  /\ nullifierHashes = [n \in {} |-> 0]
  /\ nonce = 0
  /\ balance = MaxBalance
  /\ executions = <<>>
  /\ discards = {}
  /\ granted = [u \in User |-> 0]
  /\ paid = [u \in User |-> 0]
  /\ lawful = TRUE

-----------------------------------------------------------------------------
(* Validation                                                              *)

\* The call data is what the signals tell of.
SignalsMatch(op) ==
  /\ op.signals.value = op.value
  /\ op.signals.commitmentHash = op.commitment
  /\ op.signals.nullifierHash = op.nullifier
  /\ op.signals.callDataHash

\* The signals are about the tree as it is.
RootsMatch(op) ==
  /\ IsKnownRoot(op.signals.oldRoot)
  /\ Len(leaves) < Capacity
  /\ op.signals.newRoot \in SimulatedInsert(op.commitment)

\* Mutants of ValidateSignature: the root after the insertion is not compared,
\* no root is, the nullifier is not looked up, or the call data is not compared.
ValidateWithoutNewRoot(op) ==
  ~ op.signed => SignalsMatch(op) /\ ~ Used(op.nullifier) /\ IsKnownRoot(op.signals.oldRoot)

ValidateNullifierOnly(op) == ~ op.signed => SignalsMatch(op) /\ ~ Used(op.nullifier)

ValidateRootsOnly(op) == ~ op.signed => SignalsMatch(op) /\ RootsMatch(op)

ValidateWithoutCallData(op) == ~ op.signed => ~ Used(op.nullifier) /\ RootsMatch(op)

\* verifyProof is called, but only the success of the call is looked at, not the
\* answer: no signals are refused there.
ValidateSignature(op) ==
  ~ op.signed => SignalsMatch(op) /\ ~ Used(op.nullifier) /\ RootsMatch(op)

\* The circuit accepts 0 <= oldAllowance - value < 2^64 only.
Provable(amount, value) == value <= amount /\ amount - value < CircuitRange

InRoot(root, n) == \E e \in root : e[2] = n

\* There is a proof for the signals: a note under the old root has the nullifier,
\* and the rest of it is under the new one.
CircuitHolds(s) ==
  \E amount \in {e[2].amount : e \in s.oldRoot \ Unknown} :
    /\ InRoot(s.oldRoot, [user |-> s.nullifierHash[1], index |-> s.nullifierHash[2],
                          amount |-> amount])
    /\ Provable(amount, s.value)
    /\ s.commitmentHash.amount = amount - s.value
    /\ InRoot(s.newRoot, s.commitmentHash)

\* All indices of u below i are in use.
UsedBelow(u, i) == \A j \in 0 .. i - 1 : Used(<<u, j>>)

(***************************************************************************)
(* What the account does not check. A proof is one; the new commitment is  *)
(* the next one of the same user, and no index was left out; the encrypted *)
(* allowance is not zero; and the account does not call itself.            *)
(***************************************************************************)
Lawful(op) ==
  /\ ~ op.signed => CircuitHolds(op.signals)
  /\ op.commitment.user = op.nullifier[1]
  /\ op.commitment.index = op.nullifier[2] + 1
  /\ UsedBelow(op.nullifier[1], op.nullifier[2])
  /\ op.encryptedAllowance # HashZero
  /\ op.call = Pay

-----------------------------------------------------------------------------
(* Execution                                                               *)

Outlay(op) == IF op.call.name = "withdraw" THEN op.call.arg ELSE op.value

\* withdraw and discardCommitmentHashes are not payable, and the account has to
\* have the ether, or the leaf and a root that a membership proof leads to.
CallSucceeds(op, ether) ==
  LET list == Append(leaves, op.commitment)
  IN /\ op.call # Pay => op.value = 0
     /\ Outlay(op) <= ether
     /\ op.call.name = "discard" =>
          /\ op.call.arg \in DOMAIN list /\ list[op.call.arg] # Zero
          /\ LastRoot # Unknown

\* The insertion, and the discard when that is what the account calls.
TreeStep(op, root) ==
  IF op.call.name = "discard"
  THEN /\ TreeInsertAndDiscard(op.commitment, root, op.call.arg)
       /\ discards' = discards \cup {Append(leaves, op.commitment)[op.call.arg]}
  ELSE TreeInsert(op.commitment, root) /\ UNCHANGED discards

\* The body of execute, when nothing in it reverts.
ExecuteCall(op, fee) ==
  /\ CallSucceeds(op, balance - fee)
  /\ nullifierHashes' =
       [n \in DOMAIN nullifierHashes \cup {op.nullifier} |->
          IF n = op.nullifier THEN op.encryptedAllowance ELSE nullifierHashes[n]]
  /\ \E root \in SimulatedInsert(op.commitment) : TreeStep(op, root)
  /\ executions' = Append(executions,
       [nullifierHash |-> op.nullifier, commitmentHash |-> op.commitment,
        encryptedAllowance |-> op.encryptedAllowance])
  /\ balance' = balance - fee - Outlay(op)
  /\ IF op.signed
     THEN /\ granted' = [granted EXCEPT ![op.commitment.user] = @ + op.commitment.amount]
          /\ UNCHANGED paid
     ELSE /\ paid' = [paid EXCEPT ![op.nullifier[1]] = @ + Outlay(op)]
          /\ UNCHANGED granted
  /\ lawful' = (lawful /\ Lawful(op))

\* The EntryPoint takes the operation: from here on its nonce and fee are gone.
Accepts(op, fee) ==
  /\ op.init = ~ deployed
  /\ op.nonce = nonce /\ nonce < MaxNonce
  /\ fee <= balance
  /\ ValidateSignature(op)

Execute(op, fee) ==
  /\ Accepts(op, fee)
  /\ deployed' = TRUE
  /\ nonce' = nonce + 1
  /\ ExecuteCall(op, fee)

\* execute reverts, because the tree is full, the balance or the gas does not
\* suffice or the destination reverts: only the nonce, the fee and the creation
\* of the account remain.
ExecuteReverts(op, fee) ==
  /\ Accepts(op, fee)
  /\ deployed' = TRUE
  /\ nonce' = nonce + 1
  /\ balance' = balance - fee
  /\ UNCHANGED <<leaves, known, inOrder, nullifierHashes, executions, discards,
                 granted, paid, lawful>>

\* A transaction of the owner that calls execute: nothing is validated.
ExecuteByOwner(op) ==
  /\ deployed /\ op.signed
  /\ ExecuteCall(op, 0)
  /\ UNCHANGED <<deployed, nonce>>

\* One transaction of the owner; it reverts unless every proof in it holds.
DiscardCommitmentHashes(list) ==
  /\ TreeDiscard(list)
  /\ discards' = discards \cup {leaves[i] : i \in Positions(list)}
  /\ UNCHANGED <<deployed, nullifierHashes, nonce, balance, executions, granted, paid,
                 lawful>>

Withdraw(amount) ==
  /\ deployed
  /\ amount <= balance
  /\ balance' = balance - amount
  /\ UNCHANGED <<deployed, leaves, known, inOrder, nullifierHashes, nonce, executions,
                 discards, granted, paid, lawful>>

Receive(amount) ==
  /\ balance + amount <= MaxBalance
  /\ balance' = balance + amount
  /\ UNCHANGED <<deployed, leaves, known, inOrder, nullifierHashes, nonce, executions,
                 discards, granted, paid, lawful>>
=============================================================================
