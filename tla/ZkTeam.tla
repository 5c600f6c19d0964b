------------------------------- MODULE ZkTeam -------------------------------
(***************************************************************************)
(* The whole system: an admin and users run the client library             *)
(* (src/ZkTeamClient.ts, src/ZkTeamCore.ts) against one account, through   *)
(* the mempool of a bundler. A client call is split at its awaits: between *)
(* two reads of the chain, and between the last read and the execution of  *)
(* the operation, the other clients may get their operations executed.     *)
(*                                                                         *)
(* The clients are processes of the command line tools: each command       *)
(* starts from an empty cache of events, and may die at any await. For the *)
(* users in Direct, operations may also be made without the library, and   *)
(* the owner may call execute itself.                                      *)
(***************************************************************************)
EXTENDS ZkTeamAccount, FiniteSets

CONSTANTS
  Grants,           \* the allowances the admin sets
  Values,           \* the values users try to spend
  MaxAllowance,     \* MAXIMUM_ALLOWANCE, 2^128 - 1 in the code
  Calls,            \* what the operations of users call
  Direct,           \* the users that also use other software than the library
  Written,          \* the encrypted allowances of that software
  DirectValues,     \* its values
  MaxIndex,         \* bound on its indices
  ChunkSize,        \* commitments per discard transaction, 5 in the code
  EtherAmounts,     \* the amounts that the owner withdraws or anyone sends
  MaxDiscards,      \* bound on the commitments of a discard call
  MaxPending        \* bound on the operations in the mempool

ASSUME ClientSizes ==
  /\ Grants \subseteq Nat /\ Values \subseteq Nat /\ MaxAllowance \in Nat
  /\ Calls \subseteq Call /\ Direct \subseteq User /\ Written \subseteq EncryptedAllowance
  /\ DirectValues \subseteq Nat /\ MaxIndex \in Nat
  /\ ChunkSize \in Nat \ {0}
  /\ EtherAmounts \subseteq Nat /\ MaxDiscards \in Nat /\ MaxPending \in Nat

VARIABLES
  pending,          \* the mempool
  transfer,         \* user -> the transfer command it runs
  grant,            \* the allowance command the admin runs
  discard           \* the discard call the admin runs

clientVars == <<pending, transfer, grant, discard>>
vars == <<accountVars, clientVars>>

Idle == [at |-> "idle"]

-----------------------------------------------------------------------------
(* What a client reads from the events of the account                      *)

LogsOf(n) == {p \in DOMAIN executions : executions[p].nullifierHash = n}

\* Mutant of GetEncryptedAllowance: the last event is taken, of any nullifier.
GetLatestAllowance(n) ==
  IF LogsOf(n) = {} THEN HashZero ELSE executions[Len(executions)].encryptedAllowance

\* data.nullifierHashes keeps the last event of a nullifier.
GetEncryptedAllowance(n) ==
  IF LogsOf(n) = {} THEN HashZero
  ELSE LET last == CHOOSE p \in LogsOf(n) : \A q \in LogsOf(n) : q <= p
       IN executions[last].encryptedAllowance

\* Mutant of HasAllowance: the events of the user are counted.
HasEvents(n) ==
  Cardinality({p \in DOMAIN executions : executions[p].nullifierHash[1] = n[1]}) > n[2]

\* getLastIndex counts past the index of n.
HasAllowance(n) == GetEncryptedAllowance(n) # HashZero

\* What getLastIndex returns for user u while nothing is executed.
IsLastIndex(u, i) ==
  ~ HasAllowance(<<u, i>>) /\ \A j \in 0 .. i - 1 : HasAllowance(<<u, j>>)

GetLastIndex(u) == CHOOSE i \in 0 .. Len(executions) : IsLastIndex(u, i)

\* The wallet of a user: the note that its next transfer will spend.
Wallet(u) ==
  LET i == GetLastIndex(u)
  IN [user |-> u, index |-> i, amount |-> GetEncryptedAllowance(<<u, i - 1>>)]

\* Mutant of GetCommitmentHashes: discards are not looked at.
GetEveryCommitmentHash == [p \in DOMAIN executions |-> executions[p].commitmentHash]

\* getCommitmentHashes: a discard marks the last event of its commitment.
GetCommitmentHashes ==
  LET c(p) == executions[p].commitmentHash
  IN [p \in DOMAIN executions |->
        IF c(p) \in discards /\ \A q \in DOMAIN executions : q > p => c(q) # c(p)
        THEN Zero ELSE c(p)]

-----------------------------------------------------------------------------
(* ZkTeamClientUser.setTransaction                                         *)

Submit(op) == Cardinality(pending) < MaxPending /\ pending' = pending \cup {op}

\* Mutant of Sufficient: "Insufficient allowance" is never thrown.
AlwaysSufficient(note, value) == TRUE

Sufficient(note, value) == value <= note.amount

\* Mutant of Change: the new allowance is the old one.
ChangeUndiminished(note, value) ==
  [user |-> note.user, index |-> note.index + 1, amount |-> note.amount]

\* The note that the rest of the allowance goes into.
Change(note, value) ==
  [user |-> note.user, index |-> note.index + 1, amount |-> note.amount - value]

\* getLastIndex reads the chain for every index. Without an allowance at the first
\* one the command throws.
TransferStart(u, value, call) ==
  /\ transfer[u].at = "idle"
  /\ HasAllowance(<<u, 0>>)
  /\ transfer' = [transfer EXCEPT ![u] =
                    [at |-> "count", index |-> 1, value |-> value, call |-> call]]
  /\ UNCHANGED <<accountVars, pending, grant, discard>>

TransferCount(u) ==
  LET t == transfer[u]
  IN /\ t.at = "count"
     /\ transfer' = [transfer EXCEPT ![u] =
          IF HasAllowance(<<u, t.index>>) THEN [t EXCEPT !.index = @ + 1]
                                          ELSE [t EXCEPT !.at = "index"]]
     /\ UNCHANGED <<accountVars, pending, grant, discard>>

\* getDecryptedAllowance of the nullifier before, which may throw.
TransferAllowance(u) ==
  LET t == transfer[u]
      allowance == GetEncryptedAllowance(<<u, t.index - 1>>)
  IN /\ t.at = "index"
     /\ allowance \in Nat
     /\ transfer' = [transfer EXCEPT ![u] =
          [at |-> "allowance", value |-> t.value, call |-> t.call,
           note |-> [user |-> u, index |-> t.index, amount |-> allowance]]]
     /\ UNCHANGED <<accountVars, pending, grant, discard>>

\* generateProofInputs builds both roots from one read of the tree. It throws
\* when the note is not in it or does not cover the value.
TransferTree(u) ==
  LET t == transfer[u]
      tree == GetCommitmentHashes
      change == Change(t.note, t.value)
  IN /\ t.at = "allowance"
     /\ \E p \in DOMAIN tree : tree[p] = t.note
     /\ Sufficient(t.note, t.value)
     /\ transfer' = [transfer EXCEPT ![u] =
          [at |-> "tree", value |-> t.value, call |-> t.call, note |-> t.note,
           change |-> change, oldRoot |-> Root(tree),
           newRoot |-> Root(Append(tree, change))]]
     /\ UNCHANGED <<accountVars, pending, grant, discard>>

\* An operation around the signals of a proof, and one around a signature.
Proved(s, value, allowance, call) ==
  [signed |-> FALSE, init |-> FALSE, nonce |-> nonce, nullifier |-> s.nullifierHash,
   commitment |-> s.commitmentHash, value |-> value, encryptedAllowance |-> allowance,
   call |-> call, signals |-> s]

Signed(nullifier, c, value, allowance, call) ==
  [signed |-> TRUE, init |-> ~ deployed, nonce |-> nonce, nullifier |-> nullifier,
   commitment |-> c, value |-> value, encryptedAllowance |-> allowance, call |-> call]

\* createProvedUserOp: the gas estimate runs execute on the current state, the
\* nonce is read now, and the proof is made and verified before it is sent.
TransferSubmit(u) ==
  LET t == transfer[u]
      op == Proved([nullifierHash |-> Nullifier(t.note), oldRoot |-> t.oldRoot,
                    commitmentHash |-> t.change, newRoot |-> t.newRoot,
                    value |-> t.value, callDataHash |-> TRUE],
                   t.value, t.change.amount, t.call)
  IN /\ t.at = "tree"
     /\ Len(leaves) < Capacity /\ CallSucceeds(op, balance)
     /\ Provable(t.note.amount, t.value)
     /\ Submit(op)
     /\ transfer' = [transfer EXCEPT ![u] = Idle]
     /\ UNCHANGED <<accountVars, grant, discard>>

\* The command throws or is killed.
TransferFails(u) ==
  /\ transfer[u].at # "idle"
  /\ transfer' = [transfer EXCEPT ![u] = Idle]
  /\ UNCHANGED <<accountVars, pending, grant, discard>>

-----------------------------------------------------------------------------
(* ZkTeamClientAdmin.setAllowance                                          *)

\* The index is 0 while the account is not deployed, else it is counted.
GrantStart(u, amount) ==
  /\ grant.at = "idle"
  /\ amount <= MaxAllowance
  /\ grant' = [at |-> IF deployed THEN "count" ELSE "index", user |-> u,
               amount |-> amount, index |-> 0]
  /\ UNCHANGED <<accountVars, pending, transfer, discard>>

GrantCount ==
  /\ grant.at = "count"
  /\ grant' = IF HasAllowance(<<grant.user, grant.index>>)
               THEN [grant EXCEPT !.index = @ + 1] ELSE [grant EXCEPT !.at = "index"]
  /\ UNCHANGED <<accountVars, pending, transfer, discard>>

\* generateSignatureInputs, createSignedUserOp: the tree is read as well, but the
\* root computed from it is not sent.
GrantSubmit ==
  /\ grant.at = "index"
  /\ deployed => Len(leaves) < Capacity
  /\ Submit(Signed(<<grant.user, grant.index>>,
                   [user |-> grant.user, index |-> grant.index + 1,
                    amount |-> grant.amount],
                   0, grant.amount, Pay))
  /\ grant' = Idle
  /\ UNCHANGED <<accountVars, transfer, discard>>

GrantFails ==
  /\ grant.at # "idle"
  /\ grant' = Idle
  /\ UNCHANGED <<accountVars, pending, transfer, discard>>

-----------------------------------------------------------------------------
(* ZkTeamCore.discardCommitmentHashes: one read of the tree, then a        *)
(* transaction for every chunk, each awaited before the next is sent.      *)

\* getProof and discard find the first leaf that holds a commitment, in a tree in
\* which the ones listed before are gone already.
FirstOnes(tree, list) ==
  \A k \in DOMAIN list, q \in DOMAIN tree :
    q < list[k] /\ tree[q] = tree[list[k]] => \E m \in 1 .. k - 1 : list[m] = q

\* list: the leaves of the commitments, in the order of the caller.
DiscardStart(list) ==
  LET tree == GetCommitmentHashes
  IN /\ discard.at = "idle"
     /\ \A k \in DOMAIN list : tree[list[k]] # Zero /\ \A m \in 1 .. k - 1 : list[m] # list[k]
     /\ FirstOnes(tree, list)
     /\ discard' = [at |-> "chunks", tree |-> tree, left |-> list]
     /\ UNCHANGED <<accountVars, pending, transfer, grant>>

\* The first proof is about the root of the client's tree.
DiscardChunk ==
  LET n == Lesser(ChunkSize, Len(discard.left))
      chunk == SubSeq(discard.left, 1, n)
      rest == SubSeq(discard.left, n + 1, Len(discard.left))
  IN /\ discard.at = "chunks"
     /\ Root(discard.tree) = LastRoot
     /\ DiscardCommitmentHashes(chunk)
     /\ discard' = IF rest = <<>> THEN Idle
                   ELSE [discard EXCEPT !.tree = Zeroed(@, Positions(chunk)), !.left = rest]
     /\ UNCHANGED <<pending, transfer, grant>>

\* A proof is out of date and the transaction reverts, or the call is killed:
\* the chunks already executed stay discarded, the others are left out.
DiscardFails ==
  /\ discard.at # "idle"
  /\ discard' = Idle
  /\ UNCHANGED <<accountVars, pending, transfer, grant>>

-----------------------------------------------------------------------------
(* The bundler and the ether. An operation stays in the mempool after its  *)
(* execution, so that it may be delivered again, until it is dropped.      *)

ExecuteOp(op, fee) == Execute(op, fee) /\ UNCHANGED clientVars

RevertOp(op, fee) == ExecuteReverts(op, fee) /\ UNCHANGED clientVars

DropOp(op) ==
  /\ pending' = pending \ {op}
  /\ UNCHANGED <<accountVars, transfer, grant, discard>>

WithdrawEther(amount) == Withdraw(amount) /\ UNCHANGED clientVars

ReceiveEther(amount) == Receive(amount) /\ UNCHANGED clientVars

-----------------------------------------------------------------------------
(* Other software than the library. Its signals are about known roots, any *)
(* note and any change; whether there is a proof for them makes no         *)
(* difference to the account.                                              *)

DirectNote == [user : Direct, index : 1 .. MaxIndex, amount : 0 .. MaxAllowance]

DirectNullifier == Direct \X (0 .. MaxIndex - 1)

UserDirect(nullifier, c, old, proved, value, allowance, call, fee) ==
  /\ \E new \in SimulatedInsert(c) :
       Execute(Proved([nullifierHash |-> nullifier, oldRoot |-> old, commitmentHash |-> c,
                       newRoot |-> new, value |-> proved, callDataHash |-> TRUE],
                      value, allowance, call), fee)
  /\ UNCHANGED clientVars

OwnerDirect(nullifier, c, value, allowance, call) ==
  ExecuteByOwner(Signed(nullifier, c, value, allowance, call)) /\ UNCHANGED clientVars

-----------------------------------------------------------------------------
Init ==
  /\ AccountInit
  /\ pending = {}
  /\ transfer = [u \in User |-> Idle]
  /\ grant = Idle
  /\ discard = Idle

UserStep(u) ==
  \/ \E value \in Values, call \in Calls : TransferStart(u, value, call)
  \/ TransferCount(u)
  \/ TransferAllowance(u)
  \/ TransferTree(u)
  \/ TransferSubmit(u)
  \/ TransferFails(u)

AdminStep ==
  \/ \E u \in User, amount \in Grants : GrantStart(u, amount)
  \/ GrantCount
  \/ GrantSubmit
  \/ GrantFails
  \/ \E n \in 1 .. MaxDiscards : \E list \in [1 .. n -> DOMAIN executions] : DiscardStart(list)
  \/ DiscardChunk
  \/ DiscardFails

BundlerStep ==
  \E op \in pending :
    \/ \E fee \in Fees : ExecuteOp(op, fee) \/ RevertOp(op, fee)
    \/ DropOp(op)

EtherStep ==
  \E amount \in EtherAmounts : WithdrawEther(amount) \/ ReceiveEther(amount)

DirectStep ==
  \E nullifier \in DirectNullifier, c \in DirectNote, allowance \in Written, call \in Calls :
    \/ \E j \in DOMAIN known, proved, value \in DirectValues, fee \in Fees :
         UserDirect(nullifier, c, known[j], proved, value, allowance, call, fee)
    \/ \E value \in DirectValues : OwnerDirect(nullifier, c, value, allowance, call)

Next ==
  \/ \E u \in User : UserStep(u)
  \/ AdminStep
  \/ BundlerStep
  \/ EtherStep
  \/ DirectStep

Spec == Init /\ [][Next]_vars

-----------------------------------------------------------------------------
(* Properties                                                              *)

NoteOrZero == Note \cup {Zero}

TransferState ==
  [at : {"idle"}]
  \cup [at : {"count", "index"}, index : Nat, value : Nat, call : Call]
  \cup [at : {"allowance"}, value : Nat, call : Call, note : Note]
  \cup [at : {"tree"}, value : Nat, call : Call, note : Note, change : Note,
        oldRoot : Roots, newRoot : Roots]

GrantState ==
  [at : {"idle"}]
  \cup [at : {"count", "index"}, user : User, amount : Nat, index : Nat]

DiscardState ==
  [at : {"idle"}]
  \cup [at : {"chunks"}, tree : Seq(NoteOrZero), left : Seq(Nat)]

Log == [nullifierHash : User \X Nat, commitmentHash : Note,
        encryptedAllowance : EncryptedAllowance]

AccountTypeOK ==
  /\ deployed \in BOOLEAN /\ lawful \in BOOLEAN /\ inOrder \in BOOLEAN
  /\ leaves \in Seq(NoteOrZero)
  /\ known \in Seq(Roots)
  /\ DOMAIN nullifierHashes \subseteq User \X Nat
  /\ \A n \in DOMAIN nullifierHashes : nullifierHashes[n] \in EncryptedAllowance
  /\ nonce \in Nat /\ balance \in Nat
  /\ executions \in Seq(Log)
  /\ discards \subseteq Note
  /\ granted \in [User -> Nat] /\ paid \in [User -> Nat]

ClientTypeOK ==
  /\ pending \subseteq UserOp
  /\ transfer \in [User -> TransferState]
  /\ grant \in GrantState
  /\ discard \in DiscardState

\* Every variable has its type: in particular no client computes a negative
\* allowance, and every command is between two awaits of its call.
TypeOK == AccountTypeOK /\ ClientTypeOK

LiveNotes == {leaves[p] : p \in {q \in DOMAIN leaves : leaves[q] # Zero}}

\* The account as a ledger of notes: the leaves of the tree are the notes and
\* the nullifiers in use are the burnt ones.
Ledger == INSTANCE AllowanceLedger WITH
  notes <- LiveNotes, spent <- {n \in DOMAIN nullifierHashes : Used(n)}

\* The account with its clients implements the ledger. In particular a lawful
\* operation with a proof burns one live note whose nullifier was never burnt
\* and issues the rest of it, however old the reads behind the proof are.
ImplementsLedger == Ledger!LedgerSpec

\* While every executed operation was lawful, no user is paid more than the admin
\* granted it: whichever lawful operations are made, by the library or not, the
\* checks of validation let a note be spent once (ZkTeamAccount.sol:91-105). What
\* is not lawful is not held back by the account.
Budget == lawful => \A u \in User : paid[u] <= granted[u]

\* Whatever was executed between the reads of a command of the library and the
\* execution of its operation, and by whom: an operation that pays somebody is lawful
\* whenever it comes. The condition of Budget is none for those who only use the
\* library, and other software cannot make them break it.
LibraryKeepsLawful == \A op \in pending : lawful /\ op.call = Pay => Lawful(op)

\* isKnownRoot accepts RootHistorySize roots, but the root after the insertion
\* is compared with the current tree: an operation passes only if the tree did
\* not move at all since its client read it.
OnlyFreshProofsPass ==
  \A op \in pending : ~ op.signed /\ ValidateSignature(op) => op.signals.oldRoot = LastRoot

\* After a discard no operation that was made before it can pass, whether or
\* not it spends a discarded commitment.
DiscardStopsPending ==
  [][discards' # discards =>
       \A op \in pending : ~ op.signed => ~ ValidateSignature(op)']_vars

\* The client's tree has the root of the account, so that proofs can be made, as
\* long as leaves were discarded in order and no discarded commitment was inserted
\* twice (getCommitmentHashes marks the last event of it, getProof and update take
\* the first leaf). MerkleTree.sol:238-250 and DiscardedIsGone are the two ways to
\* break it.
TreeAgreement ==
  inOrder /\ (\A p, q \in DOMAIN executions :
                 /\ executions[p].commitmentHash = executions[q].commitmentHash
                 /\ executions[p].commitmentHash \in discards
                 => p = q)
  => Root(GetCommitmentHashes) = LastRoot

\* The executions of u encrypt what they commit to.
Truthful(u) ==
  \A p \in DOMAIN executions : LET e == executions[p] IN
    e.nullifierHash[1] = u =>
      e.commitmentHash = [user |-> u, index |-> e.nullifierHash[2] + 1,
                          amount |-> e.encryptedAllowance]

\* The note a user spends next, as its client computes it from the last
\* nullifier and the allowance decrypted from it, is the one the account has in
\* its tree, unless it was discarded: a late grant never strands a wallet.
WalletSound ==
  \A u \in User : Truthful(u) /\ GetLastIndex(u) # 0 =>
    Wallet(u) \in discards \/ \E p \in DOMAIN leaves : leaves[p] = Wallet(u)

-----------------------------------------------------------------------------
(* The inductive invariant behind the proofs: what the events say of the   *)
(* account, and what a client has learnt so far and can rely on for good.  *)

\* The newest root is that of the tree, or of nobody; the older ones are roots that
\* the tree had since the last discard.
RootCurrent ==
  /\ Len(known) > 0
  /\ LastRoot = Unknown => ~ inOrder
  /\ LastRoot # Unknown => LastRoot = Root(leaves)
  /\ \A j \in DOMAIN known : known[j] # Unknown => known[j] \subseteq Root(leaves)

\* The events tell which nullifiers are burnt with what, and the reads of a client
\* (the last event of a nullifier) have a result. Without unlawful operations the
\* indices are burnt without gaps.
EventsSound ==
  /\ DOMAIN nullifierHashes = {executions[p].nullifierHash : p \in DOMAIN executions}
  /\ \A n \in DOMAIN nullifierHashes : \E p \in LogsOf(n) :
       /\ \A q \in LogsOf(n) : q <= p
       /\ executions[p].encryptedAllowance = nullifierHashes[n]
  /\ lawful => \A n \in DOMAIN nullifierHashes : Used(n) /\ UsedBelow(n[1], n[2])

\* Every execution inserted the commitment it tells of at its own place, where
\* it still is unless it was discarded.
LogsSound ==
  /\ Len(leaves) = Len(executions)
  /\ \A p \in DOMAIN executions :
       LET c == executions[p].commitmentHash
       IN leaves[p] = c \/ (leaves[p] = Zero /\ c \in discards)
  /\ \A c \in discards : \E p \in DOMAIN executions :
       executions[p].commitmentHash = c /\ leaves[p] = Zero

\* new commits to what old does and, behind all of it, to c.
RootStep(old, new, c) ==
  \E e \in new : e[2] = c /\ new = old \cup {e} /\ \A d \in old : d[1] < e[1]

OpSound(op) ==
  LET c == op.commitment
  IN /\ c.index > 0
     /\ op.nullifier = <<c.user, c.index - 1>>
     /\ op.encryptedAllowance = c.amount
     /\ lawful => UsedBelow(c.user, c.index - 1)
     /\ ~ op.signed =>
          /\ SignalsMatch(op)
          /\ Provable(c.amount + op.value, op.value)
          /\ InRoot(op.signals.oldRoot, [user |-> c.user, index |-> c.index - 1,
                                        amount |-> c.amount + op.value])
          /\ RootStep(op.signals.oldRoot, op.signals.newRoot, c)
     /\ op.call \in Calls \cup {Pay}

TransferSound(u, t) ==
  /\ t.at \in {"count", "index"} => t.index > 0 /\ (lawful => UsedBelow(u, t.index))
  /\ t.at \in {"allowance", "tree"} =>
       t.note.user = u /\ t.note.index > 0 /\ (lawful => UsedBelow(u, t.note.index))
  /\ t.at = "tree" =>
       /\ t.value <= t.note.amount
       /\ t.change = Change(t.note, t.value)
       /\ InRoot(t.oldRoot, t.note)
       /\ RootStep(t.oldRoot, t.newRoot, t.change)
  /\ t.at # "idle" => t.call \in Calls

GrantSound(g) == g.at # "idle" => (lawful => UsedBelow(g.user, g.index))

ClientsSound ==
  /\ \A op \in pending : OpSound(op)
  /\ \A u \in User : TransferSound(u, transfer[u])
  /\ GrantSound(grant)

\* A proof made from as many leaves as there are now was made from all that are
\* left, or from one that is gone.
Ahead(old, new) ==
  \A e \in new :
    /\ e[1] <= Len(leaves) + 1
    /\ e[1] = Len(leaves) + 1 /\ old \subseteq Root(leaves) => old = Root(leaves)

ProofsAhead ==
  /\ \A op \in pending : ~ op.signed => Ahead(op.signals.oldRoot, op.signals.newRoot)
  /\ \A u \in User :
       transfer[u].at = "tree" => Ahead(transfer[u].oldRoot, transfer[u].newRoot)

\* What is proved to be inductive in ZkTeamProofs (ProofsAhead on top of IInv).
IInv == TypeOK /\ RootCurrent /\ EventsSound /\ LogsSound /\ ClientsSound

-----------------------------------------------------------------------------
(* What the documents say and concurrent commands break                    *)

\* test/ZkTeamClient.spec.ts:105-116, README.md:101: once the operation of
\* setAllowance is executed, that is the allowance of the user.
GrantTakesEffect ==
  [][\A u \in User : granted'[u] # granted[u] =>
       (Wallet(u).amount)' = granted'[u] - granted[u]]_vars

\* README.md:148: once the operation of a user is executed, its allowance is
\* what it was before, decremented by the value.
SpendDecrements ==
  [][\A u \in User : paid'[u] # paid[u] =>
       (Wallet(u).amount)' = Wallet(u).amount - (paid'[u] - paid[u])]_vars

\* README.md, Anomaly Detection API: a discarded commitment hash is cancelled,
\* no user can use it any more.
DiscardedIsGone == \A p \in DOMAIN leaves : leaves[p] \notin discards

\* README.md:142, encryption.ts:18: a user can spend its allowance as long as it
\* is within MAXIMUM_ALLOWANCE; an accepted value must then be provable.
AllowanceIsProvable ==
  \A u \in User : transfer[u].at = "tree" =>
    Provable(transfer[u].note.amount, transfer[u].value)
=============================================================================
