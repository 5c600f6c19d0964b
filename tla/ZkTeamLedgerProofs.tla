------------------------- MODULE ZkTeamLedgerProofs -------------------------
(***************************************************************************)
(* The account with its clients implements AllowanceLedger, and therefore, *)
(* while what it executes is lawful, pays no user more than it was granted. *)
(* The step that matters is the execution of an operation with a proof: the *)
(* note it spends is under some known root, and all known roots are of     *)
(* leaves that the tree still has.                                         *)
(***************************************************************************)
EXTENDS ZkTeamProofs

L == INSTANCE AllowanceLedgerProofs WITH
  notes <- LiveNotes, spent <- {n \in DOMAIN nullifierHashes : Used(n)}

LEMMA LedgerInit == Init => L!LedgerInit
BY DEF Init, AccountInit, TreeInit, LiveNotes, L!LedgerInit, Used

\* A step that leaves the tree, the nullifiers and the sums alone
LEMMA LedgerStutter ==
  ASSUME UNCHANGED <<leaves, nullifierHashes, granted, paid, lawful>>
  PROVE  UNCHANGED L!ledgerVars
BY DEF L!ledgerVars, LiveNotes, Used

\* The notes are those in the root, or in any part of it.
LEMMA NotesInRoot ==
  ASSUME NEW root, root \subseteq Root(leaves), NEW n, InRoot(root, n)
  PROVE  n \in LiveNotes
BY DEF InRoot, Root, LiveNotes

LEMMA InsertNotes ==
  ASSUME leaves \in Seq(NoteOrZero), NEW c \in Note, leaves' = Append(leaves, c)
  PROVE  LiveNotes' = LiveNotes \cup {c}
<1>1. /\ DOMAIN leaves = 1 .. Len(leaves) /\ Len(leaves) \in Nat
      /\ DOMAIN leaves' = 1 .. Len(leaves) + 1
      /\ \A i \in 1 .. Len(leaves) : leaves'[i] = leaves[i]
      /\ leaves'[Len(leaves) + 1] = c
  OBVIOUS
<1>2. c # Zero
  BY ZeroIsNoNote
<1> QED BY <1>1, <1>2 DEF LiveNotes

LEMMA BelowInLedger ==
  ASSUME NEW u, NEW i, UsedBelow(u, i)
  PROVE  L!UsedBelow(u, i)
BY DEF UsedBelow, Used, L!UsedBelow

\* What was proved of a known root is true of the tree.
LEMMA ProvedNote ==
  ASSUME RootCurrent, NEW s, IsKnownRoot(s.oldRoot), CircuitHolds(s)
  PROVE  \E amount :
           /\ [user |-> s.nullifierHash[1], index |-> s.nullifierHash[2],
               amount |-> amount] \in LiveNotes
           /\ amount \in {e[2].amount : e \in s.oldRoot}
           /\ s.value <= amount /\ s.commitmentHash.amount = amount - s.value
<1>1. PICK amount \in {e[2].amount : e \in s.oldRoot \ Unknown} :
         /\ InRoot(s.oldRoot, [user |-> s.nullifierHash[1], index |-> s.nullifierHash[2],
                               amount |-> amount])
         /\ Provable(amount, s.value)
         /\ s.commitmentHash.amount = amount - s.value
  BY DEF CircuitHolds
<1>2. s.oldRoot # Unknown
  BY <1>1
<1>3. s.oldRoot \subseteq Root(leaves)
  BY <1>2 DEF RootCurrent, IsKnownRoot
<1>4. amount \in {e[2].amount : e \in s.oldRoot}
  BY <1>1
<1> QED BY <1>1, <1>3, <1>4, NotesInRoot DEF Provable

LEMMA LawfulStep ==
  ASSUME IInv, NEW op \in UserOp, NEW fee, ExecuteCall(op, fee), lawful, Lawful(op)
  PROVE  /\ LiveNotes' = LiveNotes \cup {op.commitment}
         /\ {n \in DOMAIN nullifierHashes : Used(n)}'
              = {n \in DOMAIN nullifierHashes : Used(n)} \cup {op.nullifier}
         /\ lawful' = lawful
<1>1. op.call.name # "discard"
  BY DEF Lawful, Pay
<1>2. leaves' = Append(leaves, op.commitment)
  BY <1>1 DEF ExecuteCall, TreeStep, TreeInsert
<1>3. LiveNotes' = LiveNotes \cup {op.commitment}
  BY <1>2, OpParts, InsertNotes, IInvParts DEF AccountTypeOK
<1>4. /\ DOMAIN nullifierHashes' = DOMAIN nullifierHashes \cup {op.nullifier}
      /\ nullifierHashes'[op.nullifier] # HashZero
      /\ \A n \in DOMAIN nullifierHashes :
           n # op.nullifier => nullifierHashes'[n] = nullifierHashes[n]
  BY DEF ExecuteCall, Lawful
<1>5. {n \in DOMAIN nullifierHashes : Used(n)}'
         = {n \in DOMAIN nullifierHashes : Used(n)} \cup {op.nullifier}
  BY <1>4 DEF Used
<1>6. lawful' = lawful
  BY DEF ExecuteCall
<1> QED BY <1>3, <1>5, <1>6

LEMMA SignedRefines ==
  ASSUME IInv, NEW op \in UserOp, NEW fee, ExecuteCall(op, fee), lawful, Lawful(op), op.signed
  PROVE  L!LedgerNext
<1> DEFINE c == op.commitment
<1>1. /\ c \in Note /\ c.index \in Nat /\ op.nullifier \in User \X Nat /\ op.nullifier[2] \in Nat
  BY OpParts
<1>2. /\ c.user = op.nullifier[1] /\ c.index = op.nullifier[2] + 1
      /\ UsedBelow(op.nullifier[1], op.nullifier[2])
  BY DEF Lawful
<1>3. c.index - 1 = op.nullifier[2] /\ c.index > 0 /\ <<c.user, c.index - 1>> = op.nullifier
  BY <1>1, <1>2
<1>4. /\ granted' = [granted EXCEPT ![c.user] = granted[c.user] + c.amount]
      /\ paid' = paid
  BY DEF ExecuteCall
<1>5. c \in L!Note /\ L!UsedBelow(c.user, c.index - 1)
  BY <1>1, <1>2, <1>3, BelowInLedger DEF Note, L!Note
<1>6. L!Grant(c) /\ c \in LiveNotes'
  BY <1>3, <1>4, <1>5, LawfulStep DEF L!Grant
<1> QED BY <1>6 DEF L!LedgerNext

LEMMA ProvedRefines ==
  ASSUME IInv, NEW op \in UserOp, NEW fee, ExecuteCall(op, fee), lawful, Lawful(op),
         ~ op.signed, ValidateSignature(op)
  PROVE  L!LedgerNext
<1> DEFINE c == op.commitment
           b == op.nullifier
           s == op.signals
<1>1. /\ c \in Note /\ c.amount \in Nat /\ b \in User \X Nat /\ b[2] \in Nat /\ s \in Signals
      /\ op.value \in Nat
  BY OpParts
<1>2. c.user = b[1] /\ c.index = b[2] + 1 /\ CircuitHolds(s) /\ op.call = Pay
  BY DEF Lawful
<1>3. /\ s.value = op.value /\ s.commitmentHash = c /\ s.nullifierHash = b
      /\ ~ Used(b) /\ IsKnownRoot(s.oldRoot)
  BY DEF ValidateSignature, SignalsMatch, RootsMatch
<1>4. PICK amount : /\ [user |-> b[1], index |-> b[2], amount |-> amount] \in LiveNotes
                    /\ amount \in {e[2].amount : e \in s.oldRoot}
                    /\ op.value <= amount /\ c.amount = amount - op.value
  BY <1>2, <1>3, ProvedNote, IInvParts
<1> DEFINE n == [user |-> b[1], index |-> b[2], amount |-> amount]
<1>5. amount \in Nat
  <2>1. n \in Note
    <3>1. leaves \in Seq(NoteOrZero)
      BY IInvParts DEF AccountTypeOK
    <3> QED BY <1>4, <3>1 DEF LiveNotes, NoteOrZero
  <2> QED BY <2>1 DEF Note
<1>6. n.user = b[1] /\ n.index = b[2] /\ n.amount = amount /\ <<n.user, n.index>> = b
      /\ n \in LiveNotes
  BY <1>1, <1>4
<1>7. n.amount - c.amount = op.value /\ c.amount <= n.amount
  BY <1>1, <1>4, <1>5, <1>6
<1>8. Outlay(op) = op.value
  BY <1>2 DEF Outlay, Pay
<1>9. paid' = [paid EXCEPT ![b[1]] = paid[b[1]] + op.value] /\ granted' = granted
  BY <1>8 DEF ExecuteCall
<1>10. c \in L!Note
  BY <1>1 DEF Note, L!Note
<1> HIDE DEF n, c, b, s
<1>11. /\ LiveNotes' = LiveNotes \cup {c} /\ c \in LiveNotes'
       /\ {x \in DOMAIN nullifierHashes : Used(x)}'
            = {x \in DOMAIN nullifierHashes : Used(x)} \cup {b}
       /\ lawful' = lawful
  BY LawfulStep DEF c, b
<1>12. <<n.user, n.index>> \notin {x \in DOMAIN nullifierHashes : Used(x)}
  BY <1>3, <1>6
<1>13. L!Spend(n, c)
  BY <1>2, <1>6, <1>7, <1>9, <1>10, <1>11, <1>12 DEF L!Spend
<1> QED BY <1>6, <1>11, <1>13 DEF L!LedgerNext

LEMMA ExecuteRefines ==
  ASSUME IInv, NEW op \in UserOp, NEW fee, ExecuteCall(op, fee),
         op.signed \/ ValidateSignature(op)
  PROVE  L!LedgerNext
<1>1. CASE lawful /\ Lawful(op)
  BY <1>1, SignedRefines, ProvedRefines
<1>2. CASE ~ (lawful /\ Lawful(op))
  <2>1. lawful' = FALSE
    BY <1>2 DEF ExecuteCall
  <2> QED BY <2>1 DEF L!LedgerNext, L!Lapse
<1> QED BY <1>1, <1>2

LEMMA DiscardRefines ==
  ASSUME IInv, DiscardChunk
  PROVE  L!LedgerNext
<1> DEFINE gone == LiveNotes \ LiveNotes'
<1>1. PICK P : leaves' = Zeroed(leaves, P)
  BY DEF DiscardChunk, DiscardCommitmentHashes, TreeDiscard, Discarding
<1>2. UNCHANGED <<nullifierHashes, granted, paid, lawful>>
  BY DEF DiscardChunk, DiscardCommitmentHashes
<1>3. LiveNotes' \subseteq LiveNotes
  <2>1. DOMAIN leaves' = DOMAIN leaves
    BY <1>1 DEF Zeroed
  <2>2. \A p \in DOMAIN leaves : leaves'[p] # Zero => leaves'[p] = leaves[p]
    BY <1>1 DEF Zeroed
  <2> QED BY <2>1, <2>2 DEF LiveNotes
<1>4. LiveNotes' = LiveNotes \ gone /\ gone \in SUBSET LiveNotes
  BY <1>3
<1>5. L!Discard(gone)
  BY <1>2, <1>4 DEF L!Discard, Used
<1> QED BY <1>4, <1>5 DEF L!LedgerNext

LEMMA StepRefines == IInv /\ [Next]_vars => [L!LedgerNext]_(L!ledgerVars)
<1> SUFFICES ASSUME IInv, [Next]_vars
             PROVE  L!LedgerNext \/ UNCHANGED L!ledgerVars
  OBVIOUS
<1> DEFINE Same == UNCHANGED <<leaves, nullifierHashes, granted, paid, lawful>>
<1>1. ASSUME NEW u \in User, UserStep(u) PROVE Same
  BY <1>1 DEF UserStep, TransferStart, TransferCount, TransferAllowance, TransferTree,
     TransferSubmit, TransferFails, accountVars
<1>2. CASE AdminStep
  <2>1. Same \/ DiscardChunk
    BY <1>2 DEF AdminStep, GrantStart, GrantCount, GrantSubmit, GrantFails, DiscardStart,
       DiscardFails, accountVars
  <2> QED BY <2>1, DiscardRefines, LedgerStutter
<1>3. ASSUME NEW op \in UserOp, NEW fee, ExecuteOp(op, fee) PROVE L!LedgerNext
  BY <1>3, OpParts, ExecuteRefines DEF ExecuteOp, Execute, Accepts
<1>4. CASE BundlerStep
  <2>1. Same \/ \E op \in pending, fee \in Fees : ExecuteOp(op, fee)
    BY <1>4 DEF BundlerStep, RevertOp, ExecuteReverts, DropOp, accountVars
  <2> QED BY <1>3, <2>1, PendingOp, LedgerStutter
<1>5. CASE EtherStep
  <2>1. Same
    BY <1>5 DEF EtherStep, WithdrawEther, Withdraw, ReceiveEther, Receive
  <2> QED BY <2>1, LedgerStutter
<1>6. CASE DirectStep
  <2>1. ASSUME NEW op \in UserOp, ExecuteByOwner(op) PROVE L!LedgerNext
    BY <2>1, ExecuteRefines DEF ExecuteByOwner
  <2> QED BY <1>3, <1>6, <2>1, DirectOp
<1>7. CASE UNCHANGED vars
  <2>1. Same
    BY <1>7 DEF vars, accountVars
  <2> QED BY <2>1, LedgerStutter
<1> QED BY <1>1, <1>2, <1>4, <1>5, <1>6, <1>7, LedgerStutter DEF Next

LEMMA LedgerRefinement == Spec => L!LedgerSpec
<1> QED BY LedgerInit, StepRefines, InductiveInvariant, PTL DEF Spec, L!LedgerSpec

\* The contract and its clients implement the ledger (execute, validateSignature and
\* discardCommitmentHashes of ZkTeamAccount.sol): an operation that is lawful is a
\* grant or burns a live note whose nullifier was never burnt, whoever made it.
THEOREM Implements == Spec => ImplementsLedger
<1>1. Ledger!LedgerInit <=> L!LedgerInit
  BY DEF Ledger!LedgerInit, L!LedgerInit
<1>2. Ledger!ledgerVars = L!ledgerVars
  BY DEF Ledger!ledgerVars, L!ledgerVars
<1>3. \A m : Ledger!Grant(m) <=> L!Grant(m)
  BY DEF Ledger!Grant, L!Grant, Ledger!Note, L!Note, Ledger!UsedBelow, L!UsedBelow
<1>4. \A n, m : Ledger!Spend(n, m) <=> L!Spend(n, m)
  BY DEF Ledger!Spend, L!Spend, Ledger!Note, L!Note
<1>5. \A gone : Ledger!Discard(gone) <=> L!Discard(gone)
  BY DEF Ledger!Discard, L!Discard
<1>6. Ledger!Lapse <=> L!Lapse
  BY DEF Ledger!Lapse, L!Lapse
<1>7. Ledger!LedgerNext <=> L!LedgerNext
  BY <1>3, <1>4, <1>5, <1>6 DEF Ledger!LedgerNext, L!LedgerNext
<1>8. [L!LedgerNext]_(L!ledgerVars) => [Ledger!LedgerNext]_(Ledger!ledgerVars)
  BY <1>7 DEF Ledger!ledgerVars, L!ledgerVars
<1> QED BY <1>1, <1>8, LedgerRefinement, PTL
    DEF ImplementsLedger, Ledger!LedgerSpec, L!LedgerSpec

\* While every executed operation was lawful no user is paid more than it was granted.
THEOREM WithinBudget == Spec => []Budget
<1>1. L!LedgerInv => Budget
  BY DEF L!LedgerInv, L!LedgerSound, L!Budget, Budget
<1> QED BY <1>1, LedgerRefinement, L!LedgerCorrect, PTL
=============================================================================
