---------------------------- MODULE ZkTeamProofs ----------------------------
(***************************************************************************)
(* Proofs about ZkTeam for every set of users, every size of the tree and  *)
(* of its history, every bound of the model, and whichever operations are  *)
(* made without the library.                                               *)
(***************************************************************************)
EXTENDS ZkTeam, FiniteSetTheorems, WellFoundedInduction, TLAPS

-----------------------------------------------------------------------------
(* Roots                                                                   *)

LEMMA ZeroIsNoNote == \A n \in Note : n # Zero
BY AccountSizes

\* Appending a commitment adds one pair, behind all the others.
LEMMA RootAppend ==
  ASSUME NEW ls \in Seq(NoteOrZero), NEW c \in Note
  PROVE  /\ Root(Append(ls, c)) = Root(ls) \cup {<<Len(ls) + 1, c>>}
         /\ \A d \in Root(ls) : d[1] < Len(ls) + 1
<1>1. /\ Len(ls) \in Nat
      /\ DOMAIN ls = 1 .. Len(ls)
      /\ DOMAIN Append(ls, c) = 1 .. Len(ls) + 1
      /\ \A i \in 1 .. Len(ls) : Append(ls, c)[i] = ls[i]
      /\ Append(ls, c)[Len(ls) + 1] = c
  OBVIOUS
<1>2. c # Zero
  BY ZeroIsNoNote
<1> QED BY <1>1, <1>2 DEF Root

LEMMA RootType ==
  ASSUME NEW ls \in Seq(NoteOrZero)
  PROVE  Root(ls) \in Roots /\ Root(ls) # Unknown
<1>1. Root(ls) \subseteq Nat \X NoteOrZero /\ 0 \notin DOMAIN ls
  BY DEF Root
<1>2. <<0, Zero>> \notin Root(ls)
  BY <1>1 DEF Root
<1> QED BY <1>1, <1>2 DEF Roots, NoteOrZero, Unknown

LEMMA RootStepAppend ==
  ASSUME NEW ls \in Seq(NoteOrZero), NEW c \in Note
  PROVE  RootStep(Root(ls), Root(Append(ls, c)), c)
<1> DEFINE e == <<Len(ls) + 1, c>>
<1>1. e \in Root(Append(ls, c)) /\ e[2] = c /\ e[1] = Len(ls) + 1
  BY RootAppend
<1> QED BY <1>1, RootAppend DEF RootStep

\* A root determines the root before the last insertion: the comparison of new
\* roots in validateSignature also compares the old ones.
LEMMA RootStepUnique ==
  ASSUME NEW ls \in Seq(NoteOrZero), NEW c \in Note,
         NEW old \in Roots, RootStep(old, Root(Append(ls, c)), c)
  PROVE  old = Root(ls)
<1> DEFINE f == <<Len(ls) + 1, c>>
           new == Root(Append(ls, c))
<1>1. PICK e \in new : e[2] = c /\ new = old \cup {e} /\ \A d \in old : d[1] < e[1]
  BY DEF RootStep
<1>2. new = Root(ls) \cup {f} /\ \A d \in Root(ls) : d[1] < f[1]
  BY RootAppend
<1>3. Root(ls) \subseteq Nat \X NoteOrZero /\ old \subseteq Nat \X NoteOrZero
  BY RootType DEF Roots, NoteOrZero
<1>4. f \in Nat \X NoteOrZero /\ e \in Nat \X NoteOrZero
  BY <1>1, <1>2, <1>3 DEF NoteOrZero
<1>5. e = f
  <2>1. e \in Root(ls) \/ e = f
    BY <1>1, <1>2
  <2>2. f \in old \/ f = e
    BY <1>1, <1>2
  <2>3. ~ (e[1] < f[1] /\ f[1] < e[1])
    BY <1>4
  <2> QED BY <2>1, <2>2, <2>3, <1>1, <1>2
<1>6. e \notin old /\ f \notin Root(ls)
  BY <1>1, <1>2, <1>4
<1>7. old = new \ {e} /\ Root(ls) = new \ {f}
  <2> HIDE DEF f, new
  <2> QED BY <1>1, <1>2, <1>6
<1> QED BY <1>5, <1>7

\* An insertion gives the root of the leaves, or one that nobody's leaves have.
LEMMA InsertRoots ==
  ASSUME leaves \in Seq(NoteOrZero), NEW c \in Note, NEW r \in SimulatedInsert(c)
  PROVE  /\ Append(leaves, c) \in Seq(NoteOrZero)
         /\ r \in Roots
         /\ r = Unknown => ~ inOrder
         /\ r # Unknown => r = Root(Append(leaves, c)) /\ LastRoot # Unknown
<1>1. Append(leaves, c) \in Seq(NoteOrZero)
  BY DEF NoteOrZero
<1>2. Root(Append(leaves, c)) \in Roots /\ Root(Append(leaves, c)) # Unknown
  BY <1>1, RootType
<1>3. Unknown \in Roots
  BY DEF Unknown, Roots
<1> QED BY <1>1, <1>2, <1>3 DEF SimulatedInsert

\* A note in the new root of a proof: it is not the unknown one.
LEMMA RootStepKnown ==
  ASSUME NEW old, NEW new, NEW c \in Note, RootStep(old, new, c)
  PROVE  new # Unknown
<1>1. PICK e \in new : e[2] = c
  BY DEF RootStep
<1>2. c # Zero
  BY ZeroIsNoNote
<1> QED BY <1>1, <1>2 DEF Unknown

\* The comparison of the new roots in validateSignature pins the tree that the
\* old root was read from.
LEMMA RootsPin ==
  ASSUME NEW ls \in Seq(NoteOrZero), NEW c \in Note, NEW old \in Roots, NEW new,
         RootStep(old, new, c), new \in {Root(Append(ls, c)), Unknown}
  PROVE  old = Root(ls) /\ new = Root(Append(ls, c))
BY RootStepKnown, RootStepUnique

LEMMA RootsPinTree ==
  ASSUME leaves \in Seq(NoteOrZero), NEW c \in Note, RootCurrent, NEW old \in Roots,
         NEW new \in SimulatedInsert(c), RootStep(old, new, c)
  PROVE  old = Root(leaves) /\ old = LastRoot /\ new = Root(Append(leaves, c))
<1>1. new = Root(Append(leaves, c)) /\ LastRoot # Unknown
  BY InsertRoots, RootStepKnown
<1>2. old = Root(leaves)
  BY <1>1, RootsPin
<1> QED BY <1>1, <1>2 DEF RootCurrent

-----------------------------------------------------------------------------
(* What clients read                                                       *)

LEMMA LogsAreNumbers ==
  ASSUME AccountTypeOK
  PROVE  /\ Len(executions) \in Nat /\ DOMAIN executions = 1 .. Len(executions)
         /\ \A n : LogsOf(n) \subseteq 1 .. Len(executions)
         /\ \A p \in DOMAIN executions :
              /\ executions[p].nullifierHash \in User \X Nat
              /\ executions[p].commitmentHash \in Note
              /\ executions[p].encryptedAllowance \in EncryptedAllowance
<1>1. Len(executions) \in Nat /\ DOMAIN executions = 1 .. Len(executions)
  BY DEF AccountTypeOK
<1>2. \A p \in DOMAIN executions : executions[p] \in Log
  BY <1>1 DEF AccountTypeOK
<1> QED BY <1>1, <1>2 DEF LogsOf, Log

\* The last event of a nullifier
LEMMA LastRead ==
  ASSUME AccountTypeOK, EventsSound, NEW n \in DOMAIN nullifierHashes
  PROVE  \E p \in LogsOf(n) : /\ \A q \in LogsOf(n) : q <= p
                              /\ executions[p].encryptedAllowance = nullifierHashes[n]
                              /\ GetEncryptedAllowance(n) = nullifierHashes[n]
<1> DEFINE last == CHOOSE p \in LogsOf(n) : \A q \in LogsOf(n) : q <= p
<1>1. PICK p \in LogsOf(n) : /\ \A q \in LogsOf(n) : q <= p
                             /\ executions[p].encryptedAllowance = nullifierHashes[n]
  BY DEF EventsSound
<1>2. last \in LogsOf(n) /\ \A q \in LogsOf(n) : q <= last
  BY <1>1
<1>3. GetEncryptedAllowance(n) = executions[last].encryptedAllowance
  BY <1>1 DEF GetEncryptedAllowance
<1> HIDE DEF last
<1>4. last \in Nat /\ p \in Nat /\ last <= p /\ p <= last
  BY <1>1, <1>2, LogsAreNumbers
<1>5. last = p
  BY <1>4
<1> QED BY <1>1, <1>3, <1>5

LEMMA NothingRead ==
  ASSUME EventsSound, NEW n, n \notin DOMAIN nullifierHashes
  PROVE  GetEncryptedAllowance(n) = HashZero
BY DEF EventsSound, LogsOf, GetEncryptedAllowance

\* getLastIndex counts the nullifiers that the account holds for burnt.
LEMMA AllowanceIsUsed ==
  ASSUME AccountTypeOK, EventsSound
  PROVE  \A n : HasAllowance(n) <=> Used(n)
BY LastRead, NothingRead DEF HasAllowance, Used

LEMMA Least ==
  ASSUME NEW T \in SUBSET Nat, T # {}
  PROVE  \E i \in T : \A j \in T : i <= j
<1> DEFINE R == {ss \in Nat \X Nat : ss[1] < ss[2]}
<1>1. IsWellFoundedOn(R, Nat)
  BY NatLessThanWellFounded DEF OpToRel
<1> HIDE DEF R
<1>2. PICK i \in T : \A j \in T : ~ (<<j, i>> \in R)
  BY <1>1, WFMin
<1>3. \A j \in T : ~ (j < i)
  BY <1>2 DEF R
<1> QED BY <1>3

\* getLastIndex ends when nothing is executed: there are more indices than events.
LEMMA LastIndexRead ==
  ASSUME AccountTypeOK, EventsSound, NEW u \in User
  PROVE  GetLastIndex(u) \in 0 .. Len(executions) /\ IsLastIndex(u, GetLastIndex(u))
<1>1. PICK l : l = Len(executions)
  OBVIOUS
<1>2. l \in Nat /\ \A n : LogsOf(n) \subseteq 1 .. l
  BY <1>1, LogsAreNumbers
<1> DEFINE T == {i \in 0 .. l : ~ HasAllowance(<<u, i>>)}
           f == [i \in 0 .. l |-> CHOOSE p \in LogsOf(<<u, i>>) : TRUE]
<1>3. T # {}
  <2> SUFFICES ASSUME T = {} PROVE FALSE
    OBVIOUS
  <2>1. \A i \in 0 .. l : f[i] \in 1 .. l /\ executions[f[i]].nullifierHash = <<u, i>>
    <3> TAKE i \in 0 .. l
    <3>1. LogsOf(<<u, i>>) # {}
      BY DEF HasAllowance, GetEncryptedAllowance
    <3>2. f[i] \in LogsOf(<<u, i>>)
      BY <3>1
    <3> HIDE DEF f
    <3> QED BY <1>2, <3>2 DEF LogsOf
  <2>2. f \in [0 .. l -> 1 .. l]
    BY <2>1
  <2>3. /\ IsFiniteSet(0 .. l) /\ IsFiniteSet(1 .. l)
        /\ Cardinality(0 .. l) = l + 1 /\ Cardinality(1 .. l) = l
    <3>1. /\ IsFiniteSet(0 .. l) /\ IsFiniteSet(1 .. l)
          /\ Cardinality(0 .. l) = (IF 0 > l THEN 0 ELSE l - 0 + 1)
          /\ Cardinality(1 .. l) = (IF 1 > l THEN 0 ELSE l - 1 + 1)
      BY <1>2, FS_Interval
    <3> QED BY <1>2, <3>1
  <2> HIDE DEF f
  <2>4. PICK x \in 0 .. l, y \in 0 .. l : x # y /\ f[x] = f[y]
    <3>1. PICK A, B : A = 0 .. l /\ B = 1 .. l
      OBVIOUS
    <3>2. /\ IsFiniteSet(A) /\ IsFiniteSet(B) /\ Cardinality(B) < Cardinality(A)
          /\ f \in [A -> B]
      BY <1>2, <2>2, <2>3, <3>1
    <3>3. \E x, y \in A : x # y /\ f[x] = f[y]
      BY <3>2, FS_PigeonHole
    <3> QED BY <3>1, <3>3
  <2>5. <<u, x>> = <<u, y>>
    BY <2>1, <2>4
  <2> QED BY <2>4, <2>5
<1>4. PICK i \in T : \A j \in T : i <= j
  <2>1. T \in SUBSET Nat
    BY <1>2
  <2> HIDE DEF T
  <2> QED BY <1>3, <2>1, Least
<1>5. i \in 0 .. l /\ IsLastIndex(u, i)
  BY <1>2, <1>4 DEF IsLastIndex
<1> QED BY <1>1, <1>5 DEF GetLastIndex

LEMMA CommitmentsRead ==
  ASSUME AccountTypeOK
  PROVE  GetCommitmentHashes \in Seq(NoteOrZero)
<1>1. GetCommitmentHashes \in [1 .. Len(executions) -> NoteOrZero]
  BY LogsAreNumbers DEF GetCommitmentHashes, NoteOrZero
<1> QED BY <1>1, LogsAreNumbers

-----------------------------------------------------------------------------
(* The inductive invariant                                                 *)

LEMMA InitInv == Init => IInv
<1> SUFFICES ASSUME Init PROVE IInv
  OBVIOUS
<1> USE DEF Init, AccountInit, TreeInit, Root
<1>1. AccountTypeOK
  <2>1. Root(<<>>) = {}
    OBVIOUS
  <2>2. <<Root(<<>>)>> \in Seq(Roots)
    BY <2>1 DEF Roots
  <2>3. DOMAIN nullifierHashes = {}
    OBVIOUS
  <2>4. leaves \in Seq(NoteOrZero) /\ executions \in Seq(Log)
    OBVIOUS
  <2>5. nonce \in Nat /\ balance \in Nat
    BY AccountSizes
  <2>6. granted \in [User -> Nat] /\ paid \in [User -> Nat]
    OBVIOUS
  <2> QED BY <2>2, <2>3, <2>4, <2>5, <2>6 DEF AccountTypeOK
<1>2. ClientTypeOK
  BY DEF ClientTypeOK, TransferState, GrantState, DiscardState, Idle
<1>3. EventsSound
  <2>1. DOMAIN executions = {} /\ DOMAIN nullifierHashes = {}
    OBVIOUS
  <2>2. {executions[p].nullifierHash : p \in DOMAIN executions} = {}
    BY <2>1
  <2> QED BY <2>1, <2>2 DEF EventsSound
<1>4. ClientsSound
  BY DEF ClientsSound, TransferSound, GrantSound, Idle
<1>5. RootCurrent
  <2>1. leaves = <<>> /\ known = <<Root(leaves)>> /\ leaves \in Seq(NoteOrZero)
    OBVIOUS
  <2>2. Len(known) = 1 /\ known[1] = Root(leaves) /\ DOMAIN known = {1}
    BY <2>1
  <2>3. Root(leaves) # Unknown
    BY <2>1, RootType
  <2> HIDE DEF Root, Init, AccountInit, TreeInit
  <2> QED BY <2>2, <2>3 DEF RootCurrent, LastRoot
<1>6. LogsSound
  BY DEF LogsSound
<1> QED BY <1>1, <1>2, <1>3, <1>4, <1>5, <1>6 DEF IInv, TypeOK

\* What a client relies on is not taken back.
UsedStays == lawful' => lawful /\ \A n : Used(n) => Used(n)'

\* Steps of the clients: what was read of the account stays true.
LEMMA SameAccount ==
  ASSUME AccountTypeOK, RootCurrent, EventsSound, LogsSound, UNCHANGED accountVars
  PROVE  AccountTypeOK' /\ RootCurrent' /\ EventsSound' /\ LogsSound' /\ UsedStays
<1> USE DEF accountVars
<1>1. AccountTypeOK'
  BY DEF AccountTypeOK
<1>2. \A n : Used(n)' = Used(n) /\ LogsOf(n)' = LogsOf(n)
  BY DEF Used, LogsOf
<1>3. \A u, i : UsedBelow(u, i)' = UsedBelow(u, i)
  BY <1>2 DEF UsedBelow
<1>4. EventsSound'
  BY <1>2, <1>3 DEF EventsSound
<1>5. RootCurrent'
  BY DEF RootCurrent, LastRoot, Root
<1>6. LogsSound'
  BY DEF LogsSound
<1> QED BY <1>1, <1>2, <1>4, <1>5, <1>6 DEF UsedStays

\* While the account is lawful nullifiers stay burnt, so what a client relies on
\* stays true however long it waits.
LEMMA StaysSound ==
  ASSUME UsedStays
  PROVE  /\ \A op : OpSound(op) => OpSound(op)'
         /\ \A u, t : TransferSound(u, t) => TransferSound(u, t)'
         /\ \A g : GrantSound(g) => GrantSound(g)'
<1>1. \A u, i : (lawful => UsedBelow(u, i)) => (lawful' => UsedBelow(u, i)')
  BY DEF UsedBelow, UsedStays
<1>2. \A op : OpSound(op) => OpSound(op)'
  BY <1>1 DEF OpSound, SignalsMatch
<1>3. \A u, t : TransferSound(u, t) => TransferSound(u, t)'
  BY <1>1 DEF TransferSound
<1> QED BY <1>1, <1>2, <1>3 DEF GrantSound

\* Steps of the account
LEMMA AccountStep ==
  ASSUME IInv, UNCHANGED clientVars,
         AccountTypeOK', RootCurrent', EventsSound', LogsSound', UsedStays
  PROVE  IInv'
<1> USE DEF clientVars
<1>1. ClientTypeOK'
  BY DEF ClientTypeOK, IInv, TypeOK
<1>2. ClientsSound'
  BY StaysSound DEF ClientsSound, IInv
<1> QED BY <1>1, <1>2 DEF IInv, TypeOK

\* Steps of the clients
LEMMA ClientStep ==
  ASSUME IInv, UNCHANGED accountVars,
         \A op \in pending' : op \in pending \/ (op \in UserOp /\ OpSound(op)),
         transfer' \in [User -> TransferState],
         \A u \in User : transfer'[u] = transfer[u] \/ TransferSound(u, transfer'[u]),
         grant' \in GrantState,
         grant' = grant \/ GrantSound(grant'),
         discard' \in DiscardState
  PROVE  IInv'
<1>1. AccountTypeOK' /\ RootCurrent' /\ EventsSound' /\ LogsSound' /\ UsedStays
  BY SameAccount DEF IInv, TypeOK
<1>2. ClientTypeOK'
  BY DEF ClientTypeOK, IInv, TypeOK
<1>3. /\ \A op \in pending' : OpSound(op)'
      /\ \A u \in User : TransferSound(u, transfer[u]) => TransferSound(u, transfer'[u])
      /\ GrantSound(grant')
  BY <1>1, StaysSound DEF IInv, ClientsSound
<1>4. ClientsSound'
  BY <1>1, <1>3, StaysSound DEF IInv, ClientsSound
<1> QED BY <1>1, <1>2, <1>4 DEF IInv, TypeOK

\* A step of one user
LEMMA TransferStep ==
  ASSUME IInv, NEW u \in User, NEW t \in TransferState, TransferSound(u, t),
         transfer' = [transfer EXCEPT ![u] = t],
         \A op \in pending' : op \in pending \/ (op \in UserOp /\ OpSound(op)),
         UNCHANGED <<accountVars, grant, discard>>
  PROVE  IInv'
<1>1. transfer \in [User -> TransferState] /\ grant \in GrantState /\ discard \in DiscardState
  BY DEF IInv, TypeOK, ClientTypeOK
<1>2. /\ transfer' \in [User -> TransferState]
      /\ \A v \in User : transfer'[v] = transfer[v] \/ TransferSound(v, transfer'[v])
  BY <1>1
<1>3. grant' = grant /\ grant' \in GrantState /\ discard' \in DiscardState
  BY <1>1
<1> QED BY <1>2, <1>3, ClientStep

LEMMA IInvParts ==
  IInv <=> /\ AccountTypeOK /\ RootCurrent /\ EventsSound /\ LogsSound /\ ClientsSound
           /\ pending \subseteq UserOp
           /\ transfer \in [User -> TransferState]
           /\ grant \in GrantState
           /\ discard \in DiscardState
BY DEF IInv, TypeOK, ClientTypeOK

\* Counting one further
LEMMA CountOne ==
  ASSUME IInv, NEW u, NEW i \in Nat, lawful => UsedBelow(u, i), HasAllowance(<<u, i>>)
  PROVE  lawful => UsedBelow(u, i + 1)
<1>1. Used(<<u, i>>)
  BY AllowanceIsUsed, IInvParts
<1>2. \A j \in 0 .. i : j \in 0 .. i - 1 \/ j = i
  OBVIOUS
<1> QED BY <1>1, <1>2 DEF UsedBelow

LEMMA TransferStartInv ==
  ASSUME IInv, NEW u \in User, NEW value \in Values, NEW call \in Calls,
         TransferStart(u, value, call)
  PROVE  IInv'
<1> DEFINE t == [at |-> "count", index |-> 1, value |-> value, call |-> call]
<1>1. lawful => UsedBelow(u, 1)
  <2>1. lawful => UsedBelow(u, 0)
    BY DEF UsedBelow
  <2>2. lawful => UsedBelow(u, 0 + 1)
    BY <2>1, CountOne DEF TransferStart
  <2> QED BY <2>2
<1>2. t \in TransferState /\ TransferSound(u, t)
  BY <1>1, ClientSizes DEF TransferState, TransferSound
<1>3. /\ transfer' = [transfer EXCEPT ![u] = t]
      /\ pending' = pending /\ UNCHANGED <<accountVars, grant, discard>>
  BY DEF TransferStart
<1> HIDE DEF t
<1> QED BY <1>2, <1>3, TransferStep

LEMMA TransferCountInv ==
  ASSUME IInv, NEW u \in User, TransferCount(u)
  PROVE  IInv'
<1> DEFINE t == transfer[u]
           more == [at |-> "count", index |-> t.index + 1, value |-> t.value, call |-> t.call]
           done == [at |-> "index", index |-> t.index, value |-> t.value, call |-> t.call]
           new == IF HasAllowance(<<u, t.index>>) THEN more ELSE done
<1>1. /\ t.at = "count" /\ t.index \in Nat /\ t.value \in Nat /\ t.call \in Call
      /\ t = [at |-> "count", index |-> t.index, value |-> t.value, call |-> t.call]
  BY IInvParts DEF TransferState, TransferCount
<1>2. t.index > 0 /\ (lawful => UsedBelow(u, t.index)) /\ t.call \in Calls
  BY <1>1, IInvParts DEF ClientsSound, TransferSound
<1>3. HasAllowance(<<u, t.index>>) => (lawful => UsedBelow(u, t.index + 1))
  BY <1>1, <1>2, CountOne
<1>4. transfer' = [transfer EXCEPT ![u] = new]
  <2>1. transfer' = [transfer EXCEPT ![u] =
          IF HasAllowance(<<u, t.index>>) THEN [t EXCEPT !.index = t.index + 1]
                                          ELSE [t EXCEPT !.at = "index"]]
    BY DEF TransferCount
  <2>2. [t EXCEPT !.index = t.index + 1] = more /\ [t EXCEPT !.at = "index"] = done
    <3> HIDE DEF t
    <3> QED BY <1>1
  <2> HIDE DEF t, more, done
  <2> QED BY <2>1, <2>2
<1>5. more \in TransferState /\ done \in TransferState
  <2> HIDE DEF t
  <2> QED BY <1>1 DEF TransferState
<1>6. /\ HasAllowance(<<u, t.index>>) => TransferSound(u, more)
      /\ TransferSound(u, done)
  <2> HIDE DEF t
  <2> QED BY <1>1, <1>2, <1>3 DEF TransferSound
<1>7. pending' = pending /\ UNCHANGED <<accountVars, grant, discard>>
  BY DEF TransferCount
<1>8. new \in TransferState /\ TransferSound(u, new)
  <2> HIDE DEF more, done
  <2> QED BY <1>5, <1>6
<1> HIDE DEF new
<1> QED BY <1>4, <1>7, <1>8, TransferStep

LEMMA TransferAllowanceInv ==
  ASSUME IInv, NEW u \in User, TransferAllowance(u)
  PROVE  IInv'
<1> DEFINE t == transfer[u]
           n == <<u, t.index - 1>>
           note == [user |-> u, index |-> t.index, amount |-> GetEncryptedAllowance(n)]
           new == [at |-> "allowance", value |-> t.value, call |-> t.call, note |-> note]
<1>1. t.at = "index" /\ t.index \in Nat /\ t.value \in Nat /\ t.call \in Call
  BY IInvParts DEF TransferState, TransferAllowance
<1>2. t.index > 0 /\ (lawful => UsedBelow(u, t.index)) /\ t.call \in Calls
  BY <1>1, IInvParts DEF ClientsSound, TransferSound
<1>3. GetEncryptedAllowance(n) \in Nat
  BY DEF TransferAllowance
<1>4. new \in TransferState /\ TransferSound(u, new)
  BY <1>1, <1>2, <1>3 DEF TransferState, TransferSound, Note
<1>5. /\ transfer' = [transfer EXCEPT ![u] = new]
      /\ pending' = pending /\ UNCHANGED <<accountVars, grant, discard>>
  BY DEF TransferAllowance
<1> HIDE DEF new
<1> QED BY <1>4, <1>5, TransferStep

LEMMA TransferTreeInv ==
  ASSUME IInv, NEW u \in User, TransferTree(u)
  PROVE  IInv'
<1> DEFINE t == transfer[u]
           tree == GetCommitmentHashes
           change == Change(t.note, t.value)
           new == [at |-> "tree", value |-> t.value, call |-> t.call, note |-> t.note,
                   change |-> change, oldRoot |-> Root(tree),
                   newRoot |-> Root(Append(tree, change))]
<1>1. t.at = "allowance" /\ t.note \in Note /\ t.value \in Nat /\ t.call \in Call
  BY IInvParts DEF TransferState, TransferTree
<1>2. /\ t.note.user = u /\ t.note.index > 0 /\ (lawful => UsedBelow(u, t.note.index))
      /\ t.call \in Calls
  BY <1>1, IInvParts DEF ClientsSound, TransferSound
<1>3. t.value <= t.note.amount
  BY DEF Sufficient, TransferTree
<1>4. change \in Note
  <2>1. t.note.amount - t.value \in Nat /\ t.note.index + 1 \in Nat
    BY <1>1, <1>3 DEF Note
  <2> HIDE DEF t
  <2> QED BY <1>1, <2>1 DEF Note, Change
<1>5. tree \in Seq(NoteOrZero) /\ Append(tree, change) \in Seq(NoteOrZero)
  BY <1>4, CommitmentsRead, IInvParts DEF NoteOrZero
<1>6. Root(tree) \in Roots /\ Root(Append(tree, change)) \in Roots
  BY <1>5, RootType
<1>7. RootStep(Root(tree), Root(Append(tree, change)), change)
  BY <1>4, <1>5, RootStepAppend
<1>8. InRoot(Root(tree), t.note)
  <2>1. PICK p \in DOMAIN tree : tree[p] = t.note
    BY DEF TransferTree
  <2>2. <<p, t.note>> \in Root(tree)
    BY <1>1, <2>1, ZeroIsNoNote DEF Root
  <2> QED BY <2>2 DEF InRoot
<1>9. /\ transfer' = [transfer EXCEPT ![u] = new]
      /\ pending' = pending /\ UNCHANGED <<accountVars, grant, discard>>
  BY DEF TransferTree
<1>10. new \in TransferState /\ TransferSound(u, new)
  <2> HIDE DEF change, tree, t
  <2> QED BY <1>1, <1>2, <1>3, <1>4, <1>6, <1>7, <1>8 DEF TransferState, TransferSound, change, t
<1> HIDE DEF new
<1> QED BY <1>9, <1>10, TransferStep

\* What an operation around a proof, or around a signature, is made of
LEMMA ProvedType ==
  ASSUME AccountTypeOK, NEW s \in Signals, NEW value \in Nat,
         NEW allowance \in EncryptedAllowance, NEW call \in Call
  PROVE  Proved(s, value, allowance, call) \in UserOp
BY DEF AccountTypeOK, UserOp, ProvedOp, Proved, Signals

LEMMA SignedType ==
  ASSUME AccountTypeOK, NEW n \in User \X Nat, NEW c \in Note, NEW value \in Nat,
         NEW allowance \in EncryptedAllowance, NEW call \in Call
  PROVE  Signed(n, c, value, allowance, call) \in UserOp
BY DEF AccountTypeOK, UserOp, SignedOp, Signed

LEMMA TransferSubmitInv ==
  ASSUME IInv, NEW u \in User, TransferSubmit(u)
  PROVE  IInv'
<1> DEFINE t == transfer[u]
           s == [nullifierHash |-> Nullifier(t.note), oldRoot |-> t.oldRoot,
                 commitmentHash |-> t.change, newRoot |-> t.newRoot,
                 value |-> t.value, callDataHash |-> TRUE]
           op == Proved(s, t.value, t.change.amount, t.call)
<1>1. /\ t.at = "tree" /\ t.note \in Note /\ t.change \in Note /\ t.value \in Nat
      /\ t.oldRoot \in Roots /\ t.newRoot \in Roots /\ t.call \in Call
  BY IInvParts DEF TransferState, TransferSubmit
<1>2. TransferSound(u, t)
  BY IInvParts DEF ClientsSound
<1>3. /\ t.change.user = t.note.user /\ t.change.index = t.note.index + 1
      /\ t.change.amount = t.note.amount - t.value
  BY <1>1, <1>2 DEF TransferSound, Change
<1>4. op \in UserOp
  <2>1. s \in Signals
    <3>1. Nullifier(t.note) \in User \X Nat
      BY <1>1 DEF Nullifier, Note
    <3> HIDE DEF t
    <3> QED BY <1>1, <3>1 DEF Signals
  <2>2. t.change.amount \in EncryptedAllowance
    BY <1>1 DEF Note, EncryptedAllowance
  <2> HIDE DEF s, t
  <2> QED BY <1>1, <2>1, <2>2, ProvedType, IInvParts
<1>5. OpSound(op)
  <2>1. /\ t.note = [user |-> t.change.user, index |-> t.change.index - 1,
                     amount |-> t.change.amount + t.value]
        /\ t.note.amount = t.change.amount + t.value
    BY <1>1, <1>3 DEF Note
  <2>2. t.change.index - 1 = t.note.index /\ t.change.index > 0
    BY <1>1, <1>3 DEF Note
  <2>3. /\ InRoot(t.oldRoot, t.note) /\ RootStep(t.oldRoot, t.newRoot, t.change)
        /\ lawful => UsedBelow(t.note.user, t.note.index)
        /\ t.call \in Calls
    BY <1>1, <1>2 DEF TransferSound
  <2>4. Provable(t.note.amount, t.value)
    BY DEF TransferSubmit
  <2>5. /\ op.signed = FALSE /\ op.signals = s /\ op.commitment = t.change
        /\ op.nullifier = Nullifier(t.note) /\ op.value = t.value
        /\ op.encryptedAllowance = t.change.amount /\ op.call = t.call
    BY DEF Proved
  <2>6. /\ s.nullifierHash = Nullifier(t.note) /\ s.oldRoot = t.oldRoot
        /\ s.newRoot = t.newRoot /\ s.commitmentHash = t.change
        /\ s.value = t.value /\ s.callDataHash = TRUE
    OBVIOUS
  <2>7. op.nullifier = <<t.change.user, t.change.index - 1>>
    BY <1>3, <2>2, <2>5 DEF Nullifier
  <2> HIDE DEF t, s, op
  <2>8. SignalsMatch(op)
    BY <2>5, <2>6 DEF SignalsMatch
  <2> QED BY <1>3, <2>1, <2>2, <2>3, <2>4, <2>5, <2>6, <2>7, <2>8 DEF OpSound
<1>6. Idle \in TransferState /\ TransferSound(u, Idle)
  BY DEF Idle, TransferState, TransferSound
<1>7. /\ transfer' = [transfer EXCEPT ![u] = Idle]
      /\ pending' = pending \cup {op}
      /\ UNCHANGED <<accountVars, grant, discard>>
  BY DEF Submit, TransferSubmit
<1> HIDE DEF op
<1> QED BY <1>4, <1>5, <1>6, <1>7, TransferStep

LEMMA TransferFailsInv ==
  ASSUME IInv, NEW u \in User, TransferFails(u)
  PROVE  IInv'
<1>1. Idle \in TransferState /\ TransferSound(u, Idle)
  BY DEF Idle, TransferState, TransferSound
<1>2. /\ transfer' = [transfer EXCEPT ![u] = Idle]
      /\ pending' = pending /\ UNCHANGED <<accountVars, grant, discard>>
  BY DEF TransferFails
<1> QED BY <1>1, <1>2, TransferStep

LEMMA UserStepInv ==
  ASSUME IInv, NEW u \in User, UserStep(u)
  PROVE  IInv'
BY TransferStartInv, TransferCountInv, TransferAllowanceInv, TransferTreeInv,
   TransferSubmitInv, TransferFailsInv DEF UserStep

\* A step of the admin that leaves the account alone
LEMMA AdminClientStep ==
  ASSUME IInv,
         grant' \in GrantState, grant' = grant \/ GrantSound(grant'),
         discard' \in DiscardState,
         \A op \in pending' : op \in pending \/ (op \in UserOp /\ OpSound(op)),
         UNCHANGED <<accountVars, transfer>>
  PROVE  IInv'
<1>1. transfer' \in [User -> TransferState] /\ \A u \in User : transfer'[u] = transfer[u]
  BY IInvParts
<1> QED BY <1>1, ClientStep

LEMMA GrantStartInv ==
  ASSUME IInv, NEW u \in User, NEW amount \in Grants, GrantStart(u, amount)
  PROVE  IInv'
<1>1. UsedBelow(u, 0)
  BY DEF UsedBelow
<1>2. /\ \E at \in {"count", "index"} :
           grant' = [at |-> at, user |-> u, amount |-> amount, index |-> 0]
      /\ pending' = pending /\ discard' = discard
      /\ UNCHANGED <<accountVars, transfer>>
  BY DEF GrantStart
<1>3. grant' \in GrantState /\ GrantSound(grant')
  BY <1>1, <1>2, ClientSizes DEF GrantState, GrantSound
<1>4. discard' \in DiscardState
  BY <1>2, IInvParts
<1> QED BY <1>2, <1>3, <1>4, AdminClientStep

LEMMA GrantCountInv ==
  ASSUME IInv, GrantCount
  PROVE  IInv'
<1> DEFINE g == grant
           more == [at |-> "count", user |-> g.user, amount |-> g.amount, index |-> g.index + 1]
           done == [at |-> "index", user |-> g.user, amount |-> g.amount, index |-> g.index]
<1>1. /\ g.at = "count" /\ g.user \in User /\ g.amount \in Nat /\ g.index \in Nat
      /\ g = [at |-> "count", user |-> g.user, amount |-> g.amount, index |-> g.index]
      /\ lawful => UsedBelow(g.user, g.index)
  BY IInvParts DEF GrantCount, GrantState, ClientsSound, GrantSound
<1>2. HasAllowance(<<g.user, g.index>>) => (lawful => UsedBelow(g.user, g.index + 1))
  BY <1>1, CountOne
<1>3. \/ HasAllowance(<<g.user, g.index>>) /\ grant' = more
      \/ grant' = done
  <2>1. \/ HasAllowance(<<g.user, g.index>>) /\ grant' = [g EXCEPT !.index = g.index + 1]
        \/ grant' = [g EXCEPT !.at = "index"]
    BY DEF GrantCount
  <2>2. [g EXCEPT !.index = g.index + 1] = more /\ [g EXCEPT !.at = "index"] = done
    <3> HIDE DEF g
    <3> QED BY <1>1
  <2> HIDE DEF g, more, done
  <2> QED BY <2>1, <2>2
<1>4. more \in GrantState /\ done \in GrantState /\ GrantSound(done)
      /\ (HasAllowance(<<g.user, g.index>>) => GrantSound(more))
  <2> HIDE DEF g
  <2> QED BY <1>1, <1>2 DEF GrantState, GrantSound
<1>5. grant' \in GrantState /\ GrantSound(grant')
  <2> HIDE DEF more, done
  <2> QED BY <1>3, <1>4
<1>6. discard' \in DiscardState /\ pending' = pending /\ UNCHANGED <<accountVars, transfer>>
  BY IInvParts DEF GrantCount
<1> QED BY <1>5, <1>6, AdminClientStep

LEMMA GrantSubmitInv ==
  ASSUME IInv, GrantSubmit
  PROVE  IInv'
<1> DEFINE c == [user |-> grant.user, index |-> grant.index + 1, amount |-> grant.amount]
           op == Signed(<<grant.user, grant.index>>, c, 0, grant.amount, Pay)
<1>1. /\ grant.at = "index" /\ grant.user \in User /\ grant.amount \in Nat
      /\ grant.index \in Nat /\ (lawful => UsedBelow(grant.user, grant.index))
  BY IInvParts DEF GrantSubmit, GrantState, ClientsSound, GrantSound
<1>2. c \in Note /\ c.user = grant.user /\ c.index - 1 = grant.index /\ c.index > 0
      /\ c.amount = grant.amount
  BY <1>1 DEF Note
<1>3. op \in UserOp
  <2>1. Pay \in Call /\ grant.amount \in EncryptedAllowance
    BY <1>1 DEF Pay, Call, EncryptedAllowance
  <2> HIDE DEF c
  <2> QED BY <1>1, <1>2, <2>1, SignedType, IInvParts
<1>4. OpSound(op)
  <2>1. /\ op.signed = TRUE /\ op.commitment = c /\ op.nullifier = <<grant.user, grant.index>>
        /\ op.encryptedAllowance = grant.amount /\ op.call = Pay
    BY DEF Signed
  <2> HIDE DEF op, c
  <2> QED BY <1>1, <1>2, <2>1 DEF OpSound
<1>5. /\ grant' = Idle /\ pending' = pending \cup {op} /\ discard' = discard
      /\ UNCHANGED <<accountVars, transfer>>
  BY DEF GrantSubmit, Submit
<1> HIDE DEF op
<1>6. grant' \in GrantState /\ GrantSound(grant') /\ discard' \in DiscardState
  BY <1>5, IInvParts DEF Idle, GrantState, GrantSound
<1> QED BY <1>3, <1>4, <1>5, <1>6, AdminClientStep

LEMMA GrantFailsInv ==
  ASSUME IInv, GrantFails
  PROVE  IInv'
<1>1. grant' \in GrantState /\ GrantSound(grant') /\ discard' \in DiscardState
  BY IInvParts DEF GrantFails, Idle, GrantState, GrantSound
<1> QED BY <1>1, AdminClientStep DEF GrantFails

LEMMA DiscardStartInv ==
  ASSUME IInv, NEW n \in Nat, NEW list \in [1 .. n -> DOMAIN executions], DiscardStart(list)
  PROVE  IInv'
<1>1. list \in Seq(Nat)
  <2>1. list \in [1 .. n -> Nat]
    BY IInvParts, LogsAreNumbers
  <2> QED BY <2>1
<1>2. GetCommitmentHashes \in Seq(NoteOrZero)
  BY IInvParts, CommitmentsRead
<1>3. discard' = [at |-> "chunks", tree |-> GetCommitmentHashes, left |-> list]
  BY DEF DiscardStart
<1>4. discard' \in DiscardState
  BY <1>1, <1>2, <1>3 DEF DiscardState
<1>5. grant' = grant /\ grant' \in GrantState /\ pending' = pending
      /\ UNCHANGED <<accountVars, transfer>>
  BY IInvParts DEF DiscardStart
<1> QED BY <1>4, <1>5, AdminClientStep

LEMMA DiscardFailsInv ==
  ASSUME IInv, DiscardFails
  PROVE  IInv'
<1>1. grant' = grant /\ grant' \in GrantState /\ discard' \in DiscardState
  BY IInvParts DEF DiscardFails, DiscardState, Idle
<1> QED BY <1>1, AdminClientStep DEF DiscardFails

LEMMA DropOpInv ==
  ASSUME IInv, NEW op \in pending, DropOp(op)
  PROVE  IInv'
<1>1. grant' = grant /\ grant' \in GrantState /\ discard' \in DiscardState
  BY IInvParts DEF DropOp
<1> QED BY <1>1, AdminClientStep DEF DropOp

-----------------------------------------------------------------------------
(* Steps of the account                                                    *)

LEMMA ZeroedType ==
  ASSUME NEW ls \in Seq(NoteOrZero), NEW P
  PROVE  /\ Zeroed(ls, P) \in Seq(NoteOrZero)
         /\ DOMAIN Zeroed(ls, P) = DOMAIN ls /\ Len(Zeroed(ls, P)) = Len(ls)
         /\ \A i \in DOMAIN ls : Zeroed(ls, P)[i] = IF i \in P THEN Zero ELSE ls[i]
<1>1. DOMAIN ls = 1 .. Len(ls) /\ Len(ls) \in Nat
  OBVIOUS
<1>2. Zeroed(ls, P) \in [1 .. Len(ls) -> NoteOrZero]
  BY <1>1 DEF Zeroed, NoteOrZero
<1>3. DOMAIN Zeroed(ls, P) = DOMAIN ls
      /\ \A i \in DOMAIN ls : Zeroed(ls, P)[i] = IF i \in P THEN Zero ELSE ls[i]
  BY DEF Zeroed
<1>4. Zeroed(ls, P) \in Seq(NoteOrZero)
  BY <1>1, <1>2
<1> HIDE DEF Zeroed
<1>5. Len(Zeroed(ls, P)) = Len(ls)
  BY <1>1, <1>3, <1>4
<1> QED BY <1>3, <1>4, <1>5

\* A discard takes something away from the tree.
LEMMA RootZeroed ==
  ASSUME NEW ls \in Seq(NoteOrZero), NEW P \in SUBSET DOMAIN ls, P # {},
         \A i \in P : ls[i] # Zero
  PROVE  Root(Zeroed(ls, P)) \subseteq Root(ls) /\ Root(Zeroed(ls, P)) # Root(ls)
<1> DEFINE zs == Zeroed(ls, P)
<1>1. /\ DOMAIN zs = DOMAIN ls
      /\ \A i \in DOMAIN ls : zs[i] = IF i \in P THEN Zero ELSE ls[i]
  BY DEF Zeroed
<1>2. PICK i \in P : TRUE
  OBVIOUS
<1>3. i \in DOMAIN ls /\ zs[i] = Zero /\ ls[i] # Zero
  BY <1>1, <1>2
<1> HIDE DEF zs
<1>4. <<i, ls[i]>> \in Root(ls) /\ <<i, ls[i]>> \notin Root(zs)
  BY <1>3 DEF Root
<1>5. Root(zs) \subseteq Root(ls)
  BY <1>1 DEF Root
<1> QED BY <1>4, <1>5 DEF zs

LEMMA RememberType ==
  ASSUME known \in Seq(Roots), NEW r \in Roots
  PROVE  /\ Remember(r) \in Seq(Roots) /\ Len(Remember(r)) > 0 /\ Remember(r)[1] = r
         /\ \A j \in DOMAIN Remember(r) :
              Remember(r)[j] = r \/ \E k \in DOMAIN known : Remember(r)[j] = known[k]
<1> DEFINE n == Lesser(RootHistorySize, Len(known) + 1)
           f(j) == IF j = 1 THEN r ELSE known[j - 1]
<1>1. n \in Nat \ {0} /\ n <= Len(known) + 1 /\ DOMAIN known = 1 .. Len(known)
  BY AccountSizes DEF Lesser
<1>2. \A j \in 1 .. n : f(j) = r \/ \E k \in DOMAIN known : f(j) = known[k]
  <2> TAKE j \in 1 .. n
  <2>1. CASE j # 1
    <3>1. j - 1 \in DOMAIN known
      BY <1>1, <2>1
    <3> QED BY <2>1, <3>1
  <2> QED BY <2>1
<1>3. \A j \in 1 .. n : f(j) \in Roots
  BY <1>2
<1>4. f(1) = r /\ 1 \in 1 .. n
  BY <1>1
<1> HIDE DEF n, f
<1>5. PICK g : g = [j \in 1 .. n |-> f(j)]
  OBVIOUS
<1>6. g \in Seq(Roots) /\ DOMAIN g = 1 .. n /\ Len(g) = n
  BY <1>1, <1>3, <1>5
<1>7. g[1] = r /\ \A j \in DOMAIN g : g[j] = r \/ \E k \in DOMAIN known : g[j] = known[k]
  BY <1>2, <1>4, <1>5
<1>8. Remember(r) = g
  BY <1>5 DEF Remember, n, f
<1> QED BY <1>1, <1>6, <1>7, <1>8

\* What is left of the leaves after some are discarded, and the root of that
LEMMA DiscardingType ==
  ASSUME NEW ls \in Seq(NoteOrZero), NEW r, NEW S, NEW list \in Seq(S),
         Discarding(ls, r, list)
  PROVE  /\ Positions(list) \in SUBSET DOMAIN ls /\ Positions(list) # {}
         /\ \A i \in Positions(list) : ls[i] # Zero
         /\ leaves' = Zeroed(ls, Positions(list)) /\ leaves' \in Seq(NoteOrZero)
         /\ known' \in Seq(Roots)
         /\ RootCurrent'
<1>1. /\ \A i \in Positions(list) : i \in DOMAIN ls /\ ls[i] # Zero
      /\ Positions(list) # {}
  <2>1. list # <<>> /\ \A k \in DOMAIN list : list[k] \in DOMAIN ls /\ ls[list[k]] # Zero
    BY DEF Discarding
  <2>2. \E k : k \in DOMAIN list
    BY DEF Discarding
  <2> QED BY <2>1, <2>2 DEF Positions
<1>2. PICK zs : zs = Zeroed(ls, Positions(list))
  OBVIOUS
<1>3. leaves' = zs /\ known' = <<Root(zs)>>
  BY <1>2 DEF Discarding
<1>4. zs \in Seq(NoteOrZero) /\ Root(zs) \in Roots /\ Root(zs) # Unknown
  BY <1>2, ZeroedType, RootType
<1>5. PICK rt : rt = Root(zs)
  OBVIOUS
<1>6. Root(leaves)' = rt
  BY <1>3, <1>5 DEF Root
<1>7. known' = <<rt>> /\ rt \in Roots /\ rt # Unknown
  BY <1>3, <1>4, <1>5
<1>8. RootCurrent'
  BY <1>6, <1>7 DEF RootCurrent, LastRoot
<1> QED BY <1>1, <1>2, <1>3, <1>4, <1>7, <1>8

\* The steps that the tree can make under execute
LEMMA ExecuteTree ==
  ASSUME AccountTypeOK, NEW op \in UserOp, NEW fee, ExecuteCall(op, fee)
  PROVE  \E root \in SimulatedInsert(op.commitment) :
           \/ /\ leaves' = Append(leaves, op.commitment) /\ known' = Remember(root)
              /\ inOrder' = inOrder /\ discards' = discards
           \/ \E i :
                /\ Discarding(Append(leaves, op.commitment), root, <<i>>)
                /\ discards' = discards \cup {Append(leaves, op.commitment)[i]}
BY DEF ExecuteCall, TreeStep, TreeInsert, TreeInsertAndDiscard

LEMMA OneListed == \A i : Positions(<<i>>) = {i}
BY DEF Positions

LEMMA OpParts ==
  ASSUME NEW op \in UserOp
  PROVE  /\ op.commitment \in Note /\ op.commitment.user \in User
         /\ op.commitment.index \in Nat /\ op.commitment.amount \in Nat
         /\ op.value \in Nat /\ op.nullifier \in User \X Nat /\ op.nullifier[1] \in User
         /\ op.nullifier[2] \in Nat /\ op.encryptedAllowance \in EncryptedAllowance
         /\ op.call \in Call /\ op.call.arg \in Nat /\ Outlay(op) \in Nat
         /\ op.signed \in BOOLEAN
         /\ ~ op.signed => op.signals \in Signals
<1>1. /\ op.commitment \in Note /\ op.value \in Nat /\ op.nullifier \in User \X Nat
      /\ op.encryptedAllowance \in EncryptedAllowance /\ op.call \in Call
      /\ op.signed \in BOOLEAN
      /\ ~ op.signed => op.signals \in Signals
  BY DEF UserOp, SignedOp, ProvedOp
<1>2. op.call.arg \in Nat
  BY <1>1 DEF Call
<1>3. Outlay(op) \in Nat
  BY <1>1, <1>2 DEF Outlay
<1> QED BY <1>1, <1>2, <1>3 DEF Note

LEMMA ExecuteTreeType ==
  ASSUME AccountTypeOK, RootCurrent, NEW op \in UserOp, NEW fee, ExecuteCall(op, fee)
  PROVE  /\ leaves' \in Seq(NoteOrZero) /\ known' \in Seq(Roots)
         /\ inOrder' \in BOOLEAN /\ discards' \subseteq Note
         /\ Len(leaves') = Len(leaves) + 1
         /\ RootCurrent'
<1> DEFINE c == op.commitment
<1>1. /\ leaves \in Seq(NoteOrZero) /\ known \in Seq(Roots) /\ inOrder \in BOOLEAN
      /\ discards \subseteq Note /\ c \in Note
  BY OpParts DEF AccountTypeOK
<1>2. PICK root \in SimulatedInsert(c) :
           \/ /\ leaves' = Append(leaves, c) /\ known' = Remember(root)
              /\ inOrder' = inOrder /\ discards' = discards
           \/ \E i :
                /\ Discarding(Append(leaves, c), root, <<i>>)
                /\ discards' = discards \cup {Append(leaves, c)[i]}
  BY ExecuteTree
<1>3. PICK ls : ls = Append(leaves, c)
  OBVIOUS
<1>4. /\ ls \in Seq(NoteOrZero) /\ Len(ls) = Len(leaves) + 1 /\ root \in Roots
      /\ root = Unknown => ~ inOrder
      /\ root # Unknown => root = Root(ls)
      /\ Root(leaves) \subseteq Root(ls)
  BY <1>1, <1>3, InsertRoots, RootAppend
<1> HIDE DEF c
<1>5. CASE /\ leaves' = ls /\ known' = Remember(root)
           /\ inOrder' = inOrder /\ discards' = discards
  <2>1. /\ known' \in Seq(Roots) /\ Len(known') > 0 /\ known'[1] = root
        /\ \A j \in DOMAIN known' : known'[j] = root \/ \E k \in DOMAIN known : known'[j] = known[k]
    BY <1>1, <1>4, <1>5, RememberType
  <2>2. \A j \in DOMAIN known' : known'[j] # Unknown => known'[j] \subseteq Root(ls)
    BY <1>4, <2>1 DEF RootCurrent
  <2>3. PICK rt : rt = Root(ls)
    OBVIOUS
  <2>4. rt = Root(leaves)'
    BY <1>5, <2>3 DEF Root
  <2>5. RootCurrent'
    BY <1>4, <1>5, <2>1, <2>2, <2>3, <2>4 DEF RootCurrent, LastRoot
  <2> QED BY <1>1, <1>4, <1>5, <2>1, <2>5
<1>6. ASSUME NEW i, Discarding(ls, root, <<i>>), discards' = discards \cup {ls[i]}
      PROVE  /\ leaves' \in Seq(NoteOrZero) /\ known' \in Seq(Roots)
             /\ inOrder' \in BOOLEAN /\ discards' \subseteq Note
             /\ Len(leaves') = Len(leaves) + 1
             /\ RootCurrent'
  <2>1. /\ leaves' \in Seq(NoteOrZero) /\ known' \in Seq(Roots) /\ RootCurrent'
        /\ i \in DOMAIN ls /\ ls[i] # Zero /\ leaves' = Zeroed(ls, {i})
    <3>1. <<i>> \in Seq({i})
      OBVIOUS
    <3> QED BY <1>4, <1>6, <3>1, DiscardingType, OneListed
  <2>2. ls[i] \in Note
    BY <1>4, <2>1 DEF NoteOrZero
  <2>3. inOrder' \in BOOLEAN
    BY <1>6 DEF Discarding
  <2> QED BY <1>1, <1>4, <1>6, <2>1, <2>2, <2>3, ZeroedType
<1> QED BY <1>2, <1>3, <1>5, <1>6

LEMMA ExecuteType ==
  ASSUME AccountTypeOK, RootCurrent, NEW op \in UserOp, NEW fee \in Nat, fee <= balance,
         ExecuteCall(op, fee), deployed' \in BOOLEAN, nonce' \in Nat
  PROVE  AccountTypeOK'
<1>1. /\ leaves' \in Seq(NoteOrZero) /\ known' \in Seq(Roots)
      /\ inOrder' \in BOOLEAN /\ discards' \subseteq Note
  BY ExecuteTreeType
<1>2. /\ DOMAIN nullifierHashes' \subseteq User \X Nat
      /\ \A n \in DOMAIN nullifierHashes' : nullifierHashes'[n] \in EncryptedAllowance
  BY OpParts DEF ExecuteCall, AccountTypeOK
<1>3. balance' \in Nat
  <2>1. Outlay(op) <= balance - fee /\ balance' = (balance - fee) - Outlay(op)
    BY DEF ExecuteCall, CallSucceeds
  <2>2. balance \in Nat /\ Outlay(op) \in Nat
    BY OpParts DEF AccountTypeOK
  <2> QED BY <2>1, <2>2
<1>4. executions' \in Seq(Log)
  BY OpParts DEF ExecuteCall, AccountTypeOK, Log
<1>5. granted' \in [User -> Nat] /\ paid' \in [User -> Nat]
  <2> DEFINE u == op.commitment.user
             v == op.nullifier[1]
  <2>1. granted \in [User -> Nat] /\ paid \in [User -> Nat]
    BY DEF AccountTypeOK
  <2>2. \/ paid' = paid /\ granted' = [granted EXCEPT ![u] = granted[u] + op.commitment.amount]
        \/ granted' = granted /\ paid' = [paid EXCEPT ![v] = paid[v] + Outlay(op)]
    BY DEF ExecuteCall
  <2>3. u \in User /\ v \in User /\ op.commitment.amount \in Nat /\ Outlay(op) \in Nat
    BY OpParts
  <2> HIDE DEF u, v
  <2>4. granted[u] + op.commitment.amount \in Nat /\ paid[v] + Outlay(op) \in Nat
    BY <2>1, <2>3
  <2> QED BY <2>1, <2>2, <2>3, <2>4
<1>6. lawful' \in BOOLEAN
  BY DEF ExecuteCall
<1> QED BY <1>1, <1>2, <1>3, <1>4, <1>5, <1>6 DEF AccountTypeOK

LEMMA ExecuteEvents ==
  ASSUME AccountTypeOK, EventsSound, NEW op \in UserOp, NEW fee, ExecuteCall(op, fee)
  PROVE  EventsSound' /\ UsedStays
<1> DEFINE k == Len(executions) + 1
           b == op.nullifier
<1>1. /\ Len(executions) \in Nat /\ DOMAIN executions = 1 .. Len(executions)
      /\ DOMAIN executions' = 1 .. k
      /\ \A p \in 1 .. Len(executions) : executions'[p] = executions[p]
      /\ executions'[k].nullifierHash = b
      /\ executions'[k].encryptedAllowance = op.encryptedAllowance
  BY DEF ExecuteCall, AccountTypeOK
<1>2. /\ DOMAIN nullifierHashes' = DOMAIN nullifierHashes \cup {b}
      /\ nullifierHashes'[b] = op.encryptedAllowance
      /\ \A n \in DOMAIN nullifierHashes : n # b => nullifierHashes'[n] = nullifierHashes[n]
  BY DEF ExecuteCall
<1>3. LogsOf(b)' = LogsOf(b) \cup {k} /\ \A n : n # b => LogsOf(n)' = LogsOf(n)
  BY <1>1 DEF LogsOf
<1>4. \A n : n # b => Used(n)' = Used(n)
  BY <1>2 DEF Used
<1>5. ASSUME lawful'
      PROVE  lawful /\ Used(b)' /\ UsedBelow(b[1], b[2])
  <2>1. lawful /\ Lawful(op)
    BY <1>5 DEF ExecuteCall
  <2> QED BY <1>2, <2>1 DEF Lawful, Used
<1>6. UsedStays
  BY <1>4, <1>5 DEF UsedStays
<1> HIDE DEF k, b
<1>7. DOMAIN nullifierHashes' = {executions'[p].nullifierHash : p \in DOMAIN executions'}
  BY <1>1, <1>2 DEF EventsSound, k
<1>8. ASSUME lawful', NEW n \in DOMAIN nullifierHashes'
      PROVE  Used(n)' /\ UsedBelow(n[1], n[2])'
  <2>1. \A u, i : UsedBelow(u, i) => UsedBelow(u, i)'
    BY <1>6, <1>8 DEF UsedBelow, UsedStays
  <2>2. CASE n = b
    BY <1>5, <1>8, <2>1, <2>2
  <2>3. CASE n # b
    <3>1. Used(n) /\ UsedBelow(n[1], n[2])
      BY <1>2, <1>5, <1>8, <2>3 DEF EventsSound
    <3> QED BY <1>6, <1>8, <2>1, <3>1 DEF UsedStays
  <2> QED BY <2>2, <2>3
<1>9. ASSUME NEW n \in DOMAIN nullifierHashes'
      PROVE  \E p \in LogsOf(n)' :
               /\ \A q \in LogsOf(n)' : q <= p
               /\ executions'[p].encryptedAllowance = nullifierHashes'[n]
  <2>1. CASE n = b
    <3>1. \A q \in LogsOf(n)' : q <= k
      BY <1>1, <1>3, <2>1 DEF LogsOf, k
    <3> QED BY <1>1, <1>2, <1>3, <2>1, <3>1
  <2>2. CASE n # b
    <3>1. PICK p \in LogsOf(n) : /\ \A q \in LogsOf(n) : q <= p
                                 /\ executions[p].encryptedAllowance = nullifierHashes[n]
      BY <1>2, <2>2 DEF EventsSound
    <3>2. p \in 1 .. Len(executions)
      BY <3>1, LogsAreNumbers
    <3> QED BY <1>1, <1>2, <1>3, <2>2, <3>1, <3>2
  <2> QED BY <2>1, <2>2
<1>10. EventsSound'
  BY <1>7, <1>8, <1>9 DEF EventsSound
<1> QED BY <1>6, <1>10

\* LogsSound of any leaves, events and discarded commitments
Matches(ls, es, ds) ==
  /\ DOMAIN ls = DOMAIN es
  /\ \A p \in DOMAIN es : LET c == es[p].commitmentHash
                          IN ls[p] = c \/ (ls[p] = Zero /\ c \in ds)
  /\ \A c \in ds : \E p \in DOMAIN es : es[p].commitmentHash = c /\ ls[p] = Zero

LEMMA SameLength ==
  ASSUME NEW m \in Nat, NEW n \in Nat
  PROVE  1 .. m = 1 .. n <=> m = n
<1>1. ASSUME 1 .. m = 1 .. n PROVE ~ m < n /\ ~ n < m
  <2>1. m \in 1 .. n \/ m = 0
    BY <1>1
  <2>2. n \in 1 .. m \/ n = 0
    BY <1>1
  <2> QED BY <2>1, <2>2
<1> QED BY <1>1

LEMMA MatchesIsLogs ==
  ASSUME leaves \in Seq(NoteOrZero), executions \in Seq(Log)
  PROVE  LogsSound <=> Matches(leaves, executions, discards)
<1>1. /\ DOMAIN leaves = 1 .. Len(leaves) /\ Len(leaves) \in Nat
      /\ DOMAIN executions = 1 .. Len(executions) /\ Len(executions) \in Nat
  OBVIOUS
<1>2. Len(leaves) = Len(executions) <=> DOMAIN leaves = DOMAIN executions
  BY <1>1, SameLength
<1> QED BY <1>2 DEF LogsSound, Matches

LEMMA MatchesNext ==
  ASSUME AccountTypeOK', Matches(leaves', executions', discards')
  PROVE  LogsSound'
<1>1. leaves' \in Seq(NoteOrZero) /\ executions' \in Seq(Log)
  BY DEF AccountTypeOK
<1>2. /\ DOMAIN leaves' = 1 .. Len(leaves') /\ Len(leaves') \in Nat
      /\ DOMAIN executions' = 1 .. Len(executions') /\ Len(executions') \in Nat
  BY <1>1
<1>3. Len(leaves') = Len(executions')
  BY <1>2, SameLength DEF Matches
<1> QED BY <1>3 DEF LogsSound, Matches

LEMMA MatchesZeroed ==
  ASSUME NEW ls \in Seq(NoteOrZero), NEW es, NEW ds, Matches(ls, es, ds),
         NEW P \in SUBSET DOMAIN ls, \A i \in P : ls[i] # Zero
  PROVE  Matches(Zeroed(ls, P), es, ds \cup {ls[i] : i \in P})
<1>1. PICK zs : zs = Zeroed(ls, P)
  OBVIOUS
<1>2. PICK gone : gone = ds \cup {ls[i] : i \in P}
  OBVIOUS
<1>3. /\ DOMAIN zs = DOMAIN es /\ DOMAIN ls = DOMAIN es
      /\ \A p \in DOMAIN es : zs[p] = IF p \in P THEN Zero ELSE ls[p]
  BY <1>1, ZeroedType DEF Matches
<1>4. \A p \in P : p \in DOMAIN es /\ ls[p] = es[p].commitmentHash /\ ls[p] \in gone
  BY <1>2, <1>3 DEF Matches
<1>5. \A p \in DOMAIN es :
        zs[p] = es[p].commitmentHash \/ (zs[p] = Zero /\ es[p].commitmentHash \in gone)
  BY <1>2, <1>3, <1>4 DEF Matches
<1>6. ASSUME NEW c \in gone
      PROVE  \E p \in DOMAIN es : es[p].commitmentHash = c /\ zs[p] = Zero
  <2>1. CASE c \in ds
    <3>1. PICK p \in DOMAIN es : es[p].commitmentHash = c /\ ls[p] = Zero
      BY <2>1 DEF Matches
    <3> QED BY <1>3, <3>1
  <2>2. CASE c \in {ls[i] : i \in P}
    <3>1. PICK p \in P : c = ls[p]
      BY <2>2
    <3> QED BY <1>3, <1>4, <3>1
  <2> QED BY <1>2, <2>1, <2>2
<1>7. Matches(zs, es, gone)
  BY <1>3, <1>5, <1>6 DEF Matches
<1> QED BY <1>1, <1>2, <1>7

LEMMA MatchesAppend ==
  ASSUME NEW ls \in Seq(NoteOrZero), NEW es \in Seq(Log), NEW ds, Matches(ls, es, ds),
         NEW e \in Log
  PROVE  Matches(Append(ls, e.commitmentHash), Append(es, e), ds)
<1>1. PICK c : c = e.commitmentHash
  OBVIOUS
<1>2. PICK k : k = Len(ls) + 1
  OBVIOUS
<1>3. PICK ls1 : ls1 = Append(ls, c)
  OBVIOUS
<1>4. PICK es1 : es1 = Append(es, e)
  OBVIOUS
<1>5. DOMAIN ls = 1 .. Len(ls) /\ DOMAIN es = 1 .. Len(es) /\ Len(ls) \in Nat /\ Len(es) \in Nat
  OBVIOUS
<1>6. Len(es) = Len(ls)
  BY <1>5, SameLength DEF Matches
<1>7. c \in NoteOrZero
  BY <1>1 DEF Log, NoteOrZero
<1>8. /\ DOMAIN ls1 = 1 .. k /\ DOMAIN es1 = 1 .. k /\ ls1[k] = c /\ es1[k] = e
      /\ \A p \in 1 .. Len(ls) : ls1[p] = ls[p] /\ es1[p] = es[p]
  BY <1>2, <1>3, <1>4, <1>5, <1>6, <1>7
<1>9. \A p \in 1 .. k : p \in 1 .. Len(ls) \/ p = k
  BY <1>2, <1>5
<1>10. \A p \in 1 .. Len(ls) : p \in 1 .. k
  BY <1>2, <1>5
<1>11. \A p \in 1 .. k :
         ls1[p] = es1[p].commitmentHash \/ (ls1[p] = Zero /\ es1[p].commitmentHash \in ds)
  BY <1>1, <1>5, <1>6, <1>8, <1>9 DEF Matches
<1>12. \A d \in ds : \E p \in 1 .. k : es1[p].commitmentHash = d /\ ls1[p] = Zero
  BY <1>5, <1>6, <1>8, <1>10 DEF Matches
<1>13. Matches(ls1, es1, ds)
  BY <1>8, <1>11, <1>12 DEF Matches
<1> QED BY <1>1, <1>3, <1>4, <1>13

LEMMA ExecuteLogs ==
  ASSUME AccountTypeOK, LogsSound, NEW op \in UserOp, NEW fee, ExecuteCall(op, fee),
         AccountTypeOK'
  PROVE  LogsSound'
<1> DEFINE e == [nullifierHash |-> op.nullifier, commitmentHash |-> op.commitment,
                 encryptedAllowance |-> op.encryptedAllowance]
           ls == Append(leaves, op.commitment)
           es == Append(executions, e)
<1>1. e \in Log /\ e.commitmentHash = op.commitment
  BY OpParts DEF Log
<1>2. leaves \in Seq(NoteOrZero) /\ executions \in Seq(Log)
  BY DEF AccountTypeOK
<1>3. executions' = es
  BY DEF ExecuteCall
<1>4. Matches(ls, es, discards)
  <2>1. Matches(leaves, executions, discards)
    BY <1>2, MatchesIsLogs
  <2> HIDE DEF e
  <2> QED BY <1>1, <1>2, <2>1, MatchesAppend
<1>5. ls \in Seq(NoteOrZero)
  BY <1>2, OpParts DEF NoteOrZero
<1>6. \/ leaves' = ls /\ discards' = discards
      \/ \E root, i : Discarding(ls, root, <<i>>) /\ discards' = discards \cup {ls[i]}
  BY ExecuteTree
<1> HIDE DEF ls, es
<1>7. CASE leaves' = ls /\ discards' = discards
  BY <1>3, <1>4, <1>7, MatchesNext
<1>8. ASSUME NEW root, NEW i, Discarding(ls, root, <<i>>), discards' = discards \cup {ls[i]}
      PROVE  LogsSound'
  <2>1. {i} \in SUBSET DOMAIN ls /\ (\A j \in {i} : ls[j] # Zero) /\ leaves' = Zeroed(ls, {i})
    <3>1. <<i>> \in Seq({i})
      OBVIOUS
    <3> QED BY <1>5, <1>8, <3>1, DiscardingType, OneListed
  <2>2. discards' = discards \cup {ls[j] : j \in {i}}
    BY <1>8
  <2>3. Matches(leaves', executions', discards')
    BY <1>3, <1>4, <1>5, <2>1, <2>2, MatchesZeroed
  <2> QED BY <2>3, MatchesNext
<1> QED BY <1>6, <1>7, <1>8

\* The execution of any operation, whoever made it
LEMMA ExecuteCallInv ==
  ASSUME IInv, NEW op \in UserOp, NEW fee \in Nat, fee <= balance, ExecuteCall(op, fee),
         deployed' \in BOOLEAN, nonce' \in Nat, UNCHANGED clientVars
  PROVE  IInv'
<1>1. AccountTypeOK' /\ RootCurrent'
  BY IInvParts, ExecuteType, ExecuteTreeType
<1>2. LogsSound'
  BY <1>1, IInvParts, ExecuteLogs
<1>3. EventsSound' /\ UsedStays
  BY IInvParts, ExecuteEvents
<1> QED BY <1>1, <1>2, <1>3, AccountStep

LEMMA ExecuteInv ==
  ASSUME IInv, NEW op \in UserOp, NEW fee \in Fees, ExecuteOp(op, fee)
  PROVE  IInv'
<1>1. fee \in Nat /\ nonce \in Nat
  BY AccountSizes, IInvParts DEF AccountTypeOK
<1>2. /\ ExecuteCall(op, fee) /\ UNCHANGED clientVars /\ fee <= balance
      /\ deployed' = TRUE /\ nonce' = nonce + 1
  BY DEF ExecuteOp, Execute, Accepts
<1>3. deployed' \in BOOLEAN /\ nonce' \in Nat
  BY <1>1, <1>2
<1> QED BY <1>1, <1>2, <1>3, ExecuteCallInv

LEMMA PendingOp ==
  ASSUME IInv, NEW op \in pending
  PROVE  op \in UserOp /\ OpSound(op)
BY IInvParts DEF ClientsSound

\* The operations made without the library
LEMMA UserDirectOp ==
  ASSUME IInv, NEW nullifier \in DirectNullifier, NEW c \in DirectNote,
         NEW old \in Roots, NEW proved \in DirectValues, NEW value \in DirectValues,
         NEW allowance \in Written, NEW call \in Calls, NEW fee,
         UserDirect(nullifier, c, old, proved, value, allowance, call, fee)
  PROVE  \E op \in UserOp : ExecuteOp(op, fee)
<1>1. PICK new \in SimulatedInsert(c) :
       Execute(Proved([nullifierHash |-> nullifier, oldRoot |-> old, commitmentHash |-> c,
                       newRoot |-> new, value |-> proved, callDataHash |-> TRUE],
                      value, allowance, call), fee)
  BY DEF UserDirect
<1> DEFINE s == [nullifierHash |-> nullifier, oldRoot |-> old, commitmentHash |-> c,
                 newRoot |-> new, value |-> proved, callDataHash |-> TRUE]
<1>2. c \in Note /\ nullifier \in User \X Nat
  BY ClientSizes DEF DirectNote, DirectNullifier, Note
<1>3. new \in Roots
  BY <1>2, InsertRoots, IInvParts DEF AccountTypeOK
<1>4. s \in Signals
  BY <1>2, <1>3, ClientSizes DEF Signals
<1> HIDE DEF s
<1>5. Proved(s, value, allowance, call) \in UserOp
  BY <1>4, ProvedType, ClientSizes, IInvParts
<1>6. UNCHANGED clientVars
  BY DEF UserDirect
<1> QED BY <1>1, <1>5, <1>6 DEF ExecuteOp, s

LEMMA OwnerDirectOp ==
  ASSUME IInv, NEW nullifier \in DirectNullifier, NEW c \in DirectNote,
         NEW value \in DirectValues, NEW allowance \in Written, NEW call \in Calls,
         OwnerDirect(nullifier, c, value, allowance, call)
  PROVE  \E op \in UserOp : ExecuteByOwner(op) /\ UNCHANGED clientVars
<1>1. c \in Note /\ nullifier \in User \X Nat
  BY ClientSizes DEF DirectNote, DirectNullifier, Note
<1>2. Signed(nullifier, c, value, allowance, call) \in UserOp
  BY <1>1, SignedType, ClientSizes, IInvParts
<1> QED BY <1>2 DEF OwnerDirect

LEMMA DirectOp ==
  ASSUME IInv, DirectStep
  PROVE  \E op \in UserOp :
           \/ \E fee \in Fees : ExecuteOp(op, fee)
           \/ ExecuteByOwner(op) /\ UNCHANGED clientVars
<1>1. \A j \in DOMAIN known : known[j] \in Roots
  BY IInvParts DEF AccountTypeOK
<1> QED BY <1>1, UserDirectOp, OwnerDirectOp DEF DirectStep

LEMMA DirectInv ==
  ASSUME IInv, DirectStep
  PROVE  IInv'
<1>1. ASSUME NEW op \in UserOp, ExecuteByOwner(op), UNCHANGED clientVars
      PROVE  IInv'
  <2>1. ExecuteCall(op, 0) /\ deployed' = deployed /\ nonce' = nonce
    BY <1>1 DEF ExecuteByOwner
  <2>2. 0 <= balance /\ deployed' \in BOOLEAN /\ nonce' \in Nat
    BY <2>1, IInvParts DEF AccountTypeOK
  <2> QED BY <1>1, <2>1, <2>2, ExecuteCallInv
<1> QED BY <1>1, DirectOp, ExecuteInv

\* Steps of the account that burn no nullifier
LEMMA SameEvents ==
  ASSUME IInv, UNCHANGED <<nullifierHashes, executions, lawful>>
  PROVE  EventsSound' /\ UsedStays
<1>1. \A n : Used(n)' = Used(n) /\ LogsOf(n)' = LogsOf(n)
  BY DEF Used, LogsOf
<1>2. \A u, i : UsedBelow(u, i)' = UsedBelow(u, i)
  BY <1>1 DEF UsedBelow
<1> QED BY <1>1, <1>2, IInvParts DEF EventsSound, UsedStays

LEMMA SameTreeStep ==
  ASSUME IInv, UNCHANGED <<leaves, known, inOrder, nullifierHashes, executions, discards,
                           granted, paid, lawful>>,
         deployed' \in BOOLEAN, nonce' \in Nat, balance' \in Nat, UNCHANGED clientVars
  PROVE  IInv'
<1>1. AccountTypeOK'
  BY IInvParts DEF AccountTypeOK
<1>2. RootCurrent'
  BY IInvParts DEF RootCurrent, LastRoot, Root
<1>3. LogsSound'
  BY IInvParts DEF LogsSound
<1> QED BY <1>1, <1>2, <1>3, SameEvents, AccountStep

LEMMA RevertInv ==
  ASSUME IInv, NEW op \in pending, NEW fee \in Fees, RevertOp(op, fee)
  PROVE  IInv'
<1>1. nonce \in Nat /\ balance \in Nat /\ fee \in Nat
  BY IInvParts, AccountSizes DEF AccountTypeOK
<1>2. fee <= balance /\ balance' = balance - fee /\ nonce' = nonce + 1 /\ deployed' = TRUE
  BY DEF RevertOp, ExecuteReverts, Accepts
<1>3. nonce' \in Nat /\ balance' \in Nat /\ deployed' \in BOOLEAN
  BY <1>1, <1>2
<1> QED BY <1>3, SameTreeStep DEF RevertOp, ExecuteReverts

LEMMA EtherInv ==
  ASSUME IInv, NEW amount \in EtherAmounts, WithdrawEther(amount) \/ ReceiveEther(amount)
  PROVE  IInv'
<1>1. nonce \in Nat /\ balance \in Nat /\ amount \in Nat /\ deployed \in BOOLEAN
  BY IInvParts, ClientSizes DEF AccountTypeOK
<1>2. nonce' \in Nat /\ balance' \in Nat /\ deployed' \in BOOLEAN
  BY <1>1 DEF WithdrawEther, Withdraw, ReceiveEther, Receive
<1> QED BY <1>2, SameTreeStep DEF WithdrawEther, Withdraw, ReceiveEther, Receive

\* A transaction of the discard call, as a step of the account
LEMMA ChunkIsDiscard ==
  ASSUME IInv, DiscardChunk
  PROVE  \E chunk \in Seq(Nat), n \in Nat :
           /\ chunk = SubSeq(discard.left, 1, n)
           /\ discard.at = "chunks" /\ discard.left \in Seq(Nat)
           /\ discard.tree \in Seq(NoteOrZero)
           /\ Discarding(leaves, LastRoot, chunk)
           /\ discards' = discards \cup {leaves[i] : i \in Positions(chunk)}
           /\ LET rest == SubSeq(discard.left, n + 1, Len(discard.left))
              IN discard' = Idle
                 \/ discard' = [discard EXCEPT !.tree = Zeroed(discard.tree, Positions(chunk)),
                                               !.left = rest]
<1> DEFINE n == Lesser(ChunkSize, Len(discard.left))
           chunk == SubSeq(discard.left, 1, n)
           rest == SubSeq(discard.left, n + 1, Len(discard.left))
<1>1. discard.at = "chunks" /\ discard.left \in Seq(Nat) /\ discard.tree \in Seq(NoteOrZero)
  BY IInvParts DEF DiscardChunk, DiscardState
<1>2. n \in Nat /\ n <= Len(discard.left)
  BY <1>1, ClientSizes DEF Lesser
<1>3. chunk \in Seq(Nat)
  <2> HIDE DEF n
  <2> QED BY <1>1, <1>2
<1>4. DiscardCommitmentHashes(chunk)
  BY DEF DiscardChunk
<1>5. \/ discard' = Idle
      \/ discard' = [discard EXCEPT !.tree = Zeroed(discard.tree, Positions(chunk)),
                                    !.left = rest]
  BY DEF DiscardChunk
<1>6. /\ Discarding(leaves, LastRoot, chunk)
      /\ discards' = discards \cup {leaves[i] : i \in Positions(chunk)}
  BY <1>4 DEF DiscardCommitmentHashes, TreeDiscard
<1> HIDE DEF n
<1> QED BY <1>1, <1>2, <1>3, <1>5, <1>6

LEMMA DiscardChunkInv ==
  ASSUME IInv, DiscardChunk
  PROVE  IInv'
<1>1. PICK chunk \in Seq(Nat), n \in Nat :
           /\ chunk = SubSeq(discard.left, 1, n)
           /\ discard.at = "chunks" /\ discard.left \in Seq(Nat)
           /\ discard.tree \in Seq(NoteOrZero)
           /\ Discarding(leaves, LastRoot, chunk)
           /\ discards' = discards \cup {leaves[i] : i \in Positions(chunk)}
           /\ LET rest == SubSeq(discard.left, n + 1, Len(discard.left))
              IN discard' = Idle
                 \/ discard' = [discard EXCEPT !.tree = Zeroed(discard.tree, Positions(chunk)),
                                               !.left = rest]
  BY ChunkIsDiscard
<1> DEFINE P == Positions(chunk)
           rest == SubSeq(discard.left, n + 1, Len(discard.left))
<1>2. leaves \in Seq(NoteOrZero) /\ executions \in Seq(Log) /\ inOrder \in BOOLEAN
  BY IInvParts DEF AccountTypeOK
<1>3. /\ P \in SUBSET DOMAIN leaves /\ (\A i \in P : leaves[i] # Zero)
      /\ leaves' = Zeroed(leaves, P) /\ leaves' \in Seq(NoteOrZero)
      /\ known' \in Seq(Roots) /\ RootCurrent'
  <2>1. PICK r : r = LastRoot
    OBVIOUS
  <2>2. Discarding(leaves, r, chunk)
    BY <1>1, <2>1
  <2> QED BY ONLY <1>2, <2>2, chunk \in Seq(Nat), DiscardingType
<1>4. /\ UNCHANGED <<deployed, nullifierHashes, nonce, balance, executions, granted, paid,
                     lawful>>
      /\ UNCHANGED <<pending, transfer, grant>>
  BY DEF DiscardChunk, DiscardCommitmentHashes
<1>5. inOrder' \in BOOLEAN
  BY <1>1 DEF Discarding
<1> HIDE DEF P
<1>6. discards' \subseteq Note
  <2>1. \A i \in P : leaves[i] \in Note
    BY <1>2, <1>3 DEF NoteOrZero
  <2> QED BY <1>1, <2>1, IInvParts DEF AccountTypeOK, P
<1>7. AccountTypeOK'
  BY <1>3, <1>4, <1>5, <1>6, IInvParts DEF AccountTypeOK
<1>8. LogsSound'
  <2>1. Matches(leaves, executions, discards)
    BY <1>2, MatchesIsLogs, IInvParts
  <2>2. discards' = discards \cup {leaves[i] : i \in P}
    BY <1>1 DEF P
  <2>3. Matches(leaves', executions', discards')
    BY <1>2, <1>3, <1>4, <2>1, <2>2, MatchesZeroed
  <2> QED BY <1>7, <2>3, MatchesNext
<1>9. EventsSound' /\ UsedStays
  BY <1>4, SameEvents
<1>10. discard' \in DiscardState
  <2>1. rest \in Seq(Nat)
    BY <1>1
  <2>2. PICK tree, left, zeroed :
           tree = discard.tree /\ left = discard.left /\ zeroed = Zeroed(discard.tree, P)
    OBVIOUS
  <2>3. zeroed \in Seq(NoteOrZero)
    BY <1>1, <2>2, ZeroedType
  <2>4. discard = [at |-> "chunks", tree |-> tree, left |-> left]
    BY <1>1, <2>2, IInvParts DEF DiscardState
  <2>5. discard' = Idle \/ discard' = [discard EXCEPT !.tree = zeroed, !.left = rest]
    BY <1>1, <2>2 DEF P
  <2> HIDE DEF rest
  <2>6. discard' = Idle \/ discard' = [at |-> "chunks", tree |-> zeroed, left |-> rest]
    BY <2>4, <2>5
  <2> QED BY <2>1, <2>3, <2>6 DEF Idle, DiscardState
<1>11. ClientsSound'
  BY <1>4, <1>9, StaysSound, IInvParts DEF ClientsSound
<1>12. ClientTypeOK'
  BY <1>4, <1>10, IInvParts DEF ClientTypeOK
<1> QED BY <1>3, <1>7, <1>8, <1>9, <1>11, <1>12 DEF IInv, TypeOK

LEMMA StutterInv ==
  ASSUME IInv, UNCHANGED vars
  PROVE  IInv'
<1>1. UNCHANGED accountVars /\ UNCHANGED clientVars
  BY DEF vars
<1>2. AccountTypeOK' /\ RootCurrent' /\ EventsSound' /\ LogsSound' /\ UsedStays
  BY <1>1, SameAccount, IInvParts
<1> QED BY <1>1, <1>2, AccountStep

LEMMA NextInv == IInv /\ [Next]_vars => IInv'
<1> SUFFICES ASSUME IInv, [Next]_vars PROVE IInv'
  OBVIOUS
<1>1. ASSUME NEW u \in User, UserStep(u) PROVE IInv'
  BY <1>1, UserStepInv
<1>2. CASE AdminStep
  <2>1. ASSUME NEW n \in 1 .. MaxDiscards, NEW list \in [1 .. n -> DOMAIN executions],
               DiscardStart(list)
        PROVE  IInv'
    <3>1. n \in Nat
      BY ClientSizes
    <3> QED BY <2>1, <3>1, DiscardStartInv
  <2> QED BY <1>2, <2>1, GrantStartInv, GrantCountInv, GrantSubmitInv, GrantFailsInv,
     DiscardChunkInv, DiscardFailsInv DEF AdminStep
<1>3. CASE BundlerStep
  BY <1>3, PendingOp, ExecuteInv, RevertInv, DropOpInv DEF BundlerStep
<1>4. CASE EtherStep
  BY <1>4, EtherInv DEF EtherStep
<1>5. CASE DirectStep
  BY <1>5, DirectInv
<1>6. CASE UNCHANGED vars
  BY <1>6, StutterInv
<1> QED BY <1>1, <1>2, <1>3, <1>4, <1>5, <1>6 DEF Next

\* The inductive invariant holds, whatever is executed without the library: what a
\* client has read and relies on stays true while it waits (createProvedUserOp,
\* ZkTeamCore.ts:447-490).
THEOREM InductiveInvariant == Spec => []IInv
<1> QED BY InitInv, NextInv, PTL DEF Spec

\* Type correctness of the account and of its clients.
THEOREM TypeCorrect == Spec => []TypeOK
<1>1. IInv => TypeOK
  BY DEF IInv
<1> QED BY <1>1, InductiveInvariant, PTL

-----------------------------------------------------------------------------
(* What follows from the invariant                                         *)

\* What validation and the invariant say of an operation of the library
LEMMA PendingRoots ==
  ASSUME IInv, NEW op \in pending, ~ op.signed
  PROVE  /\ op.commitment \in Note
         /\ op.signals.oldRoot \in Roots /\ op.signals.newRoot \in Roots
         /\ RootStep(op.signals.oldRoot, op.signals.newRoot, op.commitment)
BY PendingOp, OpParts DEF OpSound, Signals

LEMMA FreshInv == IInv => OnlyFreshProofsPass
<1> SUFFICES ASSUME IInv, NEW op \in pending, ~ op.signed, ValidateSignature(op)
             PROVE  op.signals.oldRoot = LastRoot
  BY DEF OnlyFreshProofsPass
<1>1. op.signals.newRoot \in SimulatedInsert(op.commitment)
  BY DEF ValidateSignature, RootsMatch
<1>2. leaves \in Seq(NoteOrZero)
  BY IInvParts DEF AccountTypeOK
<1> QED BY <1>1, <1>2, PendingRoots, RootsPinTree, IInvParts

LEMMA WalletInv == IInv => WalletSound
<1> SUFFICES ASSUME IInv, NEW u \in User, Truthful(u), GetLastIndex(u) # 0
             PROVE  Wallet(u) \in discards \/ \E p \in DOMAIN leaves : leaves[p] = Wallet(u)
  BY DEF WalletSound
<1> DEFINE i == GetLastIndex(u)
           n == <<u, i - 1>>
<1>1. i \in Nat \ {0} /\ IsLastIndex(u, i)
  BY LastIndexRead, LogsAreNumbers, IInvParts
<1>2. HasAllowance(n)
  BY <1>1 DEF IsLastIndex
<1>3. n \in DOMAIN nullifierHashes
  BY <1>2, AllowanceIsUsed, IInvParts DEF Used
<1>4. PICK p \in LogsOf(n) : /\ executions[p].encryptedAllowance = nullifierHashes[n]
                             /\ GetEncryptedAllowance(n) = nullifierHashes[n]
  BY <1>3, LastRead, IInvParts
<1>5. p \in DOMAIN executions /\ executions[p].nullifierHash = n
  BY <1>4 DEF LogsOf
<1>6. n[1] = u /\ n[2] + 1 = i
  BY <1>1
<1> HIDE DEF n, i
<1>7. executions[p].commitmentHash =
        [user |-> u, index |-> i, amount |-> GetEncryptedAllowance(n)]
  BY <1>4, <1>5, <1>6 DEF Truthful
<1>8. executions[p].commitmentHash = Wallet(u)
  BY <1>7 DEF Wallet, n, i
<1>9. p \in DOMAIN leaves
  BY <1>5, IInvParts DEF LogsSound, AccountTypeOK
<1> QED BY <1>5, <1>8, <1>9, IInvParts DEF LogsSound

LEMMA TreeAgreementInv == IInv => TreeAgreement
<1> DEFINE c(p) == executions[p].commitmentHash
           D == DOMAIN executions
<1> SUFFICES ASSUME IInv, inOrder,
                    \A p, q \in D : c(p) = c(q) /\ c(p) \in discards => p = q
             PROVE  Root(GetCommitmentHashes) = LastRoot
  BY DEF TreeAgreement
<1>1. D = 1 .. Len(executions) /\ DOMAIN leaves = D
      /\ leaves = [p \in D |-> leaves[p]]
  BY IInvParts DEF AccountTypeOK, LogsSound
<1>2. ASSUME NEW p \in D
      PROVE  leaves[p] = IF c(p) \in discards /\ \A q \in D : q > p => c(q) # c(p)
                         THEN Zero ELSE c(p)
  <2>1. CASE c(p) \in discards
    <3>1. \A q \in D : q > p => c(q) # c(p)
      BY <1>1, <2>1
    <3>2. PICK q \in D : c(q) = c(p) /\ leaves[q] = Zero
      BY <2>1, IInvParts DEF LogsSound
    <3> QED BY <2>1, <3>1, <3>2
  <2>2. CASE c(p) \notin discards
    <3>1. leaves[p] = c(p)
      BY <2>2, IInvParts DEF LogsSound
    <3> QED BY <2>2, <3>1
  <2> QED BY <2>1, <2>2
<1>3. GetCommitmentHashes = leaves
  BY <1>1, <1>2 DEF GetCommitmentHashes
<1>4. LastRoot = Root(leaves)
  BY IInvParts DEF RootCurrent
<1> QED BY <1>3, <1>4

\* An operation with a proof passes only if its client read the tree as it is
\* (isKnownRoot and simulatedInsert, ZkTeamAccount.sol:99-102).
THEOREM ProofsAreFresh == Spec => []OnlyFreshProofsPass
<1> QED BY FreshInv, InductiveInvariant, PTL

\* The wallet that a client computes from truthful events is in the tree or was
\* discarded (getLastIndex, getDecryptedAllowance).
THEOREM WalletIsSound == Spec => []WalletSound
<1> QED BY WalletInv, InductiveInvariant, PTL

\* While leaves are discarded in order and none of the discarded commitments was
\* inserted twice, the clients rebuild a tree with the root of the account
\* (getCommitmentHashes).
THEOREM TreesAgree == Spec => []TreeAgreement
<1> QED BY TreeAgreementInv, InductiveInvariant, PTL

-----------------------------------------------------------------------------
(* What the library makes is lawful                                        *)

\* There is a proof for what a client sends, before and after.
LEMMA PendingCircuit ==
  ASSUME IInv, NEW op \in pending, ~ op.signed
  PROVE  CircuitHolds(op.signals)
<1> DEFINE c == op.commitment
           s == op.signals
           amount == c.amount + op.value
           note == [user |-> c.user, index |-> c.index - 1, amount |-> amount]
<1>1. /\ c \in Note /\ c.amount \in Nat /\ c.index \in Nat /\ op.value \in Nat
      /\ s \in Signals
  BY PendingOp, OpParts
<1>2. /\ c.index > 0 /\ op.nullifier = <<c.user, c.index - 1>> /\ SignalsMatch(op)
      /\ Provable(amount, op.value) /\ InRoot(s.oldRoot, note)
      /\ RootStep(s.oldRoot, s.newRoot, c)
  BY PendingOp DEF OpSound
<1>3. s.value = op.value /\ s.commitmentHash = c
      /\ s.nullifierHash[1] = c.user /\ s.nullifierHash[2] = c.index - 1
  BY <1>2 DEF SignalsMatch
<1>4. c.amount = amount - op.value
  BY <1>1
<1>5. InRoot(s.newRoot, c)
  BY <1>2 DEF RootStep, InRoot
<1>6. amount \in {e[2].amount : e \in s.oldRoot \ Unknown}
  <2>1. PICK e \in s.oldRoot : e[2] = note
    BY <1>2 DEF InRoot
  <2>2. note \in Note
    BY <1>1, <1>2 DEF Note
  <2>3. e[2] # Zero
    BY <2>1, <2>2, ZeroIsNoNote
  <2>4. e \notin Unknown /\ e[2].amount = amount
    BY <2>1, <2>3 DEF Unknown
  <2> QED BY <2>4
<1>7. PICK a : a = amount
  OBVIOUS
<1>8. /\ a \in {e[2].amount : e \in s.oldRoot \ Unknown}
      /\ InRoot(s.oldRoot, [user |-> s.nullifierHash[1], index |-> s.nullifierHash[2],
                            amount |-> a])
      /\ Provable(a, s.value)
      /\ s.commitmentHash.amount = a - s.value
      /\ InRoot(s.newRoot, s.commitmentHash)
  BY <1>2, <1>3, <1>4, <1>5, <1>6, <1>7
<1> QED BY <1>8 DEF CircuitHolds

LEMMA PendingLawful ==
  ASSUME IInv, lawful, NEW op \in pending, op.call = Pay
  PROVE  Lawful(op)
<1>1. /\ op.commitment.index \in Nat /\ op.commitment.index > 0
      /\ op.commitment.amount \in Nat /\ op.signed \in BOOLEAN
      /\ op.nullifier = <<op.commitment.user, op.commitment.index - 1>>
      /\ op.encryptedAllowance = op.commitment.amount
      /\ UsedBelow(op.commitment.user, op.commitment.index - 1)
  BY PendingOp, OpParts DEF OpSound
<1>2. /\ op.nullifier[1] = op.commitment.user
      /\ op.nullifier[2] = op.commitment.index - 1
      /\ op.commitment.index = op.nullifier[2] + 1
  BY <1>1
<1>3. op.encryptedAllowance # HashZero
  BY <1>1, AccountSizes
<1> QED BY <1>1, <1>2, <1>3, PendingCircuit DEF Lawful

\* Nothing that the library makes for a payment is unlawful, however late it is
\* executed and whatever lawful steps others take: the account is kept within the
\* ledger by the clients where it does not check (ZkTeamAccount.sol:98, 107-108, 129,
\* 132).
THEOREM LibraryIsLawful == Spec => []LibraryKeepsLawful
<1>1. IInv => LibraryKeepsLawful
  BY PendingLawful DEF LibraryKeepsLawful
<1> QED BY <1>1, InductiveInvariant, PTL

-----------------------------------------------------------------------------
(* What a discard does to the proofs made before it                        *)

\* The tree changes by an insertion, perhaps with a discard behind it, or by a discard.
LeavesStep ==
  \/ leaves' = leaves
  \/ Len(leaves') = Len(leaves) + 1
  \/ /\ Len(leaves') = Len(leaves)
     /\ Root(leaves') \subseteq Root(leaves) /\ Root(leaves') # Root(leaves)

\* Ahead of the tree after the step.
AheadNext(old, new) ==
  \A e \in new :
    /\ e[1] <= Len(leaves') + 1
    /\ e[1] = Len(leaves') + 1 /\ old \subseteq Root(leaves') => old = Root(leaves')

LEMMA ProofsAheadNext ==
  ASSUME \A op \in pending' : ~ op.signed => AheadNext(op.signals.oldRoot, op.signals.newRoot),
         \A u \in User :
           transfer'[u].at = "tree" => AheadNext(transfer'[u].oldRoot, transfer'[u].newRoot)
  PROVE  ProofsAhead'
BY DEF ProofsAhead, Ahead, AheadNext, Root

LEMMA AheadStays ==
  ASSUME IInv, LeavesStep, NEW old \in Roots, NEW new \in Roots, Ahead(old, new)
  PROVE  AheadNext(old, new)
<1>1. leaves \in Seq(NoteOrZero) /\ Len(leaves) \in Nat
  BY IInvParts DEF AccountTypeOK
<1>2. \A e \in new : e[1] \in Nat
  BY DEF Roots
<1>3. CASE leaves' = leaves
  BY <1>3 DEF Ahead, AheadNext
<1>4. CASE Len(leaves') = Len(leaves) + 1
  <2>1. \A e \in new : e[1] <= Len(leaves) + 1
    BY DEF Ahead
  <2> QED BY <1>1, <1>2, <1>4, <2>1 DEF AheadNext
<1>5. CASE /\ Len(leaves') = Len(leaves)
           /\ Root(leaves') \subseteq Root(leaves) /\ Root(leaves') # Root(leaves)
  <2>1. \A e \in new : e[1] <= Len(leaves') + 1
    BY <1>5 DEF Ahead
  <2>2. ASSUME NEW e \in new, e[1] = Len(leaves) + 1, old \subseteq Root(leaves')
        PROVE  FALSE
    <3>1. old = Root(leaves)
      BY <1>5, <2>2 DEF Ahead
    <3> QED BY <1>5, <2>2, <3>1
  <2> QED BY <1>2, <1>5, <2>1, <2>2 DEF AheadNext
<1> QED BY <1>3, <1>4, <1>5 DEF LeavesStep

\* Which steps move the tree
LEMMA AccountMoves ==
  ASSUME IInv, [Next]_vars
  PROVE  \/ UNCHANGED <<leaves, discards>>
         \/ DiscardChunk
         \/ \E op \in UserOp : \E fee : ExecuteCall(op, fee)
<1> DEFINE Same == UNCHANGED <<leaves, discards>>
<1>1. ASSUME NEW u \in User, UserStep(u) PROVE Same
  BY <1>1 DEF UserStep, TransferStart, TransferCount, TransferAllowance, TransferTree,
     TransferSubmit, TransferFails, accountVars
<1>2. CASE AdminStep
  BY <1>2 DEF AdminStep, GrantStart, GrantCount, GrantSubmit, GrantFails, DiscardStart,
     DiscardFails, accountVars
<1>3. ASSUME NEW op \in UserOp, NEW fee, ExecuteOp(op, fee) PROVE ExecuteCall(op, fee)
  BY <1>3 DEF ExecuteOp, Execute
<1>4. CASE BundlerStep
  BY <1>3, <1>4, PendingOp DEF BundlerStep, RevertOp, ExecuteReverts, DropOp, accountVars
<1>5. CASE EtherStep
  BY <1>5 DEF EtherStep, WithdrawEther, Withdraw, ReceiveEther, Receive
<1>6. CASE DirectStep
  BY <1>3, <1>6, DirectOp DEF ExecuteByOwner
<1>7. CASE UNCHANGED vars
  BY <1>7 DEF vars, accountVars
<1> QED BY <1>1, <1>2, <1>4, <1>5, <1>6, <1>7 DEF Next

\* What a transaction of the discard call does to the tree
LEMMA ChunkTree ==
  ASSUME IInv, DiscardChunk
  PROVE  /\ leaves' \in Seq(NoteOrZero) /\ Len(leaves') = Len(leaves)
         /\ Root(leaves') \subseteq Root(leaves) /\ Root(leaves') # Root(leaves)
<1>1. PICK chunk \in Seq(Nat) : \E r : Discarding(leaves, r, chunk)
  BY ChunkIsDiscard
<1>2. leaves \in Seq(NoteOrZero)
  BY IInvParts DEF AccountTypeOK
<1>3. /\ Positions(chunk) \in SUBSET DOMAIN leaves /\ Positions(chunk) # {}
      /\ \A i \in Positions(chunk) : leaves[i] # Zero
      /\ leaves' = Zeroed(leaves, Positions(chunk)) /\ leaves' \in Seq(NoteOrZero)
  BY <1>1, <1>2, DiscardingType
<1> QED BY <1>2, <1>3, RootZeroed, ZeroedType

LEMMA LeavesChange ==
  ASSUME IInv, [Next]_vars
  PROVE  LeavesStep
<1>1. ASSUME NEW op \in UserOp, NEW fee, ExecuteCall(op, fee)
      PROVE  Len(leaves') = Len(leaves) + 1
  BY <1>1, ExecuteTreeType, IInvParts
<1> QED BY <1>1, AccountMoves, ChunkTree DEF LeavesStep

\* A client that reads a tree with all that is left in it reads just that: if a
\* commitment inserted twice makes it miss a leaf, it has one that is gone.
LEMMA ReadIsAhead ==
  ASSUME IInv, NEW c \in Note
  PROVE  Ahead(Root(GetCommitmentHashes), Root(Append(GetCommitmentHashes, c)))
<1> DEFINE h(p) == executions[p].commitmentHash
           D == DOMAIN executions
<1>1. PICK tree : tree = GetCommitmentHashes
  OBVIOUS
<1>2. /\ tree \in Seq(NoteOrZero) /\ leaves \in Seq(NoteOrZero)
      /\ DOMAIN tree = D /\ DOMAIN leaves = D /\ D = 1 .. Len(leaves) /\ Len(leaves) \in Nat
      /\ Len(tree) = Len(leaves)
  <2>1. tree \in Seq(NoteOrZero) /\ leaves \in Seq(NoteOrZero)
    BY <1>1, CommitmentsRead, IInvParts DEF AccountTypeOK
  <2>2. DOMAIN tree = D
    BY <1>1 DEF GetCommitmentHashes
  <2>3. D = 1 .. Len(leaves) /\ DOMAIN leaves = 1 .. Len(leaves) /\ Len(leaves) \in Nat
    BY <2>1, IInvParts DEF AccountTypeOK, LogsSound
  <2> QED BY <2>1, <2>2, <2>3
<1>3. \A p \in D : tree[p] = IF h(p) \in discards /\ \A q \in D : q > p => h(q) # h(p)
                             THEN Zero ELSE h(p)
  BY <1>1 DEF GetCommitmentHashes
<1>4. \A p \in D : h(p) \in Note /\ (leaves[p] = h(p) \/ leaves[p] = Zero)
  <2>1. \A p \in D : executions[p] \in Log
    BY IInvParts DEF AccountTypeOK
  <2> QED BY <2>1, IInvParts DEF LogsSound, Log
<1>5. \A d \in discards : \E p \in D : h(p) = d /\ leaves[p] = Zero
  BY IInvParts DEF LogsSound
<1> HIDE DEF h, D
<1>6. ASSUME Root(tree) \subseteq Root(leaves)
      PROVE  Root(leaves) \subseteq Root(tree)
  <2>1. ASSUME NEW p \in D, tree[p] # Zero PROVE leaves[p] # Zero
    <3>1. <<p, tree[p]>> \in Root(leaves)
      BY <1>2, <1>6, <2>1 DEF Root
    <3> QED BY <3>1 DEF Root
  <2>2. ASSUME NEW p \in D, leaves[p] # Zero
        PROVE  tree[p] = leaves[p]
    <3>1. leaves[p] = h(p) /\ h(p) # Zero
      BY <1>4, <2>2
    <3>2. SUFFICES ASSUME h(p) \in discards, \A q \in D : q > p => h(q) # h(p)
                   PROVE  FALSE
      BY <1>3, <3>1
    <3>3. PICK q \in D : h(q) = h(p) /\ leaves[q] = Zero
      BY <1>5, <3>2
    <3>4. q < p
      BY <1>2, <2>2, <3>2, <3>3
    <3>5. tree[q] = h(q)
      BY <1>2, <1>3, <3>3, <3>4
    <3> QED BY <2>1, <3>1, <3>3, <3>5
  <2> QED BY <1>2, <2>2 DEF Root
<1>7. /\ Root(Append(tree, c)) = Root(tree) \cup {<<Len(tree) + 1, c>>}
      /\ \A d \in Root(tree) : d[1] < Len(tree) + 1
  BY <1>2, RootAppend
<1>8. \A d \in Root(tree) : d[1] \in Nat
  BY <1>2, RootType DEF Roots
<1>9. \A e \in Root(Append(tree, c)) : e[1] <= Len(leaves) + 1
  BY <1>2, <1>7, <1>8
<1> QED BY <1>1, <1>6, <1>9 DEF Ahead

LEMMA InitAhead == Init => ProofsAhead
BY DEF Init, ProofsAhead, Idle

\* Clients: a proof in the mempool was ahead when its command made it, and a
\* command has what it read from the tree.
LEMMA NextAhead ==
  ASSUME IInv, ProofsAhead, [Next]_vars
  PROVE  ProofsAhead'
<1>1. \A old, new \in Roots : Ahead(old, new) => AheadNext(old, new)
  BY LeavesChange, AheadStays
<1>2. \A op \in pending : ~ op.signed =>
        op.signals.oldRoot \in Roots /\ op.signals.newRoot \in Roots /\ Ahead(op.signals.oldRoot, op.signals.newRoot)
  BY PendingRoots DEF ProofsAhead
<1>3. \A u \in User : transfer[u].at = "tree" =>
        /\ transfer[u].oldRoot \in Roots /\ transfer[u].newRoot \in Roots
        /\ Ahead(transfer[u].oldRoot, transfer[u].newRoot)
  BY IInvParts DEF ProofsAhead, TransferState
<1>4. \A u \in User : transfer'[u] = transfer[u] =>
        (transfer'[u].at = "tree" => AheadNext(transfer'[u].oldRoot, transfer'[u].newRoot))
  BY <1>1, <1>3
<1>5. \A op \in pending : ~ op.signed => AheadNext(op.signals.oldRoot, op.signals.newRoot)
  BY <1>1, <1>2
<1>6. transfer \in [User -> TransferState]
  BY IInvParts
<1>7. ASSUME NEW u \in User, UserStep(u) PROVE ProofsAhead'
  <2>1. \A v \in User \ {u} : transfer'[v] = transfer[v]
    BY <1>6, <1>7 DEF UserStep, TransferStart, TransferCount, TransferAllowance,
       TransferTree, TransferSubmit, TransferFails
  <2>2. CASE TransferTree(u)
    <3> DEFINE t == transfer[u]
               tree == GetCommitmentHashes
               change == Change(t.note, t.value)
    <3>1. /\ pending' = pending /\ leaves' = leaves
          /\ transfer'[u] = [at |-> "tree", value |-> t.value, call |-> t.call,
                             note |-> t.note, change |-> change, oldRoot |-> Root(tree),
                             newRoot |-> Root(Append(tree, change))]
      BY <1>6, <2>2 DEF TransferTree, accountVars
    <3>2. change \in Note
      <4>1. t.at = "allowance" /\ t.note \in Note /\ t.value \in Nat /\ t.value <= t.note.amount
        BY <2>2, <1>6 DEF TransferTree, TransferState, Sufficient
      <4>2. t.note.amount - t.value \in Nat /\ t.note.index + 1 \in Nat
        BY <4>1 DEF Note
      <4> HIDE DEF t
      <4> QED BY <4>1, <4>2 DEF Note, Change
    <3> HIDE DEF change
    <3>3. Ahead(Root(tree), Root(Append(tree, change)))
      BY <3>2, ReadIsAhead
    <3>4. \A old, new : AheadNext(old, new) = Ahead(old, new)
      BY <3>1 DEF Ahead, AheadNext
    <3> HIDE DEF tree
    <3>5. AheadNext(transfer'[u].oldRoot, transfer'[u].newRoot)
      BY <3>1, <3>3, <3>4
    <3> QED BY <1>4, <1>5, <2>1, <3>1, <3>5, ProofsAheadNext
  <2>3. CASE TransferSubmit(u)
    <3> DEFINE t == transfer[u]
               s == [nullifierHash |-> Nullifier(t.note), oldRoot |-> t.oldRoot,
                     commitmentHash |-> t.change, newRoot |-> t.newRoot,
                     value |-> t.value, callDataHash |-> TRUE]
               op == Proved(s, t.value, t.change.amount, t.call)
    <3>1. t.at = "tree" /\ transfer'[u] = Idle /\ pending' = pending \cup {op}
      BY <1>6, <2>3 DEF TransferSubmit, Submit
    <3>2. op.signals.oldRoot = t.oldRoot /\ op.signals.newRoot = t.newRoot
      BY DEF Proved
    <3>3. AheadNext(t.oldRoot, t.newRoot)
      BY <1>1, <1>3, <3>1
    <3> HIDE DEF op, t
    <3>4. \A o \in pending' : ~ o.signed => AheadNext(o.signals.oldRoot, o.signals.newRoot)
      BY <1>5, <3>1, <3>2, <3>3
    <3> QED BY <1>4, <2>1, <3>1, <3>4, ProofsAheadNext DEF Idle
  <2>4. CASE \/ \E value \in Values, call \in Calls : TransferStart(u, value, call)
             \/ TransferCount(u) \/ TransferAllowance(u) \/ TransferFails(u)
    <3>1. CASE TransferCount(u)
      <4>1. PICK t : t = transfer[u]
        OBVIOUS
      <4>2. t = [at |-> "count", index |-> t.index, value |-> t.value, call |-> t.call]
        BY <1>6, <3>1, <4>1 DEF TransferCount, TransferState
      <4>3. \/ transfer'[u] = [t EXCEPT !.index = t.index + 1]
            \/ transfer'[u] = [t EXCEPT !.at = "index"]
        BY <1>6, <3>1, <4>1 DEF TransferCount
      <4>4. transfer'[u].at # "tree" /\ pending' = pending
        BY <3>1, <4>2, <4>3 DEF TransferCount
      <4> QED BY <1>4, <1>5, <2>1, <4>4, ProofsAheadNext
    <3>2. CASE ~ TransferCount(u)
      <4>1. transfer'[u].at # "tree" /\ pending' = pending
        BY <1>6, <2>4, <3>2 DEF TransferStart, TransferAllowance, TransferFails, Idle
      <4> QED BY <1>4, <1>5, <2>1, <4>1, ProofsAheadNext
    <3> QED BY <3>1, <3>2
  <2> QED BY <1>7, <2>2, <2>3, <2>4 DEF UserStep
<1>8. CASE GrantSubmit
  <2>1. transfer' = transfer /\ \A op \in pending' : ~ op.signed => op \in pending
    BY <1>8 DEF GrantSubmit, Submit, Signed
  <2> QED BY <1>4, <1>5, <2>1, ProofsAheadNext
<1>9. CASE transfer' = transfer /\ pending' \subseteq pending
  BY <1>4, <1>5, <1>9, ProofsAheadNext
<1>10. ASSUME AdminStep, ~ GrantSubmit PROVE transfer' = transfer /\ pending' = pending
  BY <1>10 DEF AdminStep, GrantStart, GrantCount, GrantFails, DiscardStart, DiscardChunk, DiscardFails
<1>11. CASE BundlerStep \/ EtherStep \/ DirectStep \/ UNCHANGED vars
  <2>1. transfer' = transfer /\ pending' \subseteq pending
    BY <1>11 DEF DirectStep, UserDirect, OwnerDirect, BundlerStep, ExecuteOp, RevertOp,
       DropOp, EtherStep, WithdrawEther, ReceiveEther, vars, clientVars
  <2> QED BY <1>9, <2>1
<1> QED BY <1>7, <1>8, <1>9, <1>10, <1>11 DEF Next

LEMMA DiscardStops ==
  ASSUME IInv, ProofsAhead, [Next]_vars, discards' # discards,
         NEW op \in pending, ~ op.signed
  PROVE  ~ ValidateSignature(op)'
<1> DEFINE old == op.signals.oldRoot
           new == op.signals.newRoot
           c == op.commitment
<1>1. /\ RootStep(old, new, c) /\ c \in Note /\ old \in Roots /\ new \in Roots
      /\ Ahead(old, new)
  BY PendingRoots DEF ProofsAhead
<1>2. leaves' \in Seq(NoteOrZero) /\ RootCurrent'
  BY NextInv DEF IInv, TypeOK, AccountTypeOK
<1>3. SUFFICES ASSUME ValidateSignature(op)' PROVE FALSE
  OBVIOUS
<1>4. new \in {Root(Append(leaves', c)), Unknown}
  BY <1>3 DEF ValidateSignature, RootsMatch, SimulatedInsert, Root
<1>5. old = Root(leaves') /\ new = Root(Append(leaves', c))
  BY <1>1, <1>2, <1>4, RootsPin
<1>6. <<Len(leaves') + 1, c>> \in new
  BY <1>1, <1>2, <1>5, RootAppend
<1>7. PICK e \in new : e[1] = Len(leaves') + 1
  BY <1>6
<1>8. Len(leaves') \in Nat /\ Len(leaves) \in Nat
  BY <1>2, IInvParts DEF AccountTypeOK
<1>9. ASSUME NEW o \in UserOp, NEW fee, ExecuteCall(o, fee) PROVE FALSE
  <2>1. Len(leaves') = Len(leaves) + 1
    BY <1>9, ExecuteTreeType, IInvParts
  <2> QED BY <1>1, <1>7, <1>8, <2>1 DEF Ahead
<1>10. CASE DiscardChunk
  <2>1. /\ Root(leaves') \subseteq Root(leaves) /\ Root(leaves') # Root(leaves)
        /\ Len(leaves') = Len(leaves)
    BY <1>10, ChunkTree
  <2>2. old = Root(leaves)
    BY <1>1, <1>5, <1>7, <2>1 DEF Ahead
  <2> QED BY <1>5, <2>1, <2>2
<1> QED BY <1>9, <1>10, AccountMoves

\* After a discard no proof made before it passes, whichever commitments it is
\* about (discardCommitmentHashes, ZkTeamAccount.sol:140-146, clears the older roots in
\* MerkleTree.sol:258-265 and changes the one that validation compares).
THEOREM DiscardsStopProofs == Spec => DiscardStopsPending
<1>1. Spec => [](IInv /\ ProofsAhead)
  <2>1. IInv /\ ProofsAhead /\ [Next]_vars => (IInv /\ ProofsAhead)'
    BY NextInv, NextAhead
  <2> QED BY <2>1, InitInv, InitAhead, PTL DEF Spec
<1>2. IInv /\ ProofsAhead /\ [Next]_vars =>
        [discards' # discards => \A op \in pending : ~ op.signed => ~ ValidateSignature(op)']_vars
  BY DiscardStops
<1> QED BY <1>1, <1>2, PTL DEF Spec, DiscardStopsPending
=============================================================================
