------------------------ MODULE AllowanceLedgerProofs ------------------------
(***************************************************************************)
(* Proofs about AllowanceLedger, for every set of users and without bounds *)
(* on indices and amounts. Budget is not inductive: that a spend stays     *)
(* within the budget needs Covered, and Covered survives a spend only      *)
(* because a user has at most one index whose note can be spent (NoGap and *)
(* NotesFollow).                                                           *)
(***************************************************************************)
EXTENDS AllowanceLedger, TLAPS

LEMMA LedgerInitInv == LedgerInit => LedgerInv
BY DEF LedgerInit, LedgerInv, LedgerSound, LedgerTypeOK, Budget, NoGap, NotesFollow, Covered

\* Burning more nullifiers keeps every initial segment burnt.
LEMMA UsedBelowGrows ==
  ASSUME NEW u \in User, NEW i, UsedBelow(u, i), spent \subseteq spent'
  PROVE  UsedBelow(u, i)'
BY DEF UsedBelow

\* Two notes of a user that can be spent have the same index.
LEMMA SameIndex ==
  ASSUME LedgerSound,
         NEW n \in notes, <<n.user, n.index>> \notin spent,
         NEW m \in notes, <<m.user, m.index>> \notin spent,
         m.user = n.user
  PROVE  m.index = n.index
<1> USE DEF LedgerSound, LedgerTypeOK, Note
<1>1. /\ n.index \in Nat \ {0} /\ <<n.user, n.index - 1>> \in spent
      /\ m.index \in Nat \ {0} /\ <<m.user, m.index - 1>> \in spent
  BY DEF NotesFollow
<1>2. UsedBelow(n.user, n.index - 1) /\ UsedBelow(m.user, m.index - 1)
  BY <1>1 DEF NoGap
<1>3. ~ n.index < m.index
  <2>1. ASSUME n.index < m.index PROVE FALSE
    <3>1. n.index \in 0 .. m.index - 2 \/ n.index = m.index - 1
      BY <1>1, <2>1
    <3>2. CASE n.index \in 0 .. m.index - 2
      BY <3>2, <1>2 DEF UsedBelow
    <3>3. CASE n.index = m.index - 1
      BY <3>3, <1>1
    <3> QED BY <3>1, <3>2, <3>3
  <2> QED BY <2>1
<1>4. ~ m.index < n.index
  <2>1. ASSUME m.index < n.index PROVE FALSE
    <3>1. m.index \in 0 .. n.index - 2 \/ m.index = n.index - 1
      BY <1>1, <2>1
    <3>2. CASE m.index \in 0 .. n.index - 2
      BY <3>2, <1>2 DEF UsedBelow
    <3>3. CASE m.index = n.index - 1
      BY <3>3, <1>1
    <3> QED BY <3>1, <3>2, <3>3
  <2> QED BY <2>1
<1> QED BY <1>1, <1>3, <1>4

LEMMA GrantInv ==
  ASSUME LedgerSound, NEW m, Grant(m)
  PROVE  LedgerSound'
<1> USE DEF LedgerSound, LedgerTypeOK, Note, Grant, Nullifier
<1>1. m.user \in User /\ m.index \in Nat \ {0} /\ m.amount \in Nat /\ m.index - 1 \in Nat
  OBVIOUS
<1>2. LedgerTypeOK'
  BY <1>1
<1>3. /\ granted'[m.user] = granted[m.user] + m.amount
      /\ \A u \in User : u # m.user => granted'[u] = granted[u]
      /\ \A u \in User : granted[u] \in Nat /\ paid[u] \in Nat
  BY <1>1
<1>4. Budget'
  BY <1>1, <1>3 DEF Budget
<1>5. NoGap'
  <2> SUFFICES ASSUME NEW n \in spent' PROVE UsedBelow(n[1], n[2])'
    BY DEF NoGap
  <2>1. UsedBelow(n[1], n[2])
    BY DEF NoGap
  <2> QED BY <2>1 DEF UsedBelow
<1>6. NotesFollow'
  BY <1>1 DEF NotesFollow
<1>7. Covered'
  <2> SUFFICES ASSUME NEW n \in notes', <<n.user, n.index>> \notin spent'
               PROVE paid[n.user] + n.amount <= granted'[n.user]
    BY DEF Covered
  <2>1. CASE n = m
    BY <2>1, <1>1, <1>3 DEF Budget
  <2>2. CASE n \in notes
    BY <2>2, <1>1, <1>3 DEF Covered
  <2> QED BY <2>1, <2>2
<1> QED BY <1>2, <1>4, <1>5, <1>6, <1>7

LEMMA SpendInv ==
  ASSUME LedgerSound, NEW n \in notes, NEW m, Spend(n, m)
  PROVE  LedgerSound'
<1> USE DEF LedgerSound, LedgerTypeOK, Note, Spend, Nullifier
<1> DEFINE value == n.amount - m.amount
<1>1. /\ n.user \in User /\ n.index \in Nat /\ n.amount \in Nat
      /\ m.user = n.user /\ m.index = n.index + 1 /\ m.amount \in Nat /\ value \in Nat
  OBVIOUS
<1>2. LedgerTypeOK'
  BY <1>1
<1>3. /\ paid'[n.user] = paid[n.user] + value
      /\ \A u \in User : u # n.user => paid'[u] = paid[u]
      /\ \A u \in User : granted[u] \in Nat /\ paid[u] \in Nat
  BY <1>1
<1>4. paid[n.user] + n.amount <= granted[n.user]
  BY DEF Covered
<1>5. Budget'
  BY <1>1, <1>3, <1>4 DEF Budget
<1>6. NoGap'
  <2>1. n.index > 0 /\ <<n.user, n.index - 1>> \in spent
    BY DEF NotesFollow
  <2>2. UsedBelow(n.user, n.index - 1)
    BY <2>1 DEF NoGap
  <2>3. UsedBelow(n.user, n.index)
    BY <1>1, <2>1, <2>2 DEF UsedBelow
  <2> SUFFICES ASSUME NEW k \in spent' PROVE UsedBelow(k[1], k[2])'
    BY DEF NoGap
  <2>4. UsedBelow(k[1], k[2])
    BY <2>3 DEF NoGap
  <2> QED BY <2>4 DEF UsedBelow
<1>7. NotesFollow'
  <2>1. m.index > 0 /\ m.index - 1 = n.index
    BY <1>1
  <2>2. <<m.user, m.index - 1>> \in spent'
    BY <1>1, <2>1
  <2> QED BY <2>1, <2>2 DEF NotesFollow
<1>8. Covered'
  <2> SUFFICES ASSUME NEW k \in notes', <<k.user, k.index>> \notin spent'
               PROVE paid'[k.user] + k.amount <= granted[k.user]
    BY DEF Covered
  <2>1. CASE k = m
    BY <2>1, <1>1, <1>3, <1>4
  <2>2. CASE k \in notes
    <3>1. k.user # n.user
      BY <2>2, SameIndex
    <3> QED BY <2>2, <3>1, <1>1, <1>3 DEF Covered
  <2> QED BY <2>1, <2>2
<1> QED BY <1>2, <1>5, <1>6, <1>7, <1>8

LEMMA LedgerNextInv == LedgerInv /\ [LedgerNext]_ledgerVars => LedgerInv'
<1> SUFFICES ASSUME LedgerInv, [LedgerNext]_ledgerVars PROVE LedgerInv'
  OBVIOUS
<1>1. ASSUME NEW m \in notes', Grant(m) PROVE LedgerInv'
  BY <1>1, GrantInv DEF Grant, LedgerInv
<1>2. ASSUME NEW n \in notes, NEW m \in notes', Spend(n, m) PROVE LedgerInv'
  BY <1>2, SpendInv DEF Spend, LedgerInv
<1>3. ASSUME NEW gone \in SUBSET notes, Discard(gone) PROVE LedgerInv'
  BY <1>3 DEF Discard, LedgerInv, LedgerSound, LedgerTypeOK, Budget, NoGap, NotesFollow,
              Covered, UsedBelow
<1>4. CASE Lapse
  BY <1>4 DEF Lapse, LedgerInv
<1>5. CASE UNCHANGED ledgerVars
  BY <1>5 DEF ledgerVars, LedgerInv, LedgerSound, LedgerTypeOK, Budget, NoGap, NotesFollow,
              Covered, UsedBelow
<1> QED BY <1>1, <1>2, <1>3, <1>4, <1>5 DEF LedgerNext

\* Every behaviour of the ledger satisfies its invariant: while every step is one of
\* the ledger, no user is paid more than it was granted, and indices are used without
\* gaps.
THEOREM LedgerCorrect == LedgerSpec => []LedgerInv
<1> QED BY LedgerInitInv, LedgerNextInv, PTL DEF LedgerSpec
=============================================================================
