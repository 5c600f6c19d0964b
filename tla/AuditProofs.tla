----------------------------- MODULE AuditProofs -----------------------------
(***************************************************************************)
(* Proofs about Audit for every number of users, of executions, of         *)
(* allowances and of audits, whatever the users encrypt.                   *)
(***************************************************************************)
EXTENDS Audit, FiniteSetTheorems, WellFoundedInduction, TLAPS

-----------------------------------------------------------------------------
(* Sets of numbers                                                         *)

LEMMA Least ==
  ASSUME NEW T \in SUBSET Nat, T # {}
  PROVE  \E x \in T : \A y \in T : x <= y
<1> DEFINE R == {ss \in Nat \X Nat : ss[1] < ss[2]}
<1>1. IsWellFoundedOn(R, Nat)
  BY NatLessThanWellFounded DEF OpToRel
<1> HIDE DEF R
<1>2. PICK x \in T : \A y \in T : ~ (<<y, x>> \in R)
  BY <1>1, WFMin
<1>3. \A y \in T : ~ (y < x)
  BY <1>2 DEF R
<1> QED BY <1>3

LEMMA Greatest ==
  ASSUME NEW n \in Nat, NEW T \in SUBSET (0 .. n), T # {}
  PROVE  \E x \in T : \A y \in T : y <= x
<1> DEFINE M == {n - y : y \in T}
<1>1. M \in SUBSET Nat /\ M # {}
  OBVIOUS
<1> HIDE DEF M
<1>2. PICK m \in M : \A k \in M : m <= k
  BY <1>1, Least
<1>3. PICK x \in T : m = n - x
  BY DEF M
<1>4. \A y \in T : m <= n - y
  BY <1>2 DEF M
<1> QED BY <1>3, <1>4

Rank(p, P) == Cardinality({q \in P : q < p})

\* The rank of an element of a finite set of numbers tells it from the others.
LEMMA RankGrows ==
  ASSUME NEW P \in SUBSET Nat, IsFiniteSet(P), NEW p \in P, NEW q \in P
  PROVE  /\ Rank(p, P) \in 0 .. Cardinality(P) - 1
         /\ p < q => Rank(p, P) < Rank(q, P)
<1> DEFINE B(x) == {y \in P : y < x}
<1>1. \A x : IsFiniteSet(B(x)) /\ Cardinality(B(x)) \in Nat
  <2> TAKE x
  <2>1. IsFiniteSet(B(x))
    BY FS_Subset
  <2> HIDE DEF B
  <2> QED BY <2>1, FS_CardinalityType
<1>2. Cardinality(P) \in Nat
  BY FS_CardinalityType
<1>3. Cardinality(B(p)) < Cardinality(P)
  <2>1. B(p) \subseteq P \ {p}
    OBVIOUS
  <2>2. IsFiniteSet(P \ {p}) /\ Cardinality(P \ {p}) = Cardinality(P) - 1
    BY FS_RemoveElement
  <2> HIDE DEF B
  <2>3. Cardinality(B(p)) <= Cardinality(P \ {p})
    BY <2>1, <2>2, FS_Subset
  <2> QED BY <1>1, <1>2, <2>2, <2>3
<1>4. ASSUME p < q PROVE Cardinality(B(p)) < Cardinality(B(q))
  <2>1. B(p) \subseteq B(q) \ {p} /\ p \in B(q)
    <3>1. \A y \in P : y < p => y < q /\ y # p
      BY <1>4
    <3> QED BY <1>4, <3>1
  <2> HIDE DEF B
  <2>2. IsFiniteSet(B(q) \ {p}) /\ Cardinality(B(q) \ {p}) = Cardinality(B(q)) - 1
    BY <1>1, <2>1, FS_RemoveElement
  <2>3. Cardinality(B(p)) <= Cardinality(B(q) \ {p})
    BY <2>1, <2>2, FS_Subset
  <2> QED BY <1>1, <2>2, <2>3
<1> QED BY <1>1, <1>2, <1>3, <1>4 DEF Rank

\* Every rank is taken: otherwise there would be too few for all elements.
LEMMA RankTaken ==
  ASSUME NEW P \in SUBSET Nat, IsFiniteSet(P), NEW r \in 0 .. Cardinality(P) - 1
  PROVE  \E p \in P : Rank(p, P) = r
<1> SUFFICES ASSUME \A p \in P : Rank(p, P) # r PROVE FALSE
  OBVIOUS
<1>1. PICK c : c = Cardinality(P)
  OBVIOUS
<1>2. c \in Nat
  BY <1>1, FS_CardinalityType
<1> DEFINE I == 0 .. c - 1
           T == I \ {r}
           f == [p \in P |-> Rank(p, P)]
<1>3. IsFiniteSet(I) /\ Cardinality(I) = c
  <2>1. IsFiniteSet(0 .. c - 1)
    BY <1>2, FS_Interval
  <2>2. Cardinality(0 .. c - 1) = IF 0 > c - 1 THEN 0 ELSE c - 1 - 0 + 1
    BY <1>2, FS_Interval
  <2> QED BY <1>2, <2>1, <2>2
<1>4. IsFiniteSet(T) /\ Cardinality(T) < Cardinality(P)
  <2>1. r \in I
    BY <1>1
  <2> HIDE DEF I
  <2>2. IsFiniteSet(I \ {r}) /\ Cardinality(I \ {r}) = Cardinality(I) - 1
    BY <1>3, <2>1, FS_RemoveElement
  <2> QED BY <1>1, <1>2, <1>3, <2>2
<1>5. f \in [P -> T]
  <2>1. \A p \in P : Rank(p, P) \in 0 .. c - 1
    BY <1>1, RankGrows
  <2> QED BY <2>1
<1>6. PICK p \in P, q \in P : p # q /\ f[p] = f[q]
  <2> HIDE DEF T, f
  <2> QED BY <1>4, <1>5, FS_PigeonHole
<1>7. Rank(p, P) = Rank(q, P)
  BY <1>6
<1>8. p < q \/ q < p
  BY <1>6
<1> QED BY <1>7, <1>8, RankGrows

\* Object.values lists all keys, each once and oldest first.
LEMMA KeysInOrder ==
  ASSUME NEW P \in SUBSET Nat, IsFiniteSet(P)
  PROVE  /\ DOMAIN KeyOrder(P) = 1 .. Cardinality(P) /\ Cardinality(P) \in Nat
         /\ \A k \in DOMAIN KeyOrder(P) : KeyOrder(P)[k] \in P
         /\ \A p \in P : \E k \in DOMAIN KeyOrder(P) : KeyOrder(P)[k] = p
         /\ \A j, k \in DOMAIN KeyOrder(P) : j < k => KeyOrder(P)[j] < KeyOrder(P)[k]
<1>1. PICK c : c = Cardinality(P)
  OBVIOUS
<1>2. c \in Nat
  BY <1>1, FS_CardinalityType
<1>3. PICK o : o = KeyOrder(P)
  OBVIOUS
<1>4. DOMAIN o = 1 .. c
  BY <1>1, <1>3 DEF KeyOrder
<1>5. \A k \in 1 .. c : o[k] \in P /\ Rank(o[k], P) = k - 1
  <2> TAKE k \in 1 .. c
  <2>1. k - 1 \in 0 .. c - 1
    BY <1>2
  <2>2. \E p \in P : Rank(p, P) = k - 1
    BY <1>1, <2>1, RankTaken
  <2>3. o[k] = CHOOSE p \in P : Rank(p, P) = k - 1
    BY <1>1, <1>3 DEF KeyOrder, Rank
  <2> QED BY <2>2, <2>3
<1>6. \A p, q \in P : Rank(p, P) \in 0 .. c - 1 /\ (p < q => Rank(p, P) < Rank(q, P))
  BY <1>1, RankGrows
<1>7. ASSUME NEW p \in P PROVE \E k \in 1 .. c : o[k] = p
  <2>1. PICK k : k = Rank(p, P) + 1
    OBVIOUS
  <2>2. k \in 1 .. c /\ k - 1 = Rank(p, P)
    BY <1>2, <1>6, <2>1
  <2>3. o[k] \in P /\ Rank(o[k], P) = Rank(p, P)
    BY <1>5, <2>2
  <2>4. o[k] \in Nat /\ p \in Nat
    BY <2>3
  <2>5. ~ (o[k] < p) /\ ~ (p < o[k])
    <3>1. Rank(p, P) \in Int /\ Rank(o[k], P) \in Int
      BY <1>2, <1>6, <2>3
    <3>2. /\ o[k] < p => Rank(o[k], P) < Rank(p, P)
          /\ p < o[k] => Rank(p, P) < Rank(o[k], P)
      BY <1>6, <2>3
    <3> QED BY <2>3, <3>1, <3>2
  <2> QED BY <2>2, <2>4, <2>5
<1>8. ASSUME NEW j \in 1 .. c, NEW k \in 1 .. c, j < k PROVE o[j] < o[k]
  <2>1. Rank(o[j], P) = j - 1 /\ Rank(o[k], P) = k - 1 /\ o[j] \in P /\ o[k] \in P
    BY <1>5
  <2>2. o[j] \in Nat /\ o[k] \in Nat /\ o[j] # o[k]
    <3>1. o[j] \in Nat /\ o[k] \in Nat
      BY <2>1
    <3>2. k - 1 # j - 1
      BY <1>8
    <3> QED BY <2>1, <3>1, <3>2
  <2>3. ~ (o[k] < o[j])
    <3>1. o[k] < o[j] => Rank(o[k], P) < Rank(o[j], P)
      BY <1>6, <2>1
    <3>2. ~ (k - 1 < j - 1)
      BY <1>8
    <3> QED BY <2>1, <3>1, <3>2
  <2> QED BY <2>2, <2>3
<1> QED BY <1>1, <1>2, <1>3, <1>4, <1>5, <1>7, <1>8

-----------------------------------------------------------------------------
(* Nullifiers                                                              *)

\* The last log under a nullifier is one, and one only.
LEMMA CurrentExists ==
  ASSUME NEW S, NEW es \in Seq(S), NEW n, EventsOf(n, es) # {}
  PROVE  \E p \in EventsOf(n, es) : IsCurrent(p, es)
<1>1. DOMAIN es = 1 .. Len(es) /\ Len(es) \in Nat
  OBVIOUS
<1>2. EventsOf(n, es) \in SUBSET (0 .. Len(es))
  BY <1>1 DEF EventsOf
<1>3. PICK p \in EventsOf(n, es) : \A q \in EventsOf(n, es) : q <= p
  BY <1>1, <1>2, Greatest
<1>4. p \in DOMAIN es /\ es[p].nullifierHash = n
  BY <1>3 DEF EventsOf
<1>5. \A q \in DOMAIN es : q > p => es[q].nullifierHash # es[p].nullifierHash
  BY <1>1, <1>3, <1>4 DEF EventsOf
<1> QED BY <1>3, <1>5 DEF IsCurrent

LEMMA CurrentUnique ==
  ASSUME NEW S, NEW es \in Seq(S), NEW p \in DOMAIN es, NEW q \in DOMAIN es,
         IsCurrent(p, es), IsCurrent(q, es), es[p].nullifierHash = es[q].nullifierHash
  PROVE  p = q
<1>1. p \in Nat /\ q \in Nat
  OBVIOUS
<1> QED BY <1>1 DEF IsCurrent

\* getLastIndex ends: there are fewer events than indices to try.
LEMMA LastIndexDef ==
  ASSUME NEW S, NEW es \in Seq(S), NEW u
  PROVE  /\ LastIndex(u, es) \in 0 .. Len(es)
         /\ ~ IsUsed(<<u, LastIndex(u, es)>>, es)
         /\ \A j \in 0 .. LastIndex(u, es) - 1 : IsUsed(<<u, j>>, es)
<1>1. PICK l : l = Len(es)
  OBVIOUS
<1>2. l \in Nat /\ DOMAIN es = 1 .. l
  BY <1>1
<1> DEFINE T == {i \in 0 .. l : ~ IsUsed(<<u, i>>, es)}
           f == [i \in 0 .. l |-> CHOOSE p \in EventsOf(<<u, i>>, es) : TRUE]
<1>3. T # {}
  <2> SUFFICES ASSUME T = {} PROVE FALSE
    OBVIOUS
  <2>1. \A i \in 0 .. l : f[i] \in 1 .. l /\ es[f[i]].nullifierHash = <<u, i>>
    <3> TAKE i \in 0 .. l
    <3>0. IsUsed(<<u, i>>, es)
      OBVIOUS
    <3>1. f[i] \in EventsOf(<<u, i>>, es)
      BY <3>0 DEF IsUsed
    <3> HIDE DEF f
    <3> QED BY <1>2, <3>1 DEF EventsOf
  <2>2. f \in [0 .. l -> 1 .. l]
    BY <2>1
  <2>3. /\ IsFiniteSet(0 .. l) /\ IsFiniteSet(1 .. l)
        /\ Cardinality(0 .. l) = l + 1 /\ Cardinality(1 .. l) = l
    <3>1. /\ IsFiniteSet(0 .. l) /\ IsFiniteSet(1 .. l)
          /\ Cardinality(0 .. l) = (IF 0 > l THEN 0 ELSE l - 0 + 1)
          /\ Cardinality(1 .. l) = (IF 1 > l THEN 0 ELSE l - 1 + 1)
      BY <1>2, FS_Interval
    <3> QED BY <1>2, <3>1
  <2> HIDE DEF f
  <2>4. PICK x \in 0 .. l, y \in 0 .. l : x # y /\ f[x] = f[y]
    <3>1. PICK A, B : A = 0 .. l /\ B = 1 .. l
      OBVIOUS
    <3>2. /\ IsFiniteSet(A) /\ IsFiniteSet(B) /\ Cardinality(B) < Cardinality(A)
          /\ f \in [A -> B]
      BY <1>2, <2>2, <2>3, <3>1
    <3>3. \E x, y \in A : x # y /\ f[x] = f[y]
      BY <3>2, FS_PigeonHole
    <3> QED BY <3>1, <3>3
  <2>5. <<u, x>> = <<u, y>>
    BY <2>1, <2>4
  <2> QED BY <2>4, <2>5
<1>4. PICK i \in T : \A j \in T : i <= j
  <2>1. T \in SUBSET Nat
    BY <1>2
  <2> HIDE DEF T
  <2> QED BY <1>3, <2>1, Least
<1>5. /\ i \in 0 .. l /\ ~ IsUsed(<<u, i>>, es)
      /\ \A j \in 0 .. i - 1 : IsUsed(<<u, j>>, es)
  BY <1>2, <1>4
<1> QED BY <1>1, <1>5 DEF LastIndex

LEMMA LogOfKeyDef ==
  ASSUME NEW S, NEW ls \in Seq(S), NEW p \in DOMAIN ls
  PROVE  \E q \in DOMAIN ls : /\ IsCurrent(q, ls) /\ LogOfKey(p, ls) = ls[q]
                              /\ ls[q].nullifierHash = ls[p].nullifierHash
<1> DEFINE q == CHOOSE r \in EventsOf(ls[p].nullifierHash, ls) : IsCurrent(r, ls)
<1>1. p \in EventsOf(ls[p].nullifierHash, ls)
  BY DEF EventsOf
<1>2. \E r \in EventsOf(ls[p].nullifierHash, ls) : IsCurrent(r, ls)
  BY <1>1, CurrentExists
<1>3. q \in EventsOf(ls[p].nullifierHash, ls) /\ IsCurrent(q, ls)
  BY <1>2
<1>4. LogOfKey(p, ls) = ls[q]
  BY DEF LogOfKey
<1> HIDE DEF q
<1>5. q \in DOMAIN ls /\ ls[q].nullifierHash = ls[p].nullifierHash
  BY <1>3 DEF EventsOf
<1> QED BY <1>3, <1>4, <1>5

-----------------------------------------------------------------------------
(* The report                                                              *)

Found(ls) == {p \in FirstWrites(ls) : Suspicious(LogOfKey(p, ls))}

LEMMA ReportDef ==
  ASSUME NEW S, NEW ls \in Seq(S)
  PROVE  /\ Found(ls) \in SUBSET DOMAIN ls /\ Found(ls) \in SUBSET Nat
         /\ DOMAIN KeyOrder(Found(ls)) = 1 .. Cardinality(Found(ls))
         /\ Cardinality(Found(ls)) \in Nat
         /\ \A k \in DOMAIN KeyOrder(Found(ls)) : KeyOrder(Found(ls))[k] \in Found(ls)
         /\ \A p \in Found(ls) : \E k \in DOMAIN KeyOrder(Found(ls)) : KeyOrder(Found(ls))[k] = p
         /\ \A j, k \in DOMAIN KeyOrder(Found(ls)) :
              j < k => KeyOrder(Found(ls))[j] < KeyOrder(Found(ls))[k]
         /\ Report(ls) = [k \in DOMAIN KeyOrder(Found(ls)) |->
                            LogOfKey(KeyOrder(Found(ls))[k], ls).commitmentHash]
<1>1. Found(ls) \in SUBSET DOMAIN ls /\ DOMAIN ls = 1 .. Len(ls) /\ Len(ls) \in Nat
  BY DEF Found, FirstWrites
<1>2. IsFiniteSet(1 .. Len(ls))
  BY <1>1, FS_Interval
<1>3. IsFiniteSet(Found(ls)) /\ Found(ls) \in SUBSET Nat
  BY <1>1, <1>2, FS_Subset
<1>4. Report(ls) = [k \in DOMAIN KeyOrder(Found(ls)) |->
                      LogOfKey(KeyOrder(Found(ls))[k], ls).commitmentHash]
  BY DEF Report, Found
<1> QED BY <1>1, <1>3, <1>4, KeysInOrder

\* What is suspicious is reported, under the key of its nullifier.
LEMMA ReportsAll ==
  ASSUME NEW S, NEW ls \in Seq(S), NEW p \in DOMAIN ls, IsCurrent(p, ls), Suspicious(ls[p])
  PROVE  ls[p].commitmentHash \in ToSet(Report(ls))
<1>1. DOMAIN ls = 1 .. Len(ls) /\ Len(ls) \in Nat
  OBVIOUS
<1>2. PICK n : n = ls[p].nullifierHash
  OBVIOUS
<1>3. EventsOf(n, ls) \in SUBSET Nat /\ EventsOf(n, ls) # {}
  BY <1>1, <1>2 DEF EventsOf
<1>4. PICK f \in EventsOf(n, ls) : \A q \in EventsOf(n, ls) : f <= q
  BY <1>3, Least
<1>5. f \in DOMAIN ls /\ ls[f].nullifierHash = n
  BY <1>4 DEF EventsOf
<1>6. f \in FirstWrites(ls)
  <2>1. ASSUME NEW q \in 1 .. f - 1, ls[q].nullifierHash = n PROVE FALSE
    <3>1. q \in EventsOf(n, ls) /\ q < f
      BY <1>1, <1>5, <2>1 DEF EventsOf
    <3>2. q \in Nat /\ f \in Nat /\ f <= q
      BY <1>1, <1>4, <1>5, <3>1
    <3> QED BY <3>1, <3>2
  <2> QED BY <1>5, <2>1 DEF FirstWrites
<1>7. LogOfKey(f, ls) = ls[p]
  <2>1. PICK q \in DOMAIN ls : /\ IsCurrent(q, ls) /\ LogOfKey(f, ls) = ls[q]
                               /\ ls[q].nullifierHash = ls[f].nullifierHash
    BY <1>5, LogOfKeyDef
  <2>2. q = p
    BY <1>2, <1>5, <2>1, CurrentUnique
  <2> QED BY <2>1, <2>2
<1>8. f \in Found(ls)
  BY <1>6, <1>7 DEF Found
<1>9. PICK k \in DOMAIN KeyOrder(Found(ls)) : KeyOrder(Found(ls))[k] = f
  BY <1>8, ReportDef
<1>10. k \in DOMAIN Report(ls) /\ Report(ls)[k] = ls[p].commitmentHash
  BY <1>7, <1>9, ReportDef
<1> QED BY <1>10 DEF ToSet

\* What is reported is the last log of a nullifier, and suspicious.
LEMMA ReportsOnly ==
  ASSUME NEW S, NEW ls \in Seq(S), NEW c \in ToSet(Report(ls))
  PROVE  \E p \in DOMAIN ls : IsCurrent(p, ls) /\ Suspicious(ls[p]) /\ ls[p].commitmentHash = c
<1>1. PICK k \in DOMAIN Report(ls) : Report(ls)[k] = c
  BY DEF ToSet
<1>2. PICK f : f = KeyOrder(Found(ls))[k]
  OBVIOUS
<1>3. f \in Found(ls) /\ f \in DOMAIN ls /\ LogOfKey(f, ls).commitmentHash = c
  BY <1>1, <1>2, ReportDef
<1>4. PICK q \in DOMAIN ls : /\ IsCurrent(q, ls) /\ LogOfKey(f, ls) = ls[q]
                             /\ ls[q].nullifierHash = ls[f].nullifierHash
  BY <1>3, LogOfKeyDef
<1>5. Suspicious(ls[q])
  BY <1>3, <1>4 DEF Found
<1> QED BY <1>3, <1>4, <1>5

\* While every nullifier was written once, the report is in the order of the logs.
LEMMA ReportsInOrder ==
  ASSUME NEW S, NEW ls \in Seq(S), \A p \in DOMAIN ls : IsCurrent(p, ls),
         NEW j \in DOMAIN Report(ls), NEW k \in DOMAIN Report(ls), j < k
  PROVE  \E p, q \in DOMAIN ls : /\ p < q
                                 /\ ls[p].commitmentHash = Report(ls)[j]
                                 /\ ls[q].commitmentHash = Report(ls)[k]
<1>1. PICK o : o = KeyOrder(Found(ls))
  OBVIOUS
<1>2. /\ j \in DOMAIN o /\ k \in DOMAIN o /\ o[j] \in DOMAIN ls /\ o[k] \in DOMAIN ls
      /\ o[j] < o[k]
      /\ Report(ls)[j] = LogOfKey(o[j], ls).commitmentHash
      /\ Report(ls)[k] = LogOfKey(o[k], ls).commitmentHash
  BY <1>1, ReportDef
<1>3. \A p \in DOMAIN ls : LogOfKey(p, ls) = ls[p]
  <2> TAKE p \in DOMAIN ls
  <2>1. PICK q \in DOMAIN ls : /\ IsCurrent(q, ls) /\ LogOfKey(p, ls) = ls[q]
                               /\ ls[q].nullifierHash = ls[p].nullifierHash
    BY LogOfKeyDef
  <2>2. q = p
    BY <2>1, CurrentUnique
  <2> QED BY <2>1, <2>2
<1> QED BY <1>2, <1>3

LEMMA ReportTyped ==
  ASSUME NEW S, NEW ls \in Seq(S), \A p \in DOMAIN ls : ls[p].commitmentHash \in Note
  PROVE  Report(ls) \in Seq(Note)
<1>1. PICK r, c : r = Report(ls) /\ c = Cardinality(Found(ls))
  OBVIOUS
<1>2. c \in Nat /\ DOMAIN r = 1 .. c
  BY <1>1, ReportDef
<1>3. \A k \in 1 .. c : r[k] \in Note
  <2> TAKE k \in 1 .. c
  <2>1. r[k] \in ToSet(Report(ls))
    BY <1>1, <1>2 DEF ToSet
  <2> QED BY <2>1, ReportsOnly
<1>4. r \in [1 .. c -> Note]
  <2>1. r = [k \in 1 .. c |-> r[k]]
    BY <1>1, <1>2, ReportDef
  <2> QED BY <1>3, <2>1
<1> QED BY <1>1, <1>2, <1>4

-----------------------------------------------------------------------------
(* The account                                                             *)

\* What an execution may add: a note of its own for the owner of the nullifier or
\* for a stranger, at the index after it, and no index of a user before its turn.
MayFollow(e) ==
  /\ e \in Event
  /\ e.commitmentHash.user \in {e.nullifierHash[1], Stranger}
  /\ e.commitmentHash.index = e.nullifierHash[2] + 1
  /\ e.nullifierHash[1] \in User => \A i \in 0 .. e.nullifierHash[2] - 1 :
       EventsOf(<<e.nullifierHash[1], i>>, executions) # {}
  /\ e.encryptedAllowance = HashZero => \A q \in DOMAIN executions :
       executions[q].nullifierHash = e.nullifierHash =>
         executions[q].encryptedAllowance = HashZero

\* A list of what the first executions left under their nullifiers.
Follows(es) ==
  /\ es \in Seq(Event) \/ es \in Seq(Log)
  /\ Len(es) <= Len(executions)
  /\ \A p \in DOMAIN es : /\ es[p].nullifierHash = executions[p].nullifierHash
                          /\ es[p].encryptedAllowance = executions[p].encryptedAllowance

\* Where nothing is under a nullifier, there was never anything else than HashZero;
\* and where there is something, there goes on being something.
LEMMA NeverUsed ==
  ASSUME Inv, NEW es, Follows(es), NEW n, ~ IsUsed(n, es), NEW p \in DOMAIN es,
         es[p].nullifierHash = n
  PROVE  es[p].encryptedAllowance = HashZero
<1>1. PICK S : es \in Seq(S)
  BY DEF Follows
<1>2. DOMAIN es = 1 .. Len(es) /\ Len(es) \in Nat
  BY <1>1
<1>3. executions \in Seq(Event) /\ \A r \in DOMAIN es : r \in DOMAIN executions
  BY <1>2 DEF Inv, AuditTypeOK, Follows
<1>4. EventsOf(n, es) # {}
  BY DEF EventsOf
<1>5. PICK q \in EventsOf(n, es) : IsCurrent(q, es)
  BY <1>1, <1>4, CurrentExists
<1>6. q \in DOMAIN es /\ es[q].nullifierHash = n /\ es[q].encryptedAllowance = HashZero
  BY <1>5 DEF EventsOf, IsUsed
<1>7. p \in Nat /\ q \in Nat /\ ~ (p > q)
  BY <1>2, <1>5, <1>6 DEF IsCurrent
<1>8. CASE p = q
  BY <1>6, <1>8
<1>9. CASE p \in 1 .. q - 1
  <2>1. executions[q].encryptedAllowance = HashZero /\ executions[q].nullifierHash = n
        /\ executions[p].nullifierHash = n
    BY <1>6 DEF Follows
  <2>2. executions[p].encryptedAllowance = HashZero
    BY <1>3, <1>6, <1>9, <2>1 DEF Inv, ExecutionsSound
  <2> QED BY <2>2 DEF Follows
<1>10. p = q \/ p \in 1 .. q - 1
  BY <1>2, <1>7
<1> QED BY <1>8, <1>9, <1>10

LEMMA StillUsed ==
  ASSUME Inv, NEW es, Follows(es), NEW fs, Follows(fs), Len(es) <= Len(fs), NEW n, IsUsed(n, es)
  PROVE  IsUsed(n, fs)
<1> SUFFICES ASSUME ~ IsUsed(n, fs) PROVE FALSE
  OBVIOUS
<1>1. PICK p \in EventsOf(n, es) : es[p].encryptedAllowance # HashZero
  BY DEF IsUsed
<1>2. p \in DOMAIN es /\ es[p].nullifierHash = n
  BY <1>1 DEF EventsOf
<1>3. p \in DOMAIN fs
  <2>1. DOMAIN es = 1 .. Len(es) /\ Len(es) \in Nat /\ DOMAIN fs = 1 .. Len(fs) /\ Len(fs) \in Nat
    BY DEF Follows
  <2> QED BY <1>2, <2>1
<1>4. fs[p].nullifierHash = n /\ fs[p].encryptedAllowance = es[p].encryptedAllowance
  BY <1>2, <1>3 DEF Follows
<1> QED BY <1>1, <1>3, <1>4, NeverUsed

LEMMA HiddenKept ==
  ASSUME NEW before, \A p \in 1 .. before : executions'[p] = executions[p], NEW n
  PROVE  Hidden(n, before)' <=> Hidden(n, before)
<1>1. \A m : Unused(m, before)' <=> Unused(m, before)
  BY DEF Unused
<1> QED BY <1>1 DEF Hidden

LEMMA Appended ==
  ASSUME NEW S, NEW s \in Seq(S), NEW e \in S, NEW t, t = Append(s, e)
  PROVE  /\ t \in Seq(S) /\ Len(t) = Len(s) + 1 /\ Len(s) \in Nat
         /\ DOMAIN s = 1 .. Len(s) /\ DOMAIN t = 1 .. Len(s) + 1
         /\ \A p \in DOMAIN s : t[p] = s[p]
         /\ t[Len(s) + 1] = e
OBVIOUS

LEMMA Emitting ==
  ASSUME Inv, NEW e, MayFollow(e), Len(executions) < MaxEvents,
         executions' = Append(executions, e),
         UNCHANGED <<discards, adminVars>>
  PROVE  Inv'
<1> USE DEF Inv
<1>1. PICK t, l : t = executions' /\ l = Len(executions)
  OBVIOUS
<1>2. e \in Event /\ executions \in Seq(Event)
  BY DEF MayFollow, AuditTypeOK
<1>3. /\ t \in Seq(Event) /\ Len(t) = l + 1 /\ l \in Nat
      /\ DOMAIN executions = 1 .. l /\ DOMAIN t = 1 .. l + 1
      /\ \A p \in DOMAIN executions : t[p] = executions[p]
      /\ t[l + 1] = e
  <2> HIDE DEF Inv
  <2> QED BY <1>1, <1>2, Appended
<1>4. UNCHANGED <<discards, cache, audit, startedAt, done, report>>
  BY DEF adminVars
<1>5. AuditTypeOK'
  <2>1. ToSet(Inserted) \subseteq ToSet(Inserted)'
    BY <1>1, <1>3 DEF ToSet, Inserted
  <2>2. Len(cache.logs) <= Len(executions)' /\ startedAt \in 0 .. Len(executions)'
    <3>1. Len(cache.logs) \in Nat
      BY DEF AuditTypeOK
    <3> QED BY <1>1, <1>3, <3>1 DEF AuditTypeOK
  <2>3. executions' \in Seq(Event) /\ Len(executions') <= MaxEvents
    BY <1>1, <1>3, AuditSizes
  <2> QED BY <1>4, <2>1, <2>2, <2>3 DEF AuditTypeOK, Truthful
<1>6. ExecutionsSound'
  <2>1. ASSUME NEW p \in 1 .. l + 1
        PROVE  /\ t[p].commitmentHash.user \in {t[p].nullifierHash[1], Stranger}
               /\ t[p].commitmentHash.index = t[p].nullifierHash[2] + 1
               /\ t[p].nullifierHash[1] \in User => \A i \in 0 .. t[p].nullifierHash[2] - 1 :
                    \E q \in 1 .. p - 1 : t[q].nullifierHash = <<t[p].nullifierHash[1], i>>
               /\ t[p].encryptedAllowance = HashZero => \A q \in 1 .. p - 1 :
                    t[q].nullifierHash = t[p].nullifierHash => t[q].encryptedAllowance = HashZero
    <3>1. CASE p = l + 1
      <4>1. ASSUME e.nullifierHash[1] \in User, NEW i \in 0 .. e.nullifierHash[2] - 1
            PROVE  \E q \in 1 .. l : t[q].nullifierHash = <<e.nullifierHash[1], i>>
        <5>1. PICK q \in EventsOf(<<e.nullifierHash[1], i>>, executions) : TRUE
          BY <4>1 DEF MayFollow
        <5> QED BY <1>3, <5>1 DEF EventsOf
      <4>2. t[p] = e /\ p - 1 = l
        BY <1>3, <3>1
      <4>3. /\ e.commitmentHash.user \in {e.nullifierHash[1], Stranger}
            /\ e.commitmentHash.index = e.nullifierHash[2] + 1
        BY DEF MayFollow
      <4>4. ASSUME e.encryptedAllowance = HashZero, NEW q \in 1 .. l,
                   t[q].nullifierHash = e.nullifierHash
            PROVE  t[q].encryptedAllowance = HashZero
        BY <1>3, <4>4 DEF MayFollow
      <4> HIDE DEF Inv
      <4> QED BY <4>1, <4>2, <4>3, <4>4, Zenon
    <3>2. CASE p \in 1 .. l
      <4>1. t[p] = executions[p] /\ \A q \in 1 .. p - 1 : t[q] = executions[q]
        BY <1>3, <3>2
      <4>2. p \in DOMAIN executions
        BY <1>3, <3>2
      <4>3. PICK x : x = executions[p]
        OBVIOUS
      <4>4. /\ x.commitmentHash.user \in {x.nullifierHash[1], Stranger}
            /\ x.commitmentHash.index = x.nullifierHash[2] + 1
            /\ x.nullifierHash[1] \in User => \A i \in 0 .. x.nullifierHash[2] - 1 :
                 \E q \in 1 .. p - 1 : executions[q].nullifierHash = <<x.nullifierHash[1], i>>
            /\ x.encryptedAllowance = HashZero => \A q \in 1 .. p - 1 :
                 executions[q].nullifierHash = x.nullifierHash =>
                   executions[q].encryptedAllowance = HashZero
        BY <4>2, <4>3, Zenon DEF ExecutionsSound
      <4>5. x = t[p]
        BY <4>1, <4>3
      <4>6. ASSUME x.nullifierHash[1] \in User, NEW i \in 0 .. x.nullifierHash[2] - 1
            PROVE  \E q \in 1 .. p - 1 : t[q].nullifierHash = <<x.nullifierHash[1], i>>
        <5>1. PICK q \in 1 .. p - 1 : executions[q].nullifierHash = <<x.nullifierHash[1], i>>
          BY <4>4, <4>6
        <5>2. t[q].nullifierHash = <<x.nullifierHash[1], i>>
          BY <4>1, <5>1
        <5> QED BY <5>2
      <4>7. ASSUME x.encryptedAllowance = HashZero, NEW q \in 1 .. p - 1,
                   t[q].nullifierHash = x.nullifierHash
            PROVE  t[q].encryptedAllowance = HashZero
        BY <4>1, <4>4, <4>7
      <4> HIDE DEF Inv
      <4> QED BY <4>4, <4>5, <4>6, <4>7, Zenon
    <3>3. p = l + 1 \/ p \in 1 .. l
      BY <1>3
    <3> QED BY <3>1, <3>2, <3>3, Zenon
  <2> QED BY <1>1, <1>3, <2>1 DEF ExecutionsSound
<1>7. CacheSound'
  <2>1. \A p \in DOMAIN cache.logs : p \in 1 .. l /\ t[p] = executions[p]
    <3>1. DOMAIN cache.logs = 1 .. Len(cache.logs) /\ Len(cache.logs) \in Nat
      BY DEF AuditTypeOK
    <3> QED BY <1>1, <1>3, <3>1 DEF AuditTypeOK
  <2> QED BY <1>1, <1>4, <2>1 DEF CacheSound
<1>8. WalkSound'
  <2>1. Report(cache.logs)' = Report(cache.logs)
    BY <1>4 DEF Report, KeyOrder, FirstWrites, Suspicious, LogOfKey, EventsOf, IsCurrent
  <2>2. \A n : Hidden(n, startedAt)' <=> Hidden(n, startedAt)
    <3>1. startedAt \in 0 .. l
      BY <1>1 DEF AuditTypeOK
    <3>2. \A p \in 1 .. startedAt : executions'[p] = executions[p]
      BY <1>1, <1>3, <3>1
    <3>3. \A n : Hidden(n, startedAt)' <=> Hidden(n, startedAt)
      BY <1>4, <3>2, HiddenKept
    <3> QED BY <3>3
  <2>3. \A u : Tags(u)' <=> Tags(u)
    BY <1>4, <2>2 DEF Tags, IsCurrent
  <2>4. Counted' <=> Counted
    BY <1>4 DEF Counted, IsUsed, EventsOf, IsCurrent
  <2> QED BY <1>4, <2>1, <2>3, <2>4 DEF WalkSound
<1> QED BY <1>5, <1>6, <1>7, <1>8

LEMMA Granting ==
  ASSUME Inv, NEW u \in User, NEW i \in 0 .. MaxEvents, NEW amount \in 1 .. MaxAmount,
         Grant(u, i, amount)
  PROVE  Inv'
<1>1. PICK e : e = [nullifierHash |-> <<u, i>>, encryptedAllowance |-> amount,
                    commitmentHash |-> [user |-> u, index |-> i + 1, amount |-> amount]]
  OBVIOUS
<1>2. i \in Nat /\ amount \in Nat /\ u \in Key
  BY AuditSizes DEF Key
<1>3. e \in Event
  BY <1>1, <1>2 DEF Event, Note
<1>4. executions \in Seq(Event)
  BY DEF Inv, AuditTypeOK
<1>5. \A j \in 0 .. i - 1 : EventsOf(<<u, j>>, executions) # {}
  <2>1. PICK k : k = LastIndex(u, executions)
    OBVIOUS
  <2>2. k \in 0 .. Len(executions) /\ \A j \in 0 .. k - 1 : EventsOf(<<u, j>>, executions) # {}
    <3>1. k \in 0 .. Len(executions) /\ \A j \in 0 .. k - 1 : IsUsed(<<u, j>>, executions)
      BY <1>4, <2>1, LastIndexDef
    <3> QED BY <3>1 DEF IsUsed
  <2>3. Len(executions) \in Nat /\ i <= k
    BY <1>4, <2>1 DEF Grant
  <2> QED BY <1>2, <2>2, <2>3
<1>6. MayFollow(e)
  <2>1. e.encryptedAllowance # HashZero
    BY <1>1, <1>2, AuditSizes
  <2> QED BY <1>1, <1>3, <1>5, <2>1 DEF MayFollow
<1>7. /\ Len(executions) < MaxEvents /\ executions' = Append(executions, e)
      /\ UNCHANGED <<discards, adminVars>>
  BY <1>1 DEF Grant, Emit
<1> QED BY <1>6, <1>7, Emitting

LEMMA Spending ==
  ASSUME Inv, NEW n \in ToSet(Inserted), NEW key \in Key,
         NEW left \in 0 .. MaxAmount, NEW allowance \in Ciphertext,
         Spend(n, key, left, allowance)
  PROVE  Inv'
<1>1. PICK e : e = [nullifierHash |-> <<n.user, n.index>>, encryptedAllowance |-> allowance,
                    commitmentHash |-> [user |-> key, index |-> n.index + 1, amount |-> left]]
  OBVIOUS
<1>2. executions \in Seq(Event)
  BY DEF Inv, AuditTypeOK
<1>3. PICK p \in DOMAIN executions : executions[p].commitmentHash = n
  BY DEF ToSet, Inserted
<1>4. PICK x : x = executions[p]
  OBVIOUS
<1>5. /\ x \in Event /\ x.commitmentHash = n /\ n.user \in {x.nullifierHash[1], Stranger}
      /\ n.index = x.nullifierHash[2] + 1
      /\ x.nullifierHash[1] \in User => \A i \in 0 .. x.nullifierHash[2] - 1 :
           \E q \in 1 .. p - 1 : executions[q].nullifierHash = <<x.nullifierHash[1], i>>
  <2>1. x \in Event
    BY <1>2, <1>3, <1>4
  <2>2. /\ x.commitmentHash.user \in {x.nullifierHash[1], Stranger}
        /\ x.commitmentHash.index = x.nullifierHash[2] + 1
        /\ x.nullifierHash[1] \in User => \A i \in 0 .. x.nullifierHash[2] - 1 :
             \E q \in 1 .. p - 1 : executions[q].nullifierHash = <<x.nullifierHash[1], i>>
    BY <1>4, Zenon DEF Inv, ExecutionsSound
  <2>3. x.commitmentHash = n
    BY <1>3, <1>4
  <2> QED BY <2>1, <2>2, <2>3, Zenon
<1>6. n \in Note /\ left \in Nat /\ allowance \in Nat \cup {HashZero, Junk}
  BY <1>5, AuditSizes DEF Event, Ciphertext
<1>7. e \in Event
  BY <1>1, <1>6 DEF Event, Note
<1>8. ASSUME n.user \in User, NEW i \in 0 .. n.index - 1
      PROVE  EventsOf(<<n.user, i>>, executions) # {}
  <2>1. n.user = x.nullifierHash[1]
    BY <1>5, <1>8, AuditSizes DEF User
  <2>2. x.nullifierHash \in Key \X Nat /\ i \in Nat /\ n.index \in Nat
    BY <1>5, <1>6 DEF Event, Note
  <2>3. CASE i = x.nullifierHash[2]
    <3>1. x.nullifierHash = <<n.user, i>>
      BY <2>1, <2>2, <2>3
    <3> QED BY <1>4, <3>1 DEF EventsOf
  <2>4. CASE i \in 0 .. x.nullifierHash[2] - 1
    <3>1. PICK q \in 1 .. p - 1 : executions[q].nullifierHash = <<n.user, i>>
      BY <1>5, <1>8, <2>1, <2>4
    <3>2. q \in DOMAIN executions
      BY <1>2
    <3> QED BY <3>1, <3>2 DEF EventsOf
  <2> QED BY <1>5, <1>8, <2>2, <2>3, <2>4
<1>9. MayFollow(e)
  <2>1. e.nullifierHash[1] = n.user /\ e.nullifierHash[2] = n.index
        /\ e.commitmentHash.user = key /\ e.commitmentHash.index = n.index + 1
    BY <1>1
  <2>2. key \in {n.user, Stranger}
    BY DEF Spend
  <2>3. ASSUME NEW q \in DOMAIN executions, executions[q].nullifierHash = <<n.user, n.index>>
        PROVE  executions[q].encryptedAllowance = HashZero
    <3>1. Follows(executions)
      BY <1>2 DEF Follows
    <3>2. ~ IsUsed(<<n.user, n.index>>, executions)
      BY DEF Spend
    <3> QED BY <2>3, <3>1, <3>2, NeverUsed
  <2>4. e.nullifierHash = <<n.user, n.index>>
    BY <1>1
  <2> QED BY <1>7, <1>8, <2>1, <2>2, <2>3, <2>4 DEF MayFollow
<1>10. /\ Len(executions) < MaxEvents /\ executions' = Append(executions, e)
      /\ UNCHANGED <<discards, adminVars>>
  BY <1>1 DEF Spend, Emit
<1> QED BY <1>9, <1>10, Emitting

-----------------------------------------------------------------------------
(* What the admin reads                                                    *)

\* The log is that of the event, its tag is true and on the log of a user.
LogOf(log, e) ==
  /\ log \in Log
  /\ log.nullifierHash = e.nullifierHash
  /\ log.commitmentHash = e.commitmentHash
  /\ log.encryptedAllowance = e.encryptedAllowance
  /\ log.userIndex => log.nullifierHash[1] \in User
  /\ Truthful(log)

\* Sound logs of all events.
Complete(ls) ==
  /\ ls \in Seq(Log) /\ Len(ls) = Len(executions)
  /\ \A p \in DOMAIN ls : LogOf(ls[p], executions[p])

LEMMA InvFacts ==
  ASSUME Inv
  PROVE  /\ executions \in Seq(Event) /\ Len(executions) \in Nat
         /\ DOMAIN executions = 1 .. Len(executions)
         /\ cache.logs \in Seq(Log) /\ Len(cache.logs) \in Nat
         /\ DOMAIN cache.logs = 1 .. Len(cache.logs)
         /\ Len(cache.logs) <= Len(executions)
         /\ \A p \in DOMAIN cache.logs : LogOf(cache.logs[p], executions[p])
<1>1. /\ executions \in Seq(Event) /\ cache.logs \in Seq(Log)
      /\ Len(cache.logs) <= Len(executions)
      /\ \A p \in DOMAIN cache.logs : Truthful(cache.logs[p])
  BY DEF Inv, AuditTypeOK
<1>2. /\ Len(executions) \in Nat /\ Len(cache.logs) \in Nat
      /\ DOMAIN executions = 1 .. Len(executions) /\ DOMAIN cache.logs = 1 .. Len(cache.logs)
      /\ \A p \in DOMAIN cache.logs : cache.logs[p] \in Log
  BY <1>1
<1>3. ASSUME NEW p \in DOMAIN cache.logs PROVE LogOf(cache.logs[p], executions[p])
  BY <1>1, <1>2 DEF LogOf, Inv, CacheSound
<1> QED BY <1>1, <1>2, <1>3

\* Marking a log as discarded, or giving a log without a tag a true one.
LEMMA LogMarked ==
  ASSUME NEW log, NEW e, LogOf(log, e)
  PROVE  LogOf([log EXCEPT !.discarded = TRUE], e)
<1>1. PICK m : m = [log EXCEPT !.discarded = TRUE]
  OBVIOUS
<1>2. /\ m \in Log /\ m.nullifierHash = log.nullifierHash
      /\ m.commitmentHash = log.commitmentHash
      /\ m.encryptedAllowance = log.encryptedAllowance
      /\ m.userIndex = log.userIndex /\ m.valid = log.valid
  BY <1>1 DEF LogOf, Log
<1>3. Truthful(m)
  <2>1. Truthful(log)
    BY DEF LogOf
  <2> QED BY <1>2, <2>1 DEF Truthful, Decrypts
<1> QED BY <1>1, <1>2, <1>3 DEF LogOf

LEMMA LogTagged ==
  ASSUME NEW log, NEW e, LogOf(log, e), log.nullifierHash[1] \in User
  PROVE  /\ LogOf(Tag(log), e)
         /\ log.valid # "unset" => Tag(log).valid = log.valid
         /\ Decrypts(log) => Tag(log).valid # "unset"
<1>1. PICK g, m : /\ g = (IF log.valid # "unset" \/ ~ Decrypts(log) THEN log.valid
                          ELSE IF Recomputed(log) = log.commitmentHash THEN "yes" ELSE "no")
                  /\ m = [log EXCEPT !.userIndex = TRUE, !.valid = g]
  OBVIOUS
<1>2. log \in Log /\ log.valid \in {"unset", "yes", "no"}
  BY DEF LogOf, Log
<1>3. g \in {"unset", "yes", "no"}
  BY <1>1, <1>2
<1>4. /\ m \in Log /\ m.nullifierHash = log.nullifierHash
      /\ m.commitmentHash = log.commitmentHash
      /\ m.encryptedAllowance = log.encryptedAllowance /\ m.userIndex = TRUE /\ m.valid = g
  BY <1>1, <1>2, <1>3 DEF Log
<1>5. Truthful(m)
  <2> SUFFICES ASSUME g # "unset" PROVE Truthful(m)
    BY <1>4 DEF Truthful
  <2>1. CASE log.valid # "unset"
    <3>1. g = log.valid
      BY <1>1, <2>1
    <3>2. Truthful(log)
      BY DEF LogOf
    <3> QED BY <1>4, <2>1, <3>1, <3>2 DEF Truthful, Decrypts
  <2>2. CASE log.valid = "unset"
    <3>1. Decrypts(log) /\ (g = "yes") = (Recomputed(log) = log.commitmentHash)
      BY <1>1, <2>2
    <3>2. Recomputed(log) = [user |-> m.nullifierHash[1], index |-> m.nullifierHash[2] + 1,
                             amount |-> m.encryptedAllowance]
      BY <1>4 DEF Recomputed
    <3>3. Decrypts(m)
      BY <1>4, <3>1 DEF Decrypts
    <3> QED BY <1>4, <3>1, <3>2, <3>3 DEF Truthful
  <2> QED BY <2>1, <2>2
<1>6. m = Tag(log)
  BY <1>1 DEF Tag
<1>7. LogOf(m, e)
  BY <1>4, <1>5 DEF LogOf
<1>8. log.valid # "unset" => m.valid = log.valid
  BY <1>1, <1>4
<1>9. Decrypts(log) => m.valid # "unset"
  BY <1>1, <1>4
<1> QED BY <1>6, <1>7, <1>8, <1>9

\* getData brings every event, and leaves the tags of the logs it had.
LEMMA FreshComplete ==
  ASSUME Inv
  PROVE  /\ Fresh = [discards |-> Len(discards), logs |-> Fresh.logs]
         /\ Complete(Fresh.logs)
         /\ \A p \in DOMAIN cache.logs : Fresh.logs[p].valid = cache.logs[p].valid
<1> DEFINE new(e) == [nullifierHash |-> e.nullifierHash, commitmentHash |-> e.commitmentHash,
                      encryptedAllowance |-> e.encryptedAllowance,
                      discarded |-> FALSE, userIndex |-> FALSE, valid |-> "unset"]
           all == [p \in DOMAIN executions |->
                     IF p \in DOMAIN cache.logs THEN cache.logs[p] ELSE new(executions[p])]
           gone == ToSet(SubSeq(discards, cache.discards + 1, Len(discards)))
           ls == [p \in DOMAIN all |->
                    IF all[p].commitmentHash \in gone /\ IsLastOf(p, all)
                    THEN [all[p] EXCEPT !.discarded = TRUE] ELSE all[p]]
<1>1. Fresh = [discards |-> Len(discards), logs |-> ls]
  BY DEF Fresh
<1> HIDE DEF gone
<1>2. DOMAIN all = DOMAIN executions /\ DOMAIN ls = DOMAIN executions
  OBVIOUS
<1>3. \A p \in DOMAIN executions : LogOf(all[p], executions[p])
  <2> TAKE p \in DOMAIN executions
  <2>1. CASE p \in DOMAIN cache.logs
    BY <2>1, InvFacts
  <2>2. CASE p \notin DOMAIN cache.logs
    <3>1. PICK e : e = executions[p] /\ all[p] = new(e)
      BY <2>2
    <3>2. e \in Event
      BY <3>1, InvFacts
    <3>3. LogOf(new(e), e)
      BY <3>2 DEF LogOf, Log, Event, Truthful
    <3> HIDE DEF new, all
    <3> QED BY <3>1, <3>3
  <2> QED BY <2>1, <2>2
<1>4. \A p \in DOMAIN cache.logs : p \in DOMAIN executions /\ all[p] = cache.logs[p]
  BY InvFacts
<1>5. \A p \in DOMAIN executions : ls[p] \in {all[p], [all[p] EXCEPT !.discarded = TRUE]}
  <2> HIDE DEF all
  <2> QED BY <1>2
<1> HIDE DEF all, ls
<1>6. \A p \in DOMAIN executions : LogOf(ls[p], executions[p]) /\ ls[p].valid = all[p].valid
  <2> TAKE p \in DOMAIN executions
  <2>1. CASE ls[p] = all[p]
    BY <1>3, <2>1
  <2>2. CASE ls[p] = [all[p] EXCEPT !.discarded = TRUE]
    <3>1. [all[p] EXCEPT !.discarded = TRUE].valid = all[p].valid
      <4>1. all[p] \in Log
        BY <1>3 DEF LogOf
      <4> QED BY <4>1 DEF Log
    <3>2. LogOf([all[p] EXCEPT !.discarded = TRUE], executions[p])
      BY <1>3, LogMarked
    <3> QED BY <2>2, <3>1, <3>2
  <2> QED BY <1>5, <2>1, <2>2
<1>7. ls \in Seq(Log) /\ Len(ls) = Len(executions)
  <2>1. \A p \in 1 .. Len(executions) : ls[p] \in Log
    BY <1>6, InvFacts DEF LogOf
  <2>2. ls = [p \in 1 .. Len(executions) |-> ls[p]]
    <3>1. DOMAIN executions = 1 .. Len(executions)
      BY InvFacts
    <3>2. ls = [p \in DOMAIN ls |-> ls[p]]
      BY DEF ls
    <3> QED BY <1>2, <3>1, <3>2
  <2>3. ls \in [1 .. Len(executions) -> Log]
    BY <2>1, <2>2
  <2> QED BY <2>3, InvFacts
<1>8. Complete(ls)
  BY <1>2, <1>6, <1>7 DEF Complete
<1>9. Fresh.logs = ls
  BY <1>1
<1> QED BY <1>1, <1>4, <1>6, <1>8, <1>9

-----------------------------------------------------------------------------
(* The walk                                                                *)

LEMMA CompleteFacts ==
  ASSUME Inv, NEW ls, Complete(ls)
  PROVE  /\ ls \in Seq(Log) /\ Len(ls) \in Nat /\ Len(ls) = Len(executions)
         /\ DOMAIN ls = 1 .. Len(ls) /\ DOMAIN ls = DOMAIN executions
         /\ \A p \in DOMAIN ls : /\ LogOf(ls[p], executions[p]) /\ ls[p] \in Log
                                 /\ ls[p].nullifierHash \in Key \X Nat
                                 /\ ls[p].nullifierHash = executions[p].nullifierHash
                                 /\ ls[p].commitmentHash = executions[p].commitmentHash
<1>1. ls \in Seq(Log) /\ Len(ls) = Len(executions) /\ \A p \in DOMAIN ls : LogOf(ls[p], executions[p])
  BY DEF Complete
<1>2. Len(ls) \in Nat /\ DOMAIN ls = 1 .. Len(ls)
  BY <1>1
<1>3. DOMAIN ls = DOMAIN executions
  BY <1>1, <1>2, InvFacts
<1>4. \A p \in DOMAIN ls : ls[p] \in Log /\ ls[p].nullifierHash \in Key \X Nat
  BY <1>1 DEF LogOf, Log
<1> QED BY <1>1, <1>2, <1>3, <1>4 DEF LogOf

LEMMA CompleteFollows ==
  ASSUME Inv
  PROVE  /\ Follows(cache.logs)
         /\ \A ls : Complete(ls) => Follows(ls) /\ Len(cache.logs) <= Len(ls)
<1>1. Follows(cache.logs)
  BY InvFacts DEF Follows, LogOf
<1>2. ASSUME NEW ls, Complete(ls) PROVE Follows(ls) /\ Len(cache.logs) <= Len(ls)
  <2>1. /\ ls \in Seq(Log) /\ Len(ls) = Len(executions) /\ Len(ls) \in Nat
        /\ \A p \in DOMAIN ls : LogOf(ls[p], executions[p])
    BY <1>2, CompleteFacts
  <2> QED BY <2>1, InvFacts DEF Follows, LogOf
<1> QED BY <1>1, <1>2

TagsIn(ls, before, u) ==
  \A p \in 1 .. before :
    (/\ IsCurrent(p, ls) /\ ls[p].nullifierHash[1] = u
     /\ ls[p].encryptedAllowance # HashZero /\ ~ Hidden(ls[p].nullifierHash, before))
      => ls[p].valid # "unset"

\* What was tagged stays tagged: a longer list has fewer last logs among the old.
LEMMA TagsKept ==
  ASSUME NEW ls \in Seq(Log), NEW ms \in Seq(Log), NEW before \in Nat, NEW u,
         before <= Len(ls), Len(ls) <= Len(ms),
         \A p \in DOMAIN ls : /\ ms[p].nullifierHash = ls[p].nullifierHash
                              /\ ms[p].encryptedAllowance = ls[p].encryptedAllowance
                              /\ ls[p].valid # "unset" => ms[p].valid # "unset",
         TagsIn(ls, before, u)
  PROVE  TagsIn(ms, before, u)
<1>1. /\ Len(ls) \in Nat /\ Len(ms) \in Nat
      /\ DOMAIN ls = 1 .. Len(ls) /\ DOMAIN ms = 1 .. Len(ms)
  OBVIOUS
<1>2. ASSUME NEW p \in 1 .. before, IsCurrent(p, ms), ms[p].nullifierHash[1] = u,
             ms[p].encryptedAllowance # HashZero, ~ Hidden(ms[p].nullifierHash, before)
      PROVE  ms[p].valid # "unset"
  <2>1. p \in DOMAIN ls
    BY <1>1
  <2>2. IsCurrent(p, ls)
    <3>1. ASSUME NEW q \in DOMAIN ls, q > p, ls[q].nullifierHash = ls[p].nullifierHash
          PROVE  FALSE
      <4>1. q \in DOMAIN ms
        BY <1>1
      <4> QED BY <1>2, <2>1, <3>1, <4>1 DEF IsCurrent
    <3> QED BY <3>1 DEF IsCurrent
  <2>3. /\ ls[p].nullifierHash = ms[p].nullifierHash
        /\ ls[p].encryptedAllowance = ms[p].encryptedAllowance
    BY <2>1
  <2>4. ls[p].valid # "unset"
    BY <1>2, <2>2, <2>3 DEF TagsIn
  <2> QED BY <2>1, <2>4
<1> QED BY <1>2 DEF TagsIn

\* A nullifier under which there is nothing held nothing before either, and what
\* the count does not come to is hidden by it.
LEMMA CountEnds ==
  ASSUME Inv, NEW ls, Complete(ls), NEW u \in Nat, NEW i \in Nat, ~ IsUsed(<<u, i>>, ls),
         NEW before \in 0 .. Len(ls)
  PROVE  /\ Unused(<<u, i>>, before)
         /\ \A p \in DOMAIN ls :
              (/\ ls[p].nullifierHash[1] = u /\ ls[p].encryptedAllowance # HashZero
               /\ ~ Hidden(ls[p].nullifierHash, before))
                => ls[p].nullifierHash = <<u, ls[p].nullifierHash[2]>>
                   /\ ls[p].nullifierHash[2] \in 0 .. i - 1
<1>1. Follows(ls)
  BY CompleteFollows
<1>2. \A p \in DOMAIN ls : ls[p].nullifierHash = <<u, i>> => ls[p].encryptedAllowance = HashZero
  BY <1>1, NeverUsed
<1>3. DOMAIN ls = 1 .. Len(ls) /\ Len(ls) \in Nat
  BY CompleteFacts
<1>4. \A p \in DOMAIN ls : /\ ls[p].nullifierHash = executions[p].nullifierHash
                           /\ ls[p].encryptedAllowance = executions[p].encryptedAllowance
  BY <1>1 DEF Follows
<1>5. Unused(<<u, i>>, before)
  <2>1. \A p \in 1 .. before : p \in DOMAIN ls
    BY <1>3
  <2> QED BY <1>2, <1>4, <2>1 DEF Unused
<1>6. ASSUME NEW p \in DOMAIN ls, ls[p].nullifierHash[1] = u,
             ls[p].encryptedAllowance # HashZero, ~ Hidden(ls[p].nullifierHash, before)
      PROVE  ls[p].nullifierHash = <<u, ls[p].nullifierHash[2]>>
             /\ ls[p].nullifierHash[2] \in 0 .. i - 1
  <2>1. PICK n : n = ls[p].nullifierHash
    OBVIOUS
  <2>2. n \in Key \X Nat
    BY <2>1, CompleteFacts
  <2>3. n = <<u, n[2]>> /\ n[2] \in Nat
    BY <1>6, <2>1, <2>2
  <2>4. n[2] # i
    BY <1>2, <1>6, <2>1, <2>3
  <2>5. ~ (i \in 0 .. n[2] - 1)
    <3> SUFFICES ASSUME i \in 0 .. n[2] - 1 PROVE FALSE
      OBVIOUS
    <3>1. n[1] = u
      BY <1>6, <2>1
    <3>2. Hidden(n, before)
      BY <1>5, <3>1 DEF Hidden
    <3> QED BY <1>6, <2>1, <3>2
  <2>6. n[2] \in 0 .. i - 1
    BY <2>3, <2>4, <2>5
  <2> QED BY <2>1, <2>3, <2>6
<1> QED BY <1>5, <1>6

\* One step of the walk: the logs of its user get tags, the others keep theirs.
LEMMA TaggedComplete ==
  ASSUME Inv, NEW ls, Complete(ls), NEW u \in 0 .. LastUser + 1, NEW index \in Nat
  PROVE  /\ Complete(Tagged(ls, u, index))
         /\ \A p \in DOMAIN ls :
              ls[p].valid # "unset" => Tagged(ls, u, index)[p].valid # "unset"
         /\ (~ IsUsed(<<u, index>>, ls) /\ \A p \in Walked(ls, u, index) : ~ Throws(ls[p]))
              => \A before \in 0 .. Len(ls) : TagsIn(Tagged(ls, u, index), before, u)
<1> DEFINE walked == Walked(ls, u, index)
           Now(p) == /\ p \in walked
                     /\ \A q \in walked :
                          Throws(ls[q]) => ls[p].nullifierHash[2] <= ls[q].nullifierHash[2]
<1>1. PICK ts : ts = Tagged(ls, u, index)
  OBVIOUS
<1>2. ts = [p \in DOMAIN ls |-> IF Now(p) THEN Tag(ls[p]) ELSE ls[p]]
  BY <1>1 DEF Tagged
<1>0. u \in Nat
  BY AuditSizes
<1>3. ASSUME NEW p \in DOMAIN ls, Now(p) PROVE ls[p].nullifierHash[1] \in User
  <2>1. ls[p].nullifierHash[1] = u /\ ls[p].nullifierHash \in Key \X Nat
    <3>1. \E i \in Indices(index) : ls[p].nullifierHash = <<u, i - 1>>
      BY <1>3 DEF Walked
    <3> QED BY <3>1, CompleteFacts
  <2>2. u \in Key /\ u # Stranger
    BY <2>1, AuditSizes
  <2> QED BY <2>1, <2>2 DEF Key
<1>31. (\A p \in walked : ~ Throws(ls[p])) => \A p \in walked : Now(p)
  OBVIOUS
<1> HIDE DEF Now
<1>4. DOMAIN ts = DOMAIN ls
  BY <1>2
<1>5. \A p \in DOMAIN ls : ts[p] = IF Now(p) THEN Tag(ls[p]) ELSE ls[p]
  BY <1>2
<1>6. ASSUME NEW p \in DOMAIN ls
      PROVE  /\ LogOf(ts[p], executions[p])
             /\ ls[p].valid # "unset" => ts[p].valid # "unset"
             /\ Now(p) /\ Decrypts(ls[p]) => ts[p].valid # "unset"
  <2>1. LogOf(ls[p], executions[p])
    BY CompleteFacts
  <2>2. CASE Now(p)
    <3>1. ts[p] = Tag(ls[p]) /\ ls[p].nullifierHash[1] \in User
      BY <1>3, <1>5, <2>2
    <3>2. /\ LogOf(Tag(ls[p]), executions[p])
          /\ ls[p].valid # "unset" => Tag(ls[p]).valid = ls[p].valid
          /\ Decrypts(ls[p]) => Tag(ls[p]).valid # "unset"
      BY <2>1, <3>1, LogTagged
    <3> QED BY <2>2, <3>1, <3>2
  <2>3. CASE ~ Now(p)
    BY <1>5, <2>1, <2>3
  <2> QED BY <2>2, <2>3
<1>7. Complete(ts)
  <2>1. \A p \in 1 .. Len(ls) : ts[p] \in Log
    BY <1>6, CompleteFacts DEF LogOf
  <2>2. DOMAIN ls = 1 .. Len(ls) /\ Len(ls) \in Nat /\ Len(ls) = Len(executions)
    BY CompleteFacts
  <2>3. ts = [p \in 1 .. Len(ls) |-> ts[p]]
    <3>1. ts = [p \in DOMAIN ts |-> ts[p]]
      BY <1>2
    <3> QED BY <1>4, <2>2, <3>1
  <2>4. ts \in [1 .. Len(ls) -> Log]
    BY <2>1, <2>3
  <2>5. ts \in Seq(Log) /\ Len(ts) = Len(executions)
    BY <2>2, <2>4
  <2> QED BY <1>4, <1>6, <2>5 DEF Complete
<1>8. \A p \in DOMAIN ls : ls[p].valid # "unset" => ts[p].valid # "unset"
  BY <1>6
<1>9. ASSUME ~ IsUsed(<<u, index>>, ls), \A p \in walked : ~ Throws(ls[p]),
             NEW before \in 0 .. Len(ls)
      PROVE  TagsIn(ts, before, u)
  <2> SUFFICES ASSUME NEW p \in 1 .. before, IsCurrent(p, ts), ts[p].nullifierHash[1] = u,
                      ts[p].encryptedAllowance # HashZero, ~ Hidden(ts[p].nullifierHash, before)
               PROVE  ts[p].valid # "unset"
    BY DEF TagsIn
  <2>1. p \in DOMAIN ls
    BY CompleteFacts
  <2>2. \A q \in DOMAIN ls : /\ ls[q].nullifierHash = ts[q].nullifierHash
                             /\ ls[q].encryptedAllowance = ts[q].encryptedAllowance
    <3> TAKE q \in DOMAIN ls
    <3>1. LogOf(ls[q], executions[q]) /\ LogOf(ts[q], executions[q])
      BY <1>6, CompleteFacts
    <3> QED BY <3>1 DEF LogOf
  <2>3. IsCurrent(p, ls)
    BY <1>4, <2>1, <2>2 DEF IsCurrent
  <2>4. PICK n : n = ls[p].nullifierHash
    OBVIOUS
  <2>5. n = <<u, n[2]>> /\ n[2] \in 0 .. index - 1
    <3>1. /\ ls[p].nullifierHash[1] = u /\ ls[p].encryptedAllowance # HashZero
          /\ ~ Hidden(ls[p].nullifierHash, before)
      BY <2>1, <2>2
    <3> QED BY <1>0, <1>9, <2>1, <2>4, <3>1, CountEnds
  <2>6. n[2] + 1 \in Indices(index) /\ (n[2] + 1) - 1 = n[2]
    BY <2>5 DEF Indices
  <2>7. p \in walked
    BY <2>1, <2>3, <2>4, <2>5, <2>6 DEF Walked
  <2>8. Now(p) /\ ~ Throws(ls[p])
    BY <1>9, <1>31, <2>7
  <2>9. CASE ls[p].valid = "unset"
    <3>1. Decrypts(ls[p])
      BY <2>8, <2>9 DEF Throws
    <3> QED BY <1>6, <2>1, <2>8, <3>1
  <2> QED BY <1>8, <2>1, <2>9
<1> QED BY <1>1, <1>7, <1>8, <1>9

-----------------------------------------------------------------------------
(* The invariant is inductive                                              *)

\* Whatever is reported is the note of an execution.
LEMMA ReportKnown ==
  ASSUME Inv, NEW ls, Complete(ls)
  PROVE  Report(ls) \in Seq(Note) /\ ToSet(Report(ls)) \subseteq ToSet(Inserted)
<1>1. ls \in Seq(Log) /\ \A p \in DOMAIN ls : ls[p].commitmentHash \in Note
  <2>1. ls \in Seq(Log) /\ \A p \in DOMAIN ls : ls[p] \in Log
    BY CompleteFacts
  <2> QED BY <2>1 DEF Log
<1>2. ASSUME NEW c \in ToSet(Report(ls)) PROVE c \in ToSet(Inserted)
  <2>1. PICK p \in DOMAIN ls : ls[p].commitmentHash = c
    BY <1>1, <1>2, ReportsOnly
  <2>2. p \in DOMAIN executions /\ executions[p].commitmentHash = c
    BY <2>1, CompleteFacts
  <2> QED BY <2>2 DEF ToSet, Inserted
<1> QED BY <1>1, <1>2, ReportTyped

\* Where the walk can be.
Walks == [at : {"getAllowance", "decrypt", "tagLogs"}, user : 0 .. LastUser + 1, index : Nat]

\* The part of the invariant that does not depend on where the audit is.
LEMMA Reading ==
  ASSUME Inv, NEW ls, Complete(ls), cache' = [discards |-> Len(discards), logs |-> ls],
         executions' = executions, discards' \in Seq(Note), Len(discards) <= Len(discards'),
         startedAt' \in 0 .. Len(executions), done' \in BOOLEAN,
         report' = (IF done' THEN Report(ls) ELSE <<>>),
         audit' \in [at : {"idle"}] \cup Walks
  PROVE  AuditTypeOK' /\ ExecutionsSound' /\ CacheSound' /\ cache'.logs = ls
<1>1. cache'.logs = ls
  OBVIOUS
<1>2. ls \in Seq(Log) /\ Len(ls) = Len(executions) /\ DOMAIN ls = DOMAIN executions
      /\ \A p \in DOMAIN ls : LogOf(ls[p], executions[p])
  BY CompleteFacts
<1>3. Inserted' = Inserted
  BY DEF Inserted
<1>4. report' \in Seq(Note) /\ ToSet(report') \subseteq ToSet(Inserted)
  <2>1. CASE done'
    BY <2>1, ReportKnown
  <2>2. CASE ~ done'
    BY <2>2 DEF ToSet
  <2> QED BY <2>1, <2>2
<1>5. cache' \in [discards : 0 .. Len(discards'), logs : Seq(Log)]
  <2>1. Len(discards) \in 0 .. Len(discards')
    <3>1. Len(discards) \in Nat /\ Len(discards') \in Nat
      BY DEF Inv, AuditTypeOK
    <3> QED BY <3>1
  <2> QED BY <1>2, <2>1
<1>6. AuditTypeOK'
  <2>1. executions' \in Seq(Event) /\ Len(executions') = Len(executions) /\ Len(executions) \in Nat
    BY InvFacts
  <2>0. Len(executions') <= MaxEvents
    BY DEF Inv, AuditTypeOK
  <2>2. \A p \in DOMAIN ls : Truthful(ls[p])
    BY <1>2 DEF LogOf
  <2>3. (\A p \in DOMAIN cache.logs : Truthful(cache.logs[p]))'
    BY <1>1, <2>2 DEF Truthful, Decrypts
  <2> QED BY <1>1, <1>2, <1>3, <1>4, <1>5, <2>0, <2>1, <2>3 DEF AuditTypeOK, Walks
<1>7. ExecutionsSound'
  BY DEF Inv, ExecutionsSound
<1>8. CacheSound'
  BY <1>1, <1>2 DEF LogOf, CacheSound
<1> QED BY <1>1, <1>6, <1>7, <1>8

LEMMA InitSound == AuditInit => Inv
<1> SUFFICES ASSUME AuditInit PROVE Inv
  OBVIOUS
<1>1. executions = <<>> /\ discards = <<>> /\ cache.logs = <<>> /\ cache.discards = 0
      /\ report = <<>> /\ startedAt = 0 /\ done = FALSE /\ audit.at = "idle"
  BY DEF AuditInit, NotAuditing
<1>2. AuditTypeOK
  <2>1. ToSet(report) = {}
    BY <1>1 DEF ToSet
  <2>2. cache \in [discards : 0 .. Len(discards), logs : Seq(Log)]
    BY DEF AuditInit
  <2>3. audit \in [at : {"idle"}]
    BY DEF AuditInit, NotAuditing
  <2>4. /\ executions \in Seq(Event) /\ discards \in Seq(Note) /\ report \in Seq(Note)
        /\ Len(executions) <= MaxEvents
    BY <1>1, AuditSizes
  <2>5. Len(cache.logs) <= Len(executions) /\ startedAt \in 0 .. Len(executions)
    BY <1>1
  <2>6. \A p \in DOMAIN cache.logs : Truthful(cache.logs[p])
    BY <1>1
  <2>7. done \in BOOLEAN
    BY <1>1
  <2> QED BY <2>1, <2>2, <2>3, <2>4, <2>5, <2>6, <2>7 DEF AuditTypeOK
<1>3. ExecutionsSound /\ CacheSound
  BY <1>1 DEF ExecutionsSound, CacheSound
<1>4. WalkSound
  BY <1>1 DEF WalkSound
<1> QED BY <1>2, <1>3, <1>4 DEF Inv

\* The logs the audit has are the first ones of what it reads next.
LEMMA ReadsOn ==
  ASSUME Inv, NEW ls, Complete(ls),
         \A p \in DOMAIN cache.logs : cache.logs[p].valid # "unset" => ls[p].valid # "unset",
         NEW before \in Nat, before <= Len(cache.logs), NEW u, TagsIn(cache.logs, before, u)
  PROVE  TagsIn(ls, before, u)
<1>1. cache.logs \in Seq(Log) /\ ls \in Seq(Log) /\ Len(cache.logs) <= Len(ls)
  BY InvFacts, CompleteFacts
<1>2. \A p \in DOMAIN cache.logs :
        /\ ls[p].nullifierHash = cache.logs[p].nullifierHash
        /\ ls[p].encryptedAllowance = cache.logs[p].encryptedAllowance
  <2> TAKE p \in DOMAIN cache.logs
  <2>1. p \in DOMAIN ls
    BY InvFacts, CompleteFacts
  <2>2. LogOf(cache.logs[p], executions[p]) /\ LogOf(ls[p], executions[p])
    BY <2>1, InvFacts, CompleteFacts
  <2> QED BY <2>2 DEF LogOf
<1> QED BY <1>1, <1>2, TagsKept

\* Where the audit is, as far as it is going on, and what it reads next.
LEMMA Walking ==
  ASSUME Inv, audit.at # "idle", NEW ls, NEW u, ls = Fresh.logs, u = audit.user
  PROVE  /\ audit \in Walks /\ u \in 0 .. LastUser + 1 /\ u \in Nat /\ audit.index \in Nat
         /\ ~ done /\ report = <<>>
         /\ Complete(ls) /\ Fresh = [discards |-> Len(discards), logs |-> ls]
         /\ startedAt \in 0 .. Len(ls) /\ startedAt \in 0 .. Len(executions)
         /\ discards \in Seq(Note) /\ Len(discards) <= Len(discards)
         /\ \A p \in DOMAIN cache.logs : ls[p].valid = cache.logs[p].valid
         /\ \A i \in 0 .. audit.index - 1 : IsUsed(<<u, i>>, ls)
         /\ \A v \in 0 .. u - 1 : TagsIn(cache.logs, startedAt, v) /\ TagsIn(ls, startedAt, v)
<1>1. audit \in Walks /\ u \in 0 .. LastUser + 1 /\ u \in Nat /\ audit.index \in Nat
  <2>1. audit \in Walks
    BY DEF Inv, AuditTypeOK, Walks
  <2> QED BY <2>1, AuditSizes DEF Walks
<1>2. /\ ~ done /\ startedAt <= Len(cache.logs) /\ report = <<>>
      /\ Counted /\ \A v \in 0 .. u - 1 : Tags(v)
  BY DEF Inv, WalkSound
<1>3. /\ Complete(ls) /\ Fresh = [discards |-> Len(discards), logs |-> ls]
      /\ \A p \in DOMAIN cache.logs : ls[p].valid = cache.logs[p].valid
  BY FreshComplete
<1>4. /\ startedAt \in 0 .. Len(executions) /\ discards \in Seq(Note)
      /\ Len(discards) <= Len(discards)
  BY DEF Inv, AuditTypeOK
<1>5. startedAt \in Nat /\ startedAt \in 0 .. Len(ls)
  BY <1>3, <1>4, InvFacts, CompleteFacts
<1>6. \A i \in 0 .. audit.index - 1 : IsUsed(<<u, i>>, ls)
  <2> TAKE i \in 0 .. audit.index - 1
  <2>1. IsUsed(<<u, i>>, cache.logs)
    BY <1>2 DEF Counted
  <2> QED BY <1>3, <2>1, CompleteFollows, StillUsed
<1>7. ASSUME NEW v \in 0 .. u - 1
      PROVE  TagsIn(cache.logs, startedAt, v) /\ TagsIn(ls, startedAt, v)
  <2>1. TagsIn(cache.logs, startedAt, v)
    BY <1>2 DEF Tags, TagsIn
  <2> QED BY <1>2, <1>3, <1>5, <2>1, ReadsOn
<1> QED BY <1>1, <1>2, <1>3, <1>4, <1>5, <1>6, <1>7

\* The part of the invariant that does: the walk goes on.
LEMMA GoesOn ==
  ASSUME Inv, NEW ls, Complete(ls), cache' = [discards |-> Len(discards), logs |-> ls],
         executions' = executions, discards' = discards, startedAt' \in 0 .. Len(executions),
         done' = FALSE, report' = <<>>, audit' \in Walks,
         \A i \in 0 .. audit'.index - 1 : IsUsed(<<audit'.user, i>>, ls),
         \A v \in 0 .. audit'.user - 1 : TagsIn(ls, startedAt', v)
  PROVE  Inv'
<1>1. AuditTypeOK' /\ ExecutionsSound' /\ CacheSound' /\ cache'.logs = ls
  <2>1. discards' \in Seq(Note) /\ Len(discards) <= Len(discards')
    BY DEF Inv, AuditTypeOK
  <2>2. done' \in BOOLEAN /\ report' = (IF done' THEN Report(ls) ELSE <<>>)
    OBVIOUS
  <2>3. audit' \in [at : {"idle"}] \cup Walks
    OBVIOUS
  <2> QED BY <2>1, <2>2, <2>3, Reading
<1>2. Counted'
  BY <1>1 DEF Counted, IsUsed, EventsOf, IsCurrent
<1>3. \A n : Hidden(n, startedAt)' <=> Hidden(n, startedAt')
  BY DEF Hidden, Unused
<1>4. (\A v \in 0 .. audit.user - 1 : Tags(v))'
  BY <1>1, <1>3 DEF Tags, TagsIn, IsCurrent
<1>5. startedAt' <= Len(cache'.logs)
  <2>1. Len(ls) = Len(executions)
    BY CompleteFacts
  <2>2. startedAt' <= Len(executions)
    BY InvFacts
  <2> QED BY <1>1, <2>1, <2>2
<1>6. WalkSound'
  BY <1>2, <1>4, <1>5 DEF WalkSound
<1> QED BY <1>1, <1>6 DEF Inv

\* The walk stops before its end: a read has failed or a text did not decrypt.
LEMMA GivesUp ==
  ASSUME Inv, NEW ls, Complete(ls), cache' = [discards |-> Len(discards), logs |-> ls],
         executions' = executions, discards' \in Seq(Note), Len(discards) <= Len(discards'),
         startedAt' \in 0 .. Len(executions),
         done' = FALSE, report' = <<>>, audit' \in [at : {"idle"}], audit'.at = "idle"
  PROVE  Inv'
<1>1. AuditTypeOK' /\ ExecutionsSound' /\ CacheSound'
  <2>1. done' \in BOOLEAN /\ report' = (IF done' THEN Report(ls) ELSE <<>>)
    OBVIOUS
  <2>2. audit' \in [at : {"idle"}] \cup Walks
    OBVIOUS
  <2> QED BY <2>1, <2>2, Reading
<1>2. WalkSound'
  BY DEF WalkSound
<1> QED BY <1>1, <1>2 DEF Inv

LEMMA CountStarts ==
  ASSUME NEW at \in {"getAllowance", "tagLogs"}, NEW u \in 0 .. LastUser + 1
  PROVE  /\ CountOf(at, u) \in Walks /\ CountOf(at, u).user = u
         /\ \A ls : \A i \in 0 .. CountOf(at, u).index - 1 : IsUsed(<<CountOf(at, u).user, i>>, ls)
<1>1. CountOf(at, u).index = 0
  BY DEF CountOf
<1>2. \A i \in 0 .. 0 - 1 : FALSE
  OBVIOUS
<1> QED BY <1>1, <1>2 DEF CountOf, Walks

LEMMA Starting == Inv /\ StartAudit => Inv'
<1> SUFFICES ASSUME Inv, StartAudit PROVE Inv'
  OBVIOUS
<1>1. PICK ls : ls = Fresh.logs
  OBVIOUS
<1>2. Complete(ls) /\ cache' = [discards |-> Len(discards), logs |-> ls]
  BY <1>1, FreshComplete DEF StartAudit
<1>3. /\ executions' = executions /\ discards' = discards /\ done' = FALSE /\ report' = <<>>
      /\ startedAt' = Len(executions) /\ audit' = CountOf("getAllowance", 0)
  BY DEF StartAudit, accountVars
<1>4. 0 \in 0 .. LastUser + 1
  BY AuditSizes
<1>5. /\ audit' \in Walks /\ audit'.user = 0
      /\ \A i \in 0 .. audit'.index - 1 : IsUsed(<<audit'.user, i>>, ls)
  BY <1>3, <1>4, CountStarts
<1>6. \A v \in 0 .. audit'.user - 1 : TagsIn(ls, startedAt', v)
  BY <1>5
<1>7. startedAt' \in 0 .. Len(executions)
  BY <1>3, InvFacts
<1> QED BY <1>2, <1>3, <1>5, <1>6, <1>7, GoesOn

LEMMA Counting == Inv /\ CountIndex => Inv'
<1> SUFFICES ASSUME Inv, CountIndex PROVE Inv'
  OBVIOUS
<1>1. PICK ls, u, k : ls = Fresh.logs /\ u = audit.user /\ k = audit.index
  OBVIOUS
<1>2. audit.at # "idle"
  BY DEF CountIndex
<1>3. /\ audit \in Walks /\ u \in Nat /\ k \in Nat /\ ~ done /\ report = <<>>
      /\ Complete(ls) /\ Fresh = [discards |-> Len(discards), logs |-> ls]
      /\ startedAt \in 0 .. Len(executions)
      /\ \A i \in 0 .. k - 1 : IsUsed(<<u, i>>, ls)
      /\ \A v \in 0 .. u - 1 : TagsIn(ls, startedAt, v)
  BY <1>1, <1>2, Walking
<1>4. /\ cache' = [discards |-> Len(discards), logs |-> ls]
      /\ executions' = executions /\ discards' = discards /\ startedAt' = startedAt
      /\ done' = FALSE /\ report' = <<>> /\ audit' = [audit EXCEPT !.index = k + 1]
  <2>1. done \in BOOLEAN
    BY DEF Inv, AuditTypeOK
  <2> QED BY <1>1, <1>3, <2>1 DEF CountIndex, accountVars
<1>5. IsUsed(<<u, k>>, ls)
  <2>1. cache'.logs = ls
    BY <1>4
  <2>2. IsUsed(<<u, k>>, cache'.logs)
    BY <1>1 DEF CountIndex
  <2> QED BY <2>1, <2>2 DEF IsUsed, EventsOf, IsCurrent
<1>6. audit' \in Walks /\ audit'.user = u /\ audit'.index = k + 1
  BY <1>1, <1>3, <1>4 DEF Walks
<1>7. \A i \in 0 .. audit'.index - 1 : IsUsed(<<audit'.user, i>>, ls)
  <2>1. \A i \in 0 .. (k + 1) - 1 : i \in 0 .. k - 1 \/ i = k
    BY <1>3
  <2> QED BY <1>3, <1>5, <1>6, <2>1, Zenon
<1>8. \A v \in 0 .. audit'.user - 1 : TagsIn(ls, startedAt', v)
  BY <1>3, <1>4, <1>6
<1>9. startedAt' \in 0 .. Len(executions)
  BY <1>3, <1>4
<1> QED BY <1>3, <1>4, <1>6, <1>7, <1>8, <1>9, GoesOn

\* The walk ends at a user without allowance: what comes after it is hidden.
LEMMA Passing == Inv /\ PassLastUser => Inv'
<1> SUFFICES ASSUME Inv, PassLastUser PROVE Inv'
  OBVIOUS
<1>1. PICK ls, u, before : ls = Fresh.logs /\ u = audit.user /\ before = startedAt
  OBVIOUS
<1>2. audit.at # "idle"
  BY DEF PassLastUser
<1>3. /\ u \in Nat /\ Complete(ls) /\ Fresh = [discards |-> Len(discards), logs |-> ls]
      /\ before \in 0 .. Len(ls) /\ before \in 0 .. Len(executions)
      /\ discards \in Seq(Note) /\ Len(discards) <= Len(discards)
      /\ \A v \in 0 .. u - 1 : TagsIn(ls, before, v)
  BY <1>1, <1>2, Walking
<1>4. /\ cache' = [discards |-> Len(discards), logs |-> ls] /\ cache'.logs = ls
      /\ executions' = executions /\ discards' = discards /\ startedAt' = before
      /\ audit' = NotAuditing /\ done' = TRUE
  BY <1>1, <1>3 DEF PassLastUser, accountVars
<1>5. report' = Report(ls)
  <2>1. PICK m : m = cache'.logs
    OBVIOUS
  <2>2. report' = Report(m)
    <3>1. report' = Report(cache'.logs)
      BY DEF PassLastUser
    <3> QED BY <2>1, <3>1, Zenon
  <2>3. m = ls
    BY <1>4, <2>1
  <2> QED BY <2>2, <2>3
<1>6. ~ IsUsed(<<u, 0>>, ls)
  <2>1. ~ IsUsed(<<u, 0>>, cache'.logs)
    BY <1>1 DEF PassLastUser
  <2> QED BY <1>4, <2>1 DEF IsUsed, EventsOf, IsCurrent
<1>7. /\ Unused(<<u, 0>>, before)
      /\ \A p \in DOMAIN ls :
           (/\ ls[p].nullifierHash[1] = u /\ ls[p].encryptedAllowance # HashZero
            /\ ~ Hidden(ls[p].nullifierHash, before)) => FALSE
  <2>1. /\ Unused(<<u, 0>>, before)
        /\ \A p \in DOMAIN ls :
             (/\ ls[p].nullifierHash[1] = u /\ ls[p].encryptedAllowance # HashZero
              /\ ~ Hidden(ls[p].nullifierHash, before))
               => ls[p].nullifierHash[2] \in 0 .. 0 - 1
    BY <1>3, <1>6, CountEnds
  <2>2. \A i : ~ (i \in 0 .. 0 - 1)
    OBVIOUS
  <2> QED BY <2>1, <2>2, Zenon
<1>8. ASSUME NEW v \in User PROVE TagsIn(ls, before, v)
  <2>1. v \in Nat
    BY AuditSizes DEF User
  <2>2. \A p \in 1 .. before : p \in DOMAIN ls
    BY <1>3, CompleteFacts
  <2>3. CASE v \in 0 .. u - 1
    BY <1>3, <2>3
  <2>4. CASE v = u
    BY <1>7, <2>2, <2>4 DEF TagsIn
  <2>5. CASE u \in 0 .. v - 1
    <3>1. \A n : n[1] = v => Hidden(n, before)
      BY <1>7, <2>5 DEF Hidden
    <3> QED BY <3>1 DEF TagsIn
  <2>6. v \in 0 .. u - 1 \/ v = u \/ u \in 0 .. v - 1
    BY <1>3, <2>1
  <2> QED BY <2>3, <2>4, <2>5, <2>6
<1>9. AuditTypeOK' /\ ExecutionsSound' /\ CacheSound'
  <2>1. done' \in BOOLEAN /\ report' = (IF done' THEN Report(ls) ELSE <<>>)
    BY <1>4, <1>5
  <2>2. audit' \in [at : {"idle"}] \cup Walks
    BY <1>4 DEF NotAuditing
  <2>3. /\ discards' \in Seq(Note) /\ Len(discards) <= Len(discards')
        /\ startedAt' \in 0 .. Len(executions)
    BY <1>3, <1>4
  <2> QED BY <1>3, <1>4, <2>1, <2>2, <2>3, Reading
<1>10. \A n : Hidden(n, startedAt)' <=> Hidden(n, before)
  BY <1>4 DEF Hidden, Unused
<1>11. (\A v \in User : Tags(v))'
  BY <1>4, <1>8, <1>10 DEF Tags, TagsIn, IsCurrent
<1>12. startedAt' <= Len(cache'.logs)
  BY <1>3, <1>4, CompleteFacts
<1>13. Report(cache.logs)' = Report(ls)
  <2>1. cache'.logs = ls
    BY <1>4
  <2> QED BY <2>1 DEF Report, KeyOrder, FirstWrites, Suspicious, LogOfKey, EventsOf, IsCurrent
<1>14. WalkSound'
  BY <1>4, <1>5, <1>11, <1>12, <1>13 DEF WalkSound, NotAuditing
<1> QED BY <1>9, <1>14 DEF Inv

LEMMA Ending == Inv /\ EndCount => Inv'
<1> SUFFICES ASSUME Inv, EndCount PROVE Inv'
  OBVIOUS
<1>1. PICK ls, u, k : ls = Fresh.logs /\ u = audit.user /\ k = audit.index
  OBVIOUS
<1>2. audit.at # "idle"
  BY DEF EndCount
<1>3. /\ audit \in Walks /\ u \in Nat /\ k \in Nat /\ ~ done /\ report = <<>>
      /\ Complete(ls) /\ Fresh = [discards |-> Len(discards), logs |-> ls]
      /\ startedAt \in 0 .. Len(executions)
      /\ \A i \in 0 .. k - 1 : IsUsed(<<u, i>>, ls)
      /\ \A v \in 0 .. u - 1 : TagsIn(ls, startedAt, v)
  BY <1>1, <1>2, Walking
<1>4. /\ cache' = [discards |-> Len(discards), logs |-> ls]
      /\ executions' = executions /\ discards' = discards /\ startedAt' = startedAt
      /\ done' = FALSE /\ report' = <<>> /\ audit' = [audit EXCEPT !.at = "decrypt"]
  <2>1. done \in BOOLEAN
    BY DEF Inv, AuditTypeOK
  <2> QED BY <1>1, <1>3, <2>1 DEF EndCount, accountVars
<1>5. audit' \in Walks /\ audit'.user = u /\ audit'.index = k
  BY <1>1, <1>3, <1>4 DEF Walks
<1>6. \A i \in 0 .. audit'.index - 1 : IsUsed(<<audit'.user, i>>, ls)
  BY <1>3, <1>5
<1>7. \A v \in 0 .. audit'.user - 1 : TagsIn(ls, startedAt', v)
  BY <1>3, <1>4, <1>5
<1>8. startedAt' \in 0 .. Len(executions)
  BY <1>3, <1>4
<1> QED BY <1>3, <1>4, <1>5, <1>6, <1>7, <1>8, GoesOn

LEMMA Decrypting == Inv /\ ReadAllowance => Inv'
<1> SUFFICES ASSUME Inv, ReadAllowance PROVE Inv'
  OBVIOUS
<1>1. PICK ls, u : ls = Fresh.logs /\ u = audit.user
  OBVIOUS
<1>2. audit.at # "idle"
  BY DEF ReadAllowance
<1>3. /\ u \in 0 .. LastUser + 1 /\ ~ done /\ report = <<>>
      /\ Complete(ls) /\ Fresh = [discards |-> Len(discards), logs |-> ls]
      /\ startedAt \in 0 .. Len(executions)
      /\ discards \in Seq(Note) /\ Len(discards) <= Len(discards)
      /\ \A v \in 0 .. u - 1 : TagsIn(ls, startedAt, v)
  BY <1>1, <1>2, Walking
<1>4. /\ cache' = [discards |-> Len(discards), logs |-> ls]
      /\ executions' = executions /\ discards' = discards /\ startedAt' = startedAt
      /\ done' = FALSE /\ report' = <<>> /\ audit' \in {CountOf("tagLogs", u), NotAuditing}
  <2>1. done \in BOOLEAN
    BY DEF Inv, AuditTypeOK
  <2> QED BY <1>1, <1>3, <2>1 DEF ReadAllowance, accountVars
<1>5. startedAt' \in 0 .. Len(executions)
  BY <1>3, <1>4
<1>6. CASE audit' = NotAuditing
  <2>1. audit' \in [at : {"idle"}] /\ audit'.at = "idle"
    BY <1>6 DEF NotAuditing
  <2>2. discards' \in Seq(Note) /\ Len(discards) <= Len(discards')
    BY <1>3, <1>4
  <2> QED BY <1>3, <1>4, <1>5, <2>1, <2>2, GivesUp
<1>7. CASE audit' = CountOf("tagLogs", u)
  <2>1. /\ audit' \in Walks /\ audit'.user = u
        /\ \A i \in 0 .. audit'.index - 1 : IsUsed(<<audit'.user, i>>, ls)
    BY <1>3, <1>7, CountStarts
  <2>2. \A v \in 0 .. audit'.user - 1 : TagsIn(ls, startedAt', v)
    BY <1>3, <1>4, <2>1
  <2> QED BY <1>3, <1>4, <1>5, <2>1, <2>2, GoesOn
<1> QED BY <1>4, <1>6, <1>7

LEMMA Tagging == Inv /\ TagUser => Inv'
<1> SUFFICES ASSUME Inv, TagUser PROVE Inv'
  OBVIOUS
<1>1. PICK ls, u, k : ls = Fresh.logs /\ u = audit.user /\ k = audit.index
  OBVIOUS
<1>2. audit.at # "idle"
  BY DEF TagUser
<1>3. /\ u \in 0 .. LastUser + 1 /\ u \in Nat /\ k \in Nat /\ ~ done /\ report = <<>>
      /\ Complete(ls) /\ Fresh = [discards |-> Len(discards), logs |-> ls]
      /\ startedAt \in 0 .. Len(executions) /\ startedAt \in 0 .. Len(ls)
      /\ discards \in Seq(Note) /\ Len(discards) <= Len(discards)
      /\ \A p \in DOMAIN cache.logs : ls[p].valid = cache.logs[p].valid
      /\ \A i \in 0 .. k - 1 : IsUsed(<<u, i>>, ls)
      /\ \A v \in 0 .. u - 1 : TagsIn(cache.logs, startedAt, v)
  BY <1>1, <1>2, Walking
<1>4. PICK ts : ts = Tagged(ls, u, k)
  OBVIOUS
<1>5. /\ Complete(ts) /\ \A p \in DOMAIN ls : ls[p].valid # "unset" => ts[p].valid # "unset"
      /\ (~ IsUsed(<<u, k>>, ls) /\ \A p \in Walked(ls, u, k) : ~ Throws(ls[p]))
           => \A before \in 0 .. Len(ls) : TagsIn(ts, before, u)
  BY <1>3, <1>4, TaggedComplete
<1>6. /\ cache' = [discards |-> Len(discards), logs |-> ts]
      /\ executions' = executions /\ discards' = discards /\ startedAt' = startedAt
      /\ done' = FALSE /\ report' = <<>> /\ ~ IsUsed(<<u, k>>, ls)
      /\ audit' = IF \E p \in Walked(ls, u, k) : Throws(ls[p])
                  THEN NotAuditing ELSE CountOf("getAllowance", IF k = 0 THEN u ELSE u + 1)
  <2>1. done \in BOOLEAN
    BY DEF Inv, AuditTypeOK
  <2>2. /\ cache' = [Fresh EXCEPT !.logs = Tagged(@, u, k)]
        /\ UNCHANGED <<accountVars, startedAt, done, report>>
        /\ ~ IsUsed(<<u, k>>, ls)
        /\ audit' = IF \E p \in Walked(ls, u, k) : Throws(ls[p])
                    THEN NotAuditing ELSE CountOf("getAllowance", IF k = 0 THEN u ELSE u + 1)
    BY <1>1 DEF TagUser, NextUser
  <2>3. cache' = [discards |-> Len(discards), logs |-> ts]
    BY <1>3, <1>4, <2>2
  <2> QED BY <1>3, <2>1, <2>2, <2>3 DEF accountVars
<1>7. startedAt' \in 0 .. Len(executions)
  BY <1>3, <1>6
<1>8. CASE \E p \in Walked(ls, u, k) : Throws(ls[p])
  <2>1. audit' \in [at : {"idle"}] /\ audit'.at = "idle"
    BY <1>6, <1>8 DEF NotAuditing
  <2>2. discards' \in Seq(Note) /\ Len(discards) <= Len(discards')
    BY <1>3, <1>6
  <2> QED BY <1>5, <1>6, <1>7, <2>1, <2>2, GivesUp
<1>9. CASE ~ \E p \in Walked(ls, u, k) : Throws(ls[p])
  <2>1. TagsIn(ts, startedAt, u)
    BY <1>3, <1>5, <1>6, <1>9
  <2>2. \A v \in 0 .. u - 1 : TagsIn(ts, startedAt, v)
    <3>1. \A p \in DOMAIN cache.logs : cache.logs[p].valid # "unset" => ts[p].valid # "unset"
      <4>1. \A p \in DOMAIN cache.logs : p \in DOMAIN ls
        BY <1>3, InvFacts, CompleteFacts
      <4> QED BY <1>3, <1>5, <4>1
    <3>2. startedAt \in Nat /\ startedAt <= Len(cache.logs)
      BY <1>2, <1>3 DEF Inv, WalkSound
    <3> QED BY <1>3, <1>5, <3>1, <3>2, ReadsOn
  <2>3. PICK v : v = IF k = 0 THEN u ELSE u + 1
    OBVIOUS
  <2>4. v \in 0 .. LastUser + 1
    <3>1. CASE k = 0
      BY <1>3, <2>3, <3>1
    <3>2. CASE k # 0
      <4>1. 0 \in 0 .. k - 1
        BY <1>3, <3>2
      <4>2. IsUsed(<<u, 0>>, ls)
        BY <1>3, <4>1
      <4>3. PICK p \in DOMAIN ls : ls[p].nullifierHash = <<u, 0>>
        BY <4>2 DEF IsUsed, EventsOf
      <4>4. <<u, 0>> \in Key \X Nat
        BY <1>3, <4>3, CompleteFacts
      <4>5. u \in Key /\ u # Stranger
        BY <1>3, <4>4, AuditSizes
      <4>6. u \in 0 .. LastUser
        BY <4>5 DEF Key, User
      <4> QED BY <2>3, <3>2, <4>6, AuditSizes
    <3> QED BY <3>1, <3>2
  <2>5. audit' = CountOf("getAllowance", v)
    BY <1>6, <1>9, <2>3
  <2>6. /\ audit' \in Walks /\ audit'.user = v
        /\ \A i \in 0 .. audit'.index - 1 : IsUsed(<<audit'.user, i>>, ts)
    BY <2>4, <2>5, CountStarts
  <2>7. \A w \in 0 .. audit'.user - 1 : TagsIn(ts, startedAt', w)
    <3>1. \A w \in 0 .. v - 1 : w \in 0 .. u - 1 \/ w = u
      BY <1>3, <2>3
    <3> QED BY <1>6, <2>1, <2>2, <2>6, <3>1
  <2> QED BY <1>5, <1>6, <1>7, <2>6, <2>7, GoesOn
<1> QED BY <1>8, <1>9

LEMMA Failing == Inv /\ AuditFails => Inv'
<1> SUFFICES ASSUME Inv, AuditFails PROVE Inv'
  OBVIOUS
<1>1. /\ executions' = executions /\ discards' = discards /\ cache' = cache
      /\ startedAt' = startedAt /\ done' = done /\ report' = report
      /\ audit' = NotAuditing /\ audit.at # "idle"
  BY DEF AuditFails, accountVars
<1>2. ~ done /\ report = <<>>
  BY <1>1 DEF Inv, WalkSound
<1>3. audit' \in [at : {"idle"}] /\ audit'.at = "idle"
  BY <1>1 DEF NotAuditing
<1>4. AuditTypeOK' /\ ExecutionsSound' /\ CacheSound'
  <2>1. Inserted' = Inserted
    BY <1>1 DEF Inserted
  <2>2. (\A p \in DOMAIN cache.logs : Truthful(cache.logs[p]))'
        <=> \A p \in DOMAIN cache.logs : Truthful(cache.logs[p])
    BY <1>1 DEF Truthful, Decrypts
  <2>3. (ToSet(report) \subseteq ToSet(Inserted))' <=> ToSet(report) \subseteq ToSet(Inserted)
    BY <1>1, <2>1 DEF ToSet
  <2>4. AuditTypeOK'
    BY <1>1, <1>3, <2>2, <2>3 DEF Inv, AuditTypeOK
  <2> QED BY <1>1, <2>4 DEF Inv, ExecutionsSound, CacheSound
<1>5. WalkSound'
  BY <1>1, <1>2, <1>3 DEF WalkSound
<1> QED BY <1>4, <1>5 DEF Inv

LEMMA Discarding == Inv /\ DiscardReported => Inv'
<1> SUFFICES ASSUME Inv, DiscardReported PROVE Inv'
  OBVIOUS
<1>1. PICK ls : ls = Fresh.logs
  OBVIOUS
<1>2. Complete(ls) /\ cache' = [discards |-> Len(discards), logs |-> ls]
  BY <1>1, FreshComplete DEF DiscardReported
<1>3. /\ executions' = executions /\ discards' = discards \o report
      /\ audit' = audit /\ startedAt' = startedAt /\ done' = FALSE /\ report' = <<>>
      /\ audit.at = "idle"
  BY DEF DiscardReported
<1>4. discards' \in Seq(Note) /\ Len(discards) <= Len(discards')
  <2>1. discards \in Seq(Note) /\ report \in Seq(Note)
    BY DEF Inv, AuditTypeOK
  <2>2. Len(discards') = Len(discards) + Len(report)
        /\ Len(discards) \in Nat /\ Len(report) \in Nat
    BY <1>3, <2>1
  <2> QED BY <1>3, <2>1, <2>2
<1>5. startedAt \in 0 .. Len(executions) /\ audit \in [at : {"idle"}] \cup Walks
  BY DEF Inv, AuditTypeOK, Walks
<1>6. AuditTypeOK' /\ ExecutionsSound' /\ CacheSound'
  BY <1>2, <1>3, <1>4, <1>5, Reading
<1>7. WalkSound'
  BY <1>3 DEF WalkSound
<1> QED BY <1>6, <1>7 DEF Inv

LEMMA NextSound == Inv /\ [AuditNext]_auditVars => Inv'
<1> SUFFICES ASSUME Inv, [AuditNext]_auditVars PROVE Inv'
  OBVIOUS
<1>1. CASE AccountStep
  <2>1. ASSUME NEW u \in User, NEW i \in 0 .. MaxEvents, NEW amount \in 1 .. MaxAmount,
               Grant(u, i, amount)
        PROVE  Inv'
    BY <2>1, Granting
  <2>2. ASSUME NEW n \in ToSet(Inserted), NEW key \in Key, NEW left \in 0 .. MaxAmount,
               NEW allowance \in Ciphertext, Spend(n, key, left, allowance)
        PROVE  Inv'
    BY <2>2, Spending
  <2> QED BY <1>1, <2>1, <2>2 DEF AccountStep
<1>2. CASE StartAudit
  BY <1>2, Starting
<1>3. CASE AuditStep
  BY <1>3, Counting, Passing, Ending, Decrypting, Tagging, Failing DEF AuditStep
<1>4. CASE DiscardReported
  BY <1>4, Discarding
<1>5. CASE UNCHANGED auditVars
  <2>1. UNCHANGED <<executions, discards, cache, audit, startedAt, done, report>>
    BY <1>5 DEF auditVars, accountVars, adminVars
  <2>2. AuditTypeOK'
    <3>1. Inserted' = Inserted
      BY <2>1 DEF Inserted
    <3>2. (\A p \in DOMAIN cache.logs : Truthful(cache.logs[p]))'
          <=> \A p \in DOMAIN cache.logs : Truthful(cache.logs[p])
      BY <2>1 DEF Truthful, Decrypts
    <3>3. (ToSet(report) \subseteq ToSet(Inserted))' <=> ToSet(report) \subseteq ToSet(Inserted)
      BY <2>1, <3>1 DEF ToSet
    <3> QED BY <2>1, <3>2, <3>3 DEF Inv, AuditTypeOK
  <2>3. ExecutionsSound' /\ CacheSound'
    BY <2>1 DEF Inv, ExecutionsSound, CacheSound
  <2>4. Report(cache.logs)' = Report(cache.logs)
    BY <2>1 DEF Report, KeyOrder, FirstWrites, Suspicious, LogOfKey, EventsOf, IsCurrent
  <2>5. WalkSound'
    <3>1. \A n : Hidden(n, startedAt)' <=> Hidden(n, startedAt)
      BY <2>1 DEF Hidden, Unused
    <3>2. \A u : Tags(u)' <=> Tags(u)
      BY <2>1, <3>1 DEF Tags, IsCurrent
    <3>3. Counted' <=> Counted
      BY <2>1 DEF Counted, IsUsed, EventsOf, IsCurrent
    <3> QED BY <2>1, <2>4, <3>2, <3>3 DEF Inv, WalkSound
  <2> QED BY <2>2, <2>3, <2>5 DEF Inv
<1> QED BY <1>1, <1>2, <1>3, <1>4, <1>5 DEF AuditNext

LEMMA AlwaysSound == AuditSpec => []Inv
BY InitSound, NextSound, PTL DEF AuditSpec

-----------------------------------------------------------------------------
(* What the admin may rely on                                              *)

\* TypeOK: the types, and true tags, however many audits a log has gone through
\* and however many of them failed half way.
THEOREM TypeCorrect == AuditSpec => []AuditTypeOK
<1>1. Inv => AuditTypeOK
  BY DEF Inv
<1> QED BY <1>1, AlwaysSound, PTL

LEMMA AfterAudit ==
  ASSUME Inv, done
  PROVE  /\ report = Report(cache.logs) /\ startedAt <= Len(cache.logs) /\ startedAt \in Nat
         /\ \A u \in User : Tags(u)
<1>1. /\ report = Report(cache.logs) /\ startedAt <= Len(cache.logs)
      /\ \A u \in User : Tags(u)
  BY DEF Inv, WalkSound
<1>2. startedAt \in Nat
  BY InvFacts DEF Inv, AuditTypeOK
<1> QED BY <1>1, <1>2

\* A log that was found valid is regular.
LEMMA ValidIsRegular ==
  ASSUME NEW log, NEW e, LogOf(log, e), log.valid = "yes"
  PROVE  Regular(log) /\ log.commitmentHash = Recomputed(log)
<1>1. log.valid # "unset" /\ (log.valid = "yes") = TRUE
  OBVIOUS
<1>2. log.userIndex /\ Decrypts(log) /\ log.commitmentHash = Recomputed(log)
  BY <1>1 DEF LogOf, Truthful, Recomputed
<1>3. log.nullifierHash[1] \in User
  BY <1>2 DEF LogOf
<1> QED BY <1>2, <1>3 DEF Regular

LEMMA AnomaliesFound == Inv => AnomaliesReported
<1> SUFFICES ASSUME Inv, done, NEW p \in DOMAIN cache.logs, IsCurrent(p, cache.logs),
                    ~ Regular(cache.logs[p]), ~ cache.logs[p].discarded
             PROVE  cache.logs[p].commitmentHash \in ToSet(report)
  BY DEF AnomaliesReported
<1>1. cache.logs[p].valid # "yes"
  BY InvFacts, ValidIsRegular
<1>2. Suspicious(cache.logs[p])
  BY <1>1 DEF Suspicious
<1> QED BY <1>2, InvFacts, AfterAudit, ReportsAll

\* AnomaliesReported: an audit that returns reports every irregular commitment
\* that is the last one under its nullifier.
THEOREM NothingIrregularPasses == AuditSpec => []AnomaliesReported
BY AlwaysSound, AnomaliesFound, PTL

LEMMA AlarmsExplained == Inv => FalseAlarmsExplained
<1> SUFFICES ASSUME Inv, done, NEW p \in DOMAIN cache.logs, IsCurrent(p, cache.logs),
                    Regular(cache.logs[p]), cache.logs[p].commitmentHash \in ToSet(report)
             PROVE  p > startedAt \/ Hidden(cache.logs[p].nullifierHash, startedAt)
  BY DEF FalseAlarmsExplained
<1>1. PICK log, ls : log = cache.logs[p] /\ ls = cache.logs
  OBVIOUS
<1>2. ls \in Seq(Log) /\ report = Report(ls) /\ log = ls[p] /\ p \in DOMAIN ls
  BY <1>1, InvFacts, AfterAudit
<1>3. PICK q \in DOMAIN ls : /\ IsCurrent(q, ls) /\ Suspicious(ls[q])
                             /\ ls[q].commitmentHash = log.commitmentHash
  BY <1>1, <1>2, ReportsOnly
<1>4. /\ log.nullifierHash[1] \in User /\ log.nullifierHash \in Key \X Nat
      /\ log.commitmentHash.user = log.nullifierHash[1]
      /\ log.commitmentHash.index = log.nullifierHash[2] + 1
  <2>1. log \in Log
    BY <1>2
  <2> QED BY <1>1, <2>1 DEF Regular, Recomputed, Log
<1>5. PICK e : e = executions[q]
  OBVIOUS
<1>6. /\ q \in DOMAIN executions /\ e.nullifierHash = ls[q].nullifierHash
      /\ e.commitmentHash = log.commitmentHash /\ e \in Event
  <2>1. q \in DOMAIN executions /\ LogOf(ls[q], e) /\ e \in Event
    BY <1>1, <1>5, InvFacts
  <2> QED BY <1>3, <2>1 DEF LogOf
<1>7. /\ e.commitmentHash.user \in {e.nullifierHash[1], Stranger}
      /\ e.commitmentHash.index = e.nullifierHash[2] + 1
  BY <1>5, <1>6 DEF Inv, ExecutionsSound
<1>8. e.nullifierHash = log.nullifierHash
  <2>1. e.nullifierHash \in Key \X Nat
    BY <1>6 DEF Event
  <2>2. log.nullifierHash[1] # Stranger
    BY <1>4, AuditSizes DEF User
  <2>3. e.nullifierHash[1] = log.nullifierHash[1]
    BY <1>4, <1>6, <1>7, <2>2
  <2>4. e.nullifierHash[2] = log.nullifierHash[2]
    <3>1. e.nullifierHash[2] \in Nat /\ log.nullifierHash[2] \in Nat
      BY <1>4, <2>1
    <3>2. e.nullifierHash[2] + 1 = log.nullifierHash[2] + 1
      BY <1>4, <1>6, <1>7
    <3> QED BY <3>1, <3>2
  <2> QED BY <1>4, <2>1, <2>3, <2>4
<1>9. q = p
  BY <1>1, <1>2, <1>3, <1>6, <1>8, CurrentUnique
<1>10. log.valid = "unset" /\ log.encryptedAllowance # HashZero
  <2>1. /\ log \in Log /\ Suspicious(log) /\ Truthful(log) /\ Decrypts(log)
        /\ log.commitmentHash = Recomputed(log)
    BY <1>1, <1>2, <1>3, <1>9, InvFacts DEF LogOf, Regular
  <2>2. log.valid # "no"
    BY <2>1 DEF Truthful, Recomputed
  <2>3. log.encryptedAllowance # HashZero
    BY <2>1 DEF Decrypts
  <2> QED BY <2>1, <2>2, <2>3 DEF Log, Suspicious
<1>11. ASSUME ~ Hidden(log.nullifierHash, startedAt) PROVE p > startedAt
  <2>1. Tags(log.nullifierHash[1])
    BY <1>4, AfterAudit
  <2>2. p \notin 1 .. startedAt
    BY <1>1, <1>10, <1>11, <2>1 DEF Tags
  <2>3. p \in Nat /\ p >= 1 /\ startedAt \in Nat
    BY InvFacts, AfterAudit
  <2> QED BY <2>2, <2>3
<1> QED BY <1>1, <1>11

\* FalseAlarmsExplained: a regular commitment is reported for three reasons only.
THEOREM FalseAlarmsHaveReasons == AuditSpec => []FalseAlarmsExplained
BY AlwaysSound, AlarmsExplained, PTL

LEMMA OldestFirst == Inv => ReportOldestFirst
<1> SUFFICES ASSUME Inv, \A p \in DOMAIN executions : IsCurrent(p, executions),
                    NEW j \in DOMAIN report, NEW k \in DOMAIN report, j < k
             PROVE  \E p, q \in DOMAIN executions :
                      p < q /\ Inserted[p] = report[j] /\ Inserted[q] = report[k]
  BY DEF ReportOldestFirst
<1>1. PICK ls : ls = cache.logs
  OBVIOUS
<1>2. /\ ls \in Seq(Log) /\ \A p \in DOMAIN ls : p \in DOMAIN executions
      /\ \A p \in DOMAIN ls : LogOf(ls[p], executions[p])
  BY <1>1, InvFacts
<1>3. report = Report(ls)
  <2>1. CASE done
    BY <1>1, <2>1, AfterAudit
  <2>2. CASE ~ done
    BY <2>2 DEF Inv, WalkSound
  <2> QED BY <2>1, <2>2
<1>4. \A p \in DOMAIN ls : IsCurrent(p, ls)
  BY <1>2 DEF IsCurrent, LogOf
<1>5. PICK p \in DOMAIN ls, q \in DOMAIN ls : /\ p < q
                                              /\ ls[p].commitmentHash = report[j]
                                              /\ ls[q].commitmentHash = report[k]
  BY <1>2, <1>3, <1>4, ReportsInOrder
<1> QED BY <1>2, <1>5 DEF LogOf, Inserted

\* ReportOldestFirst: what is reported can be discarded in the order reported.
THEOREM ReportsComeInOrder == AuditSpec => []ReportOldestFirst
BY AlwaysSound, OldestFirst, PTL

LEMMA AllowancesShown == Inv => AllowanceHonest
<1> SUFFICES ASSUME Inv, done, NEW page \in 0 .. MaxEvents,
                    NEW shown \in ToSet(UsersPage(cache.logs, page, 2)), shown.exists
             PROVE  \E p \in DOMAIN cache.logs : LET log == cache.logs[p]
                      IN /\ log.nullifierHash = <<shown.index, LastIndex(shown.index, cache.logs) - 1>>
                         /\ IsCurrent(p, cache.logs)
                         /\ \/ log.discarded \/ log.commitmentHash \in ToSet(report)
                            \/ log.commitmentHash = [user |-> shown.index, amount |-> shown.allowance,
                                                     index |-> LastIndex(shown.index, cache.logs)]
  BY DEF AllowanceHonest
<1>1. PICK ls : ls = cache.logs
  OBVIOUS
<1>2. ls \in Seq(Log) /\ report = Report(ls)
  BY <1>1, InvFacts, AfterAudit
<1>3. PICK u, l : u = shown.index /\ l = LastIndex(u, ls)
  OBVIOUS
<1>4. PICK A : A = Allowance(u, ls)
  OBVIOUS
<1>5. shown.exists = (A # {}) /\ shown.allowance = CHOOSE a \in A \cup {0} : A \in {{}, {a}}
  <2>1. PICK k \in 1 .. 2 : shown = UsersPage(ls, page, 2)[k]
    BY <1>1 DEF ToSet, UsersPage
  <2>2. PICK v : v = page * 2 + k - 1
    OBVIOUS
  <2>3. shown = [index |-> v, exists |-> Allowance(v, ls) # {},
                 allowance |-> CHOOSE a \in Allowance(v, ls) \cup {0} : Allowance(v, ls) \in {{}, {a}}]
    BY <2>1, <2>2 DEF UsersPage
  <2>4. v = u
    BY <1>3, <2>3
  <2> QED BY <1>4, <2>3, <2>4
<1>6. PICK p \in DOMAIN ls : IsCurrent(p, ls) /\ ls[p].nullifierHash = <<u, l - 1>>
  BY <1>3, <1>4, <1>5 DEF Allowance
<1>7. PICK log : log = ls[p]
  OBVIOUS
<1>8. A = {log.encryptedAllowance}
  <2>1. \A q \in DOMAIN ls : IsCurrent(q, ls) /\ ls[q].nullifierHash = <<u, l - 1>> => q = p
    BY <1>2, <1>6, CurrentUnique
  <2> QED BY <1>3, <1>4, <1>6, <1>7, <2>1 DEF Allowance
<1>9. shown.allowance = log.encryptedAllowance
  BY <1>5, <1>8
<1>10. l \in Nat
  <2>1. l \in 0 .. Len(ls)
    BY <1>2, <1>3, LastIndexDef
  <2> QED BY <2>1
<1>11. CASE Suspicious(log)
  <2>1. log.commitmentHash \in ToSet(report)
    BY <1>2, <1>6, <1>7, <1>11, ReportsAll
  <2> QED BY <1>1, <1>3, <1>6, <1>7, <2>1
<1>12. CASE ~ Suspicious(log)
  <2>1. log.valid = "yes" \/ log.discarded
    BY <1>12 DEF Suspicious
  <2>2. CASE log.valid = "yes"
    <3>1. log.commitmentHash = Recomputed(log)
      BY <1>1, <1>7, <2>2, InvFacts, ValidIsRegular
    <3>2. log.nullifierHash = <<u, l - 1>> /\ (l - 1) + 1 = l
      BY <1>6, <1>7, <1>10
    <3>3. log.commitmentHash = [user |-> u, amount |-> shown.allowance, index |-> l]
      BY <1>9, <3>1, <3>2 DEF Recomputed
    <3> QED BY <1>1, <1>3, <1>6, <1>7, <3>3
  <2> QED BY <1>1, <1>3, <1>6, <1>7, <2>1, <2>2
<1> QED BY <1>11, <1>12

\* AllowanceHonest: an allowance is shown that the last note does not hold only
\* next to a note that was reported or that the admin has discarded itself.
THEOREM AllowancesAreHonest == AuditSpec => []AllowanceHonest
BY AlwaysSound, AllowancesShown, PTL

-----------------------------------------------------------------------------
(* The listings                                                            *)

\* A set is as large as another if a function takes each element once.
LEMMA SameCount ==
  ASSUME NEW S, IsFiniteSet(S), NEW T, NEW f \in [S -> T],
         \A a, b \in S : f[a] = f[b] => a = b,
         \A t \in T : \E a \in S : f[a] = t
  PROVE  IsFiniteSet(T) /\ Cardinality(T) = Cardinality(S)
<1>1. f \in Bijection(S, T)
  BY DEF Bijection, Injection, Surjection, IsInjective
<1> QED BY <1>1, FS_Bijection DEF ExistsBijection

\* Every place in a listing is on a page, and on one only, whatever the limit.
LEMMA PageExists ==
  ASSUME NEW limit \in Nat \ {0}, NEW m \in Nat \ {0}
  PROVE  \E page \in 0 .. m - 1, k \in 1 .. limit : m = page * limit + k
<1> DEFINE T == {y \in 0 .. m - 1 : y * limit < m}
<1>1. 0 \in T
  OBVIOUS
<1>2. PICK x \in T : \A y \in T : y <= x
  <2>1. T \in SUBSET (0 .. m - 1) /\ T # {} /\ m - 1 \in Nat
    <3>1. T # {}
      BY <1>1
    <3>2. T \in SUBSET (0 .. m - 1)
      OBVIOUS
    <3>3. m - 1 \in Nat
      OBVIOUS
    <3> QED BY <3>1, <3>2, <3>3
  <2> HIDE DEF T
  <2> QED BY <2>1, Greatest
<1>3. x \in 0 .. m - 1 /\ x * limit < m /\ x * limit \in Nat
  OBVIOUS
<1>4. PICK k : k = m - x * limit
  OBVIOUS
<1>5. k \in Nat /\ 1 <= k /\ m = x * limit + k
  BY <1>3, <1>4
<1>6. k <= limit
  <2> SUFFICES ASSUME limit < k PROVE FALSE
    BY <1>5
  <2>1. (x + 1) * limit = x * limit + limit
    BY <1>3
  <2>2. (x + 1) * limit < m
    BY <1>3, <1>4, <2>1
  <2>3. x + 1 <= (x + 1) * limit
    BY <1>3
  <2>4. x + 1 \in T
    BY <1>3, <2>2, <2>3
  <2> QED BY <1>2, <1>3, <2>4
<1> QED BY <1>3, <1>5, <1>6

LEMMA PageUnique ==
  ASSUME NEW limit \in Nat \ {0}, NEW a \in Nat, NEW b \in Nat,
         NEW j \in 1 .. limit, NEW k \in 1 .. limit, a * limit + j = b * limit + k
  PROVE  a = b /\ j = k
<1>1. ASSUME NEW y \in Nat, NEW z \in Nat, y < z PROVE y * limit + limit <= z * limit
  <2>1. PICK d \in Nat : z = y + 1 + d
    <3>1. z - y - 1 \in Nat /\ z = y + 1 + (z - y - 1)
      BY <1>1
    <3> QED BY <3>1
  <2>2. z * limit = y * limit + limit + d * limit
    BY <2>1
  <2>3. d * limit \in Nat /\ y * limit \in Nat
    OBVIOUS
  <2> QED BY <2>2, <2>3
<1>2. a * limit \in Nat /\ b * limit \in Nat
  OBVIOUS
<1>3. ~ (a < b)
  BY <1>1, <1>2
<1>4. ~ (b < a)
  BY <1>1, <1>2
<1>5. a = b
  BY <1>3, <1>4
<1> QED BY <1>2, <1>5

\* The pages are those of the list s of length c.
Cuts(pages, s, c, limit) ==
  /\ DOMAIN pages = 0 .. MaxEvents
  /\ \A page \in 0 .. MaxEvents :
       /\ DOMAIN pages[page] = {k \in 1 .. limit : page * limit + k <= c}
       /\ \A k \in DOMAIN pages[page] : pages[page][k] = s[page * limit + k]

Places(x, s, c) == {m \in 1 .. c : s[m] = x}

\* Cutting a listing into pages neither loses nor repeats anything.
LEMMA PagesCount ==
  ASSUME NEW limit \in Nat \ {0}, NEW c \in Nat, c <= MaxEvents, NEW s, NEW pages, NEW x,
         Cuts(pages, s, c, limit)
  PROVE  TimesListed(x, pages) = Cardinality(Places(x, s, c))
<1> DEFINE S == {m \in 1 .. c : s[m] = x}
           T == UNION {{page} \X {k \in DOMAIN pages[page] : pages[page][k] = x}
                         : page \in DOMAIN pages}
           At(m, p) == p \in T /\ p[1] * limit + p[2] = m
           f == [m \in S |-> CHOOSE p \in T : p[1] * limit + p[2] = m]
<1>0. /\ MaxEvents \in Nat /\ DOMAIN pages = 0 .. MaxEvents
      /\ \A page \in 0 .. MaxEvents :
           /\ DOMAIN pages[page] = {k \in 1 .. limit : page * limit + k <= c}
           /\ \A k \in DOMAIN pages[page] : pages[page][k] = s[page * limit + k]
  BY AuditSizes DEF Cuts
<1>1. IsFiniteSet(S)
  <2>1. IsFiniteSet(1 .. c)
    BY FS_Interval
  <2> QED BY <2>1, FS_Subset
<1>2. ASSUME NEW p \in T
      PROVE  /\ p = <<p[1], p[2]>> /\ p[1] \in 0 .. MaxEvents /\ p[2] \in 1 .. limit
             /\ p[1] * limit + p[2] \in S
  <2>1. PICK page \in 0 .. MaxEvents :
          p \in {page} \X {k \in DOMAIN pages[page] : pages[page][k] = x}
    BY <1>0
  <2>2. PICK k \in DOMAIN pages[page] : p = <<page, k>> /\ pages[page][k] = x
    BY <2>1
  <2>3. k \in 1 .. limit /\ page * limit + k <= c /\ s[page * limit + k] = x
    BY <1>0, <2>2
  <2>4. page * limit \in Nat
    BY <1>0
  <2>5. page * limit + k \in 1 .. c
    BY <2>3, <2>4
  <2> QED BY <2>2, <2>3, <2>5
<1>3. ASSUME NEW m \in S PROVE \E p \in T : p[1] * limit + p[2] = m
  <2>1. m \in 1 .. c /\ s[m] = x
    OBVIOUS
  <2>2. PICK page \in 0 .. m - 1, k \in 1 .. limit : m = page * limit + k
    <3>1. m \in Nat \ {0}
      BY <2>1
    <3> HIDE DEF S, T
    <3> QED BY <3>1, PageExists
  <2>3. page \in 0 .. MaxEvents
    BY <1>0, <2>1
  <2>4. k \in DOMAIN pages[page] /\ pages[page][k] = x
    BY <1>0, <2>1, <2>2, <2>3
  <2>5. <<page, k>> \in T
    BY <1>0, <2>3, <2>4
  <2> HIDE DEF T
  <2> QED BY <2>2, <2>5
<1> HIDE DEF S, T
<1>4. \A m \in S : f[m] \in T /\ f[m][1] * limit + f[m][2] = m
  BY <1>3
<1>5. f \in [S -> T]
  BY <1>4
<1> HIDE DEF f
<1>6. \A a, b \in S : f[a] = f[b] => a = b
  <2> TAKE a, b \in S
  <2>1. f[a][1] * limit + f[a][2] = a /\ f[b][1] * limit + f[b][2] = b
    BY <1>4
  <2> QED BY <2>1
<1>7. \A p \in T : \E m \in S : f[m] = p
  <2> TAKE p \in T
  <2>1. PICK m : m = p[1] * limit + p[2]
    OBVIOUS
  <2>2. m \in S
    BY <1>2, <2>1
  <2>3. PICK q : q = f[m]
    OBVIOUS
  <2>4. q \in T /\ q[1] * limit + q[2] = m
    BY <1>4, <2>2, <2>3
  <2>5. /\ p = <<p[1], p[2]>> /\ p[1] \in Nat /\ p[2] \in 1 .. limit
        /\ q = <<q[1], q[2]>> /\ q[1] \in Nat /\ q[2] \in 1 .. limit
    <3>1. /\ p = <<p[1], p[2]>> /\ p[1] \in 0 .. MaxEvents /\ p[2] \in 1 .. limit
          /\ q = <<q[1], q[2]>> /\ q[1] \in 0 .. MaxEvents /\ q[2] \in 1 .. limit
      BY <1>2, <2>4
    <3> QED BY <1>0, <3>1
  <2>6. p[1] = q[1] /\ p[2] = q[2]
    BY <2>1, <2>4, <2>5, PageUnique
  <2>7. p = q
    BY <2>5, <2>6
  <2> QED BY <2>2, <2>3, <2>7
<1>8. Cardinality(T) = Cardinality(S)
  BY <1>1, <1>5, <1>6, <1>7, SameCount
<1> QED BY <1>8 DEF TimesListed, Places, S, T

\* The newest first: each element once as well.
LEMMA KeysNewestFirst ==
  ASSUME NEW P \in SUBSET Nat, IsFiniteSet(P)
  PROVE  /\ DOMAIN NewestFirst(P) = 1 .. Cardinality(P) /\ Cardinality(P) \in Nat
         /\ \A k \in DOMAIN NewestFirst(P) : NewestFirst(P)[k] \in P
         /\ \A j, k \in DOMAIN NewestFirst(P) : NewestFirst(P)[j] = NewestFirst(P)[k] => j = k
         /\ \A p \in P : \E k \in DOMAIN NewestFirst(P) : NewestFirst(P)[k] = p
<1> DEFINE Above(p) == Cardinality({q \in P : q > p})
<1>1. PICK c, o : c = Cardinality(P) /\ o = NewestFirst(P)
  OBVIOUS
<1>2. c \in Nat
  BY <1>1, FS_CardinalityType
<1>3. DOMAIN o = 1 .. c
  BY <1>1 DEF NewestFirst
<1>4. ASSUME NEW p \in P PROVE Rank(p, P) \in 0 .. c - 1 /\ Above(p) = c - 1 - Rank(p, P)
  <2> DEFINE A == {q \in P : q > p}
             B == {q \in P : q < p}
  <2>1. IsFiniteSet(A) /\ IsFiniteSet(B)
    BY FS_Subset
  <2>2. A \cup B = P \ {p} /\ A \cap B = {}
    <3>1. p \in Nat /\ \A q \in P : q \in Nat
      OBVIOUS
    <3>2. \A q \in P : (q > p \/ q < p \/ q = p) /\ ~ (q > p /\ q < p)
                      /\ (q > p \/ q < p => q # p)
      BY <3>1
    <3> QED BY <3>2
  <2>3. Rank(p, P) = Cardinality(B) /\ Above(p) = Cardinality(A)
    BY DEF Rank
  <2> HIDE DEF A, B, Above
  <2>4. Cardinality(P \ {p}) = c - 1
    BY <1>1, FS_RemoveElement
  <2>5. Cardinality(A \cup B) = Cardinality(A) + Cardinality(B) - Cardinality(A \cap B)
    BY <2>1, FS_Union
  <2>6. Cardinality({}) = 0
    BY FS_EmptySet
  <2>7. Cardinality(A) \in Nat /\ Cardinality(B) \in Nat
    BY <2>1, FS_CardinalityType
  <2>8. Cardinality(A) + Cardinality(B) = c - 1
    <3>1. Cardinality(A \cup B) = c - 1 /\ Cardinality(A \cap B) = 0
      BY <2>2, <2>4, <2>6
    <3> QED BY <1>2, <2>5, <2>7, <3>1
  <2> QED BY <1>2, <2>3, <2>7, <2>8
<1>5. \A k \in 1 .. c : o[k] = CHOOSE p \in P : Above(p) = k - 1
  BY <1>1 DEF NewestFirst
<1> HIDE DEF Above
<1>6. \A k \in 1 .. c : o[k] \in P /\ Above(o[k]) = k - 1
  <2> TAKE k \in 1 .. c
  <2>1. c - k \in 0 .. c - 1
    BY <1>2
  <2>2. PICK p \in P : Rank(p, P) = c - k
    BY <1>1, <2>1, RankTaken
  <2>3. Above(p) = k - 1
    BY <1>2, <1>4, <2>2
  <2> QED BY <1>5, <2>3
<1>7. \A j, k \in 1 .. c : o[j] = o[k] => j = k
  <2> TAKE j, k \in 1 .. c
  <2>1. Above(o[j]) = j - 1 /\ Above(o[k]) = k - 1
    BY <1>6
  <2> QED BY <2>1
<1>8. ASSUME NEW p \in P PROVE \E k \in 1 .. c : o[k] = p
  <2>1. PICK k : k = Above(p) + 1
    OBVIOUS
  <2>2. k \in 1 .. c /\ Above(p) = k - 1
    BY <1>2, <1>4, <2>1
  <2>3. o[k] \in P /\ Above(o[k]) = Above(p)
    BY <1>6, <2>2
  <2>4. Rank(o[k], P) = Rank(p, P)
    <3>1. /\ Rank(p, P) \in 0 .. c - 1 /\ Above(p) = c - 1 - Rank(p, P)
          /\ Rank(o[k], P) \in 0 .. c - 1 /\ Above(o[k]) = c - 1 - Rank(o[k], P)
      BY <1>4, <2>3
    <3> QED BY <1>2, <2>3, <3>1
  <2>5. ~ (o[k] < p) /\ ~ (p < o[k])
    <3>1. Rank(p, P) \in Int
      BY <1>4
    <3>2. /\ o[k] < p => Rank(o[k], P) < Rank(p, P)
          /\ p < o[k] => Rank(p, P) < Rank(o[k], P)
      BY <2>3, RankGrows
    <3> QED BY <2>4, <3>1, <3>2
  <2>6. o[k] \in Nat /\ p \in Nat
    BY <2>3
  <2> QED BY <2>2, <2>5, <2>6
<1> QED BY <1>1, <1>2, <1>3, <1>6, <1>7, <1>8

\* A tagged log is listed as often as the admin has read it.
LEMMA AdminLists ==
  ASSUME NEW ls \in Seq(Log), Len(ls) <= MaxEvents, NEW limit \in Nat \ {0}, NEW x, x.userIndex
  PROVE  TimesListed(x, [page \in 0 .. MaxEvents |-> AdminPage(ls, FALSE, page, limit)]) = TimesIn(x, ls)
<1> DEFINE P == {p \in DOMAIN ls : ls[p].userIndex}
<1>1. Len(ls) \in Nat /\ DOMAIN ls = 1 .. Len(ls)
  OBVIOUS
<1>2. IsFiniteSet(1 .. Len(ls)) /\ Cardinality(1 .. Len(ls)) = Len(ls)
  <2>1. IsFiniteSet(1 .. Len(ls))
        /\ Cardinality(1 .. Len(ls)) = IF 1 > Len(ls) THEN 0 ELSE Len(ls) - 1 + 1
    BY <1>1, FS_Interval
  <2> QED BY <1>1, <2>1
<1>3. P \in SUBSET (1 .. Len(ls)) /\ P \in SUBSET Nat
  BY <1>1
<1>4. \A p \in P : ls[p].userIndex /\ p \in DOMAIN ls
  OBVIOUS
<1>5. \A p \in DOMAIN ls : ls[p] = x => p \in P
  OBVIOUS
<1>6. \A page : AdminPage(ls, FALSE, page, limit) =
        [k \in 1 .. (IF PageEnd(FALSE, page, limit) < Cardinality(P) THEN PageEnd(FALSE, page, limit)
                     ELSE Cardinality(P)) - page * limit
           |-> ls[NewestFirst(P)[page * limit + k]]]
  BY DEF AdminPage
<1> HIDE DEF P
<1>7. IsFiniteSet(P) /\ Cardinality(P) <= Len(ls)
  BY <1>2, <1>3, FS_Subset
<1>8. PICK c, o : c = Cardinality(P) /\ o = NewestFirst(P)
  OBVIOUS
<1>9. /\ DOMAIN o = 1 .. c /\ c \in Nat /\ \A k \in 1 .. c : o[k] \in P
      /\ \A j, k \in 1 .. c : o[j] = o[k] => j = k
      /\ \A p \in P : \E k \in 1 .. c : o[k] = p
  BY <1>3, <1>7, <1>8, KeysNewestFirst
<1>10. c <= MaxEvents
  BY <1>1, <1>7, <1>8, <1>9, AuditSizes
<1> DEFINE s == [m \in 1 .. c |-> ls[o[m]]]
           pages == [page \in 0 .. MaxEvents |-> AdminPage(ls, FALSE, page, limit)]
<1>11. ASSUME NEW page \in 0 .. MaxEvents
       PROVE  /\ DOMAIN pages[page] = {k \in 1 .. limit : page * limit + k <= c}
              /\ \A k \in DOMAIN pages[page] : pages[page][k] = s[page * limit + k]
  <2>1. PICK b : b = page * limit
    OBVIOUS
  <2>2. b \in Nat /\ limit \in Nat
    BY <2>1, AuditSizes
  <2>3. PageEnd(FALSE, page, limit) = b + limit
    <3>1. page \in Nat /\ limit \in Nat
      BY AuditSizes
    <3>2. (page + 1) * limit = page * limit + limit
      BY <3>1
    <3> QED BY <2>1, <3>2 DEF PageEnd
  <2>31. (IF PageEnd(FALSE, page, limit) < Cardinality(P) THEN PageEnd(FALSE, page, limit)
          ELSE Cardinality(P)) - page * limit = (IF b + limit < c THEN b + limit ELSE c) - b
    BY <1>8, <2>1, <2>3
  <2>32. AdminPage(ls, FALSE, page, limit) =
           [k \in 1 .. (IF b + limit < c THEN b + limit ELSE c) - b
              |-> ls[NewestFirst(P)[page * limit + k]]]
    BY <1>6, <2>31
  <2>4. pages[page] = [k \in 1 .. (IF b + limit < c THEN b + limit ELSE c) - b |-> ls[o[b + k]]]
    BY <1>8, <2>1, <2>32
  <2>5. 1 .. (IF b + limit < c THEN b + limit ELSE c) - b = {k \in 1 .. limit : b + k <= c}
    BY <1>9, <2>2
  <2>6. \A k \in {i \in 1 .. limit : b + i <= c} : b + k \in 1 .. c
    BY <1>9, <2>2
  <2> QED BY <2>1, <2>4, <2>5, <2>6
<1>12. DOMAIN pages = 0 .. MaxEvents
  OBVIOUS
<1> DEFINE S == {m \in 1 .. c : s[m] = x}
           T == {p \in DOMAIN ls : ls[p] = x}
           f == [m \in S |-> o[m]]
<1>13. TimesListed(x, pages) = Cardinality(S)
  <2> HIDE DEF s, pages
  <2>1. Cuts(pages, s, c, limit)
    BY <1>11, <1>12 DEF Cuts
  <2>2. TimesListed(x, pages) = Cardinality(Places(x, s, c))
    BY <1>9, <1>10, <2>1, PagesCount
  <2> QED BY <2>2 DEF Places
<1>14. \A m \in S : m \in 1 .. c /\ ls[o[m]] = x
  OBVIOUS
<1>15. \A m \in 1 .. c : ls[o[m]] = x => m \in S
  OBVIOUS
<1>16. IsFiniteSet(S)
  <2>1. IsFiniteSet(1 .. c)
    BY <1>9, FS_Interval
  <2> QED BY <2>1, FS_Subset
<1> HIDE DEF s, S
<1>17. f \in [S -> T]
  BY <1>3, <1>1, <1>9, <1>14
<1>18. \A a, b \in S : f[a] = f[b] => a = b
  BY <1>9, <1>14
<1>19. \A p \in T : \E m \in S : f[m] = p
  <2> TAKE p \in T
  <2>1. p \in P /\ ls[p] = x
    BY <1>5
  <2>2. PICK m \in 1 .. c : o[m] = p
    BY <1>9, <2>1
  <2>3. m \in S
    BY <1>15, <2>1, <2>2
  <2> QED BY <2>2, <2>3
<1>20. Cardinality(T) = Cardinality(S)
  <2> HIDE DEF T, f
  <2> QED BY <1>16, <1>17, <1>18, <1>19, SameCount
<1> QED BY <1>13, <1>20 DEF TimesIn

\* Every index of a user below the last one is listed once.
LEMMA UserLists ==
  ASSUME NEW S, NEW ls \in Seq(S), Len(ls) <= MaxEvents, NEW limit \in Nat \ {0}, NEW u,
         NEW j \in 0 .. LastIndex(u, ls) - 1
  PROVE  TimesListed(j, [page \in 0 .. MaxEvents |-> UserPage(u, ls, page, limit)]) = 1
<1>1. PICK c : c = LastIndex(u, ls)
  OBVIOUS
<1>2. c \in 0 .. Len(ls) /\ Len(ls) \in Nat
  <2>1. LastIndex(u, ls) \in 0 .. Len(ls)
    BY LastIndexDef
  <2>2. Len(ls) \in Nat
    OBVIOUS
  <2> QED BY <1>1, <2>1, <2>2
<1>3. c \in Nat /\ c <= MaxEvents
  BY <1>2, AuditSizes
<1> DEFINE s == [m \in 1 .. c |-> c - m]
           pages == [page \in 0 .. MaxEvents |-> UserPage(u, ls, page, limit)]
<1>4. ASSUME NEW page \in 0 .. MaxEvents
      PROVE  /\ DOMAIN pages[page] = {k \in 1 .. limit : page * limit + k <= c}
             /\ \A k \in DOMAIN pages[page] : pages[page][k] = s[page * limit + k]
  <2>1. PICK b, next : b = page * limit /\ next = c - b
    OBVIOUS
  <2>2. b \in Nat /\ limit \in Nat /\ next \in Int
    BY <1>3, <2>1, AuditSizes
  <2>3. pages[page] = [k \in 1 .. (IF next < 0 THEN 0 ELSE IF next < limit THEN next ELSE limit)
                         |-> next - k]
    BY <1>1, <2>1 DEF UserPage
  <2>4. 1 .. (IF next < 0 THEN 0 ELSE IF next < limit THEN next ELSE limit)
          = {k \in 1 .. limit : b + k <= c}
    BY <1>3, <2>1, <2>2
  <2>5. \A k \in {i \in 1 .. limit : b + i <= c} : b + k \in 1 .. c /\ next - k = c - (b + k)
    BY <1>3, <2>1, <2>2
  <2> QED BY <2>1, <2>3, <2>4, <2>5
<1>5. DOMAIN pages = 0 .. MaxEvents
  OBVIOUS
<1>6. {m \in 1 .. c : s[m] = j} = {c - j}
  <2>1. j \in Nat /\ j < c
    BY <1>1, <1>3
  <2>2. \A m \in 1 .. c : s[m] = j <=> m = c - j
    BY <1>3, <2>1
  <2>3. c - j \in 1 .. c
    BY <1>3, <2>1
  <2> HIDE DEF s
  <2> QED BY <2>2, <2>3
<1>7. TimesListed(j, pages) = Cardinality({m \in 1 .. c : s[m] = j})
  <2> HIDE DEF s, pages
  <2>1. Cuts(pages, s, c, limit)
    BY <1>4, <1>5 DEF Cuts
  <2>2. TimesListed(j, pages) = Cardinality(Places(j, s, c))
    BY <1>3, <2>1, PagesCount
  <2> QED BY <2>2 DEF Places
<1> QED BY <1>6, <1>7, FS_Singleton

LEMMA Lists ==
  ASSUME Inv, done, NEW limit \in Nat \ {0}
  PROVE  ListedOnceOn(limit)
<1>1. PICK ls : ls = cache.logs
  OBVIOUS
<1>2. ls \in Seq(Log) /\ Len(ls) \in Nat /\ Len(ls) <= MaxEvents
  <2>1. Len(executions) <= MaxEvents
    BY DEF Inv, AuditTypeOK
  <2> QED BY <1>1, <2>1, InvFacts, AuditSizes
<1>3. ASSUME NEW p \in 1 .. startedAt, IsCurrent(p, ls), ls[p].nullifierHash[1] \in User,
             ls[p].encryptedAllowance # HashZero, ~ Hidden(ls[p].nullifierHash, startedAt)
      PROVE  TimesListed(ls[p], [page \in 0 .. MaxEvents |-> AdminPage(ls, FALSE, page, limit)])
               = TimesIn(ls[p], ls)
  <2>1. Tags(ls[p].nullifierHash[1])
    BY <1>3, AfterAudit
  <2>2. ls[p].valid # "unset"
    BY <1>1, <1>3, <2>1 DEF Tags
  <2>3. p \in DOMAIN ls
    BY <1>1, InvFacts, AfterAudit
  <2>4. ls[p].userIndex
    BY <1>1, <2>2, <2>3, InvFacts DEF LogOf, Truthful
  <2> QED BY <1>2, <2>4, AdminLists
<1>4. ASSUME NEW u \in User, NEW j \in 0 .. LastIndex(u, ls) - 1
      PROVE  TimesListed(j, [page \in 0 .. MaxEvents |-> UserPage(u, ls, page, limit)]) = 1
  BY <1>2, UserLists
<1> QED BY <1>1, <1>3, <1>4 DEF ListedOnceOn

\* ListedOnce, for numbers as page and limit: and for every limit.
THEOREM PagesListOnce ==
  AuditSpec => [](ListedOnce /\ (done => \A limit \in Nat \ {0} : ListedOnceOn(limit)))
<1>1. Inv => ListedOnce /\ (done => \A limit \in Nat \ {0} : ListedOnceOn(limit))
  <2> SUFFICES ASSUME Inv, done
               PROVE  ListedOnce /\ \A limit \in Nat \ {0} : ListedOnceOn(limit)
    BY DEF ListedOnce
  <2>1. \A limit \in Nat \ {0} : ListedOnceOn(limit)
    BY Lists
  <2> QED BY <2>1 DEF ListedOnce
<1> QED BY <1>1, AlwaysSound, PTL
=============================================================================
