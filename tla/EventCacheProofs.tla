-------------------------- MODULE EventCacheProofs --------------------------
(***************************************************************************)
(* Proofs about EventCache for every set of callers, every chain, every    *)
(* lag of the provider and every sequence of failures.                     *)
(***************************************************************************)
EXTENDS EventCache, FiniteSetTheorems, WellFoundedInduction, TLAPS

-----------------------------------------------------------------------------
(* Blocks and events                                                       *)

LEMMA ChainTyped ==
  ASSUME CacheTypeOK
  PROVE  /\ Height \in Nat /\ DOMAIN blocks = 1 .. Height
         /\ \A i \in 1 .. Height : blocks[i].upTo \in Nat /\ blocks[i].discarded \subseteq Commitment
<1>1. blocks \in Seq(Block)
  BY DEF CacheTypeOK
<1>2. Height \in Nat /\ DOMAIN blocks = 1 .. Height /\ \A i \in 1 .. Height : blocks[i] \in Block
  BY <1>1 DEF Height
<1> QED BY <1>2 DEF Block

LEMMA UpToTyped ==
  ASSUME CacheTypeOK, NEW h \in Int, h <= Height
  PROVE  UpTo(h) \in Nat
BY ChainTyped DEF UpTo

LEMMA UpToMonotone ==
  ASSUME CacheTypeOK, ChainSound, NEW h \in Int, NEW k \in Int, h <= k, k <= Height
  PROVE  UpTo(h) <= UpTo(k) /\ UpTo(k) <= Len(commitments)
<1>1. Height \in Nat /\ UpTo(h) \in Nat /\ UpTo(k) \in Nat
  BY ChainTyped, UpToTyped
<1>2. \A i, j \in 0 .. Height : i <= j => UpTo(i) <= UpTo(j)
  BY DEF ChainSound
<1>3. UpTo(0) = 0 /\ (h < 1 => UpTo(h) = 0) /\ (k < 1 => UpTo(k) = 0)
  BY DEF UpTo
<1>4. UpTo(Height) = Len(commitments) /\ Len(commitments) \in Nat
  BY DEF ChainSound, CacheTypeOK
<1>5. UpTo(k) <= Len(commitments)
  BY <1>1, <1>2, <1>3, <1>4
<1>6. CASE h < 1
  BY <1>1, <1>3, <1>5, <1>6
<1>7. CASE h >= 1
  BY <1>1, <1>2, <1>5, <1>7
<1> QED BY <1>6, <1>7

\* What a query over the blocks from .. to returns.
LEMMA ExecutionsRead ==
  ASSUME CacheTypeOK, ChainSound, NEW from \in Int, NEW to \in Int, from - 1 <= to, to <= Height
  PROVE  /\ Executions(from, to) \in Seq(Commitment)
         /\ Len(Executions(from, to)) = UpTo(to) - UpTo(from - 1)
         /\ \A p \in 1 .. UpTo(to) - UpTo(from - 1) :
              Executions(from, to)[p] = commitments[UpTo(from - 1) + p]
<1>1. PICK m, n : m = UpTo(from - 1) /\ n = UpTo(to)
  OBVIOUS
<1>2. Height \in Nat
  BY ChainTyped
<1>3. m \in Nat /\ n \in Nat /\ m <= n /\ n <= Len(commitments)
  BY <1>1, <1>2, UpToTyped, UpToMonotone
<1>4. commitments \in Seq(Commitment)
  BY DEF CacheTypeOK
<1>5. PICK s : s = SubSeq(commitments, m + 1, n)
  OBVIOUS
<1>6. s \in Seq(Commitment) /\ Len(s) = n - m /\ \A p \in 1 .. n - m : s[p] = commitments[m + p]
  BY <1>3, <1>4, <1>5
<1> QED BY <1>1, <1>5, <1>6 DEF Executions

\* The blocks up to to, read in two parts.
LEMMA DiscardsSplit ==
  ASSUME NEW b \in Nat, NEW to \in Nat, b <= to + 1
  PROVE  Discards(1, to) = Discards(1, b - 1) \cup Discards(b, to)
<1>1. {j \in 1 .. to : j >= 1} = {j \in 1 .. b - 1 : j >= 1} \cup {j \in 1 .. to : j >= b /\ j >= 1}
  OBVIOUS
<1>2. {j \in 1 .. to : j >= b /\ j >= 1} = {j \in 1 .. to : j >= b}
  OBVIOUS
<1> QED BY <1>1, <1>2 DEF Discards

LEMMA LogsOfTyped ==
  ASSUME NEW es \in Seq(Commitment)
  PROVE  /\ LogsOf(es) \in Seq(CachedLog) /\ Len(LogsOf(es)) = Len(es)
         /\ \A p \in 1 .. Len(es) : LogsOf(es)[p].commitmentHash = es[p] /\ LogsOf(es)[p].discarded = FALSE
<1>1. DOMAIN es = 1 .. Len(es) /\ Len(es) \in Nat /\ \A p \in 1 .. Len(es) : es[p] \in Commitment
  OBVIOUS
<1>2. \A p \in 1 .. Len(es) : [commitmentHash |-> es[p], discarded |-> FALSE] \in CachedLog
  BY <1>1 DEF CachedLog
<1> QED BY <1>1, <1>2 DEF LogsOf

LEMMA MarkTyped ==
  ASSUME NEW ls \in Seq(CachedLog), NEW gone
  PROVE  /\ Mark(ls, gone) \in Seq(CachedLog) /\ Len(Mark(ls, gone)) = Len(ls)
         /\ \A p \in 1 .. Len(ls) : Mark(ls, gone)[p].commitmentHash = ls[p].commitmentHash
<1>1. DOMAIN ls = 1 .. Len(ls) /\ Len(ls) \in Nat /\ \A p \in 1 .. Len(ls) : ls[p] \in CachedLog
  OBVIOUS
<1>2. \A log \in CachedLog : /\ [log EXCEPT !.discarded = TRUE] \in CachedLog
                             /\ [log EXCEPT !.discarded = TRUE].commitmentHash = log.commitmentHash
  BY DEF CachedLog
<1>3. \A p \in 1 .. Len(ls) : Mark(ls, gone)[p] \in {ls[p], [ls[p] EXCEPT !.discarded = TRUE]}
  BY <1>1 DEF Mark
<1>4. DOMAIN Mark(ls, gone) = 1 .. Len(ls)
  BY <1>1 DEF Mark
<1>5. Mark(ls, gone) = [p \in 1 .. Len(ls) |-> Mark(ls, gone)[p]]
  BY <1>1 DEF Mark
<1>6. Mark(ls, gone) \in [1 .. Len(ls) -> CachedLog]
  BY <1>1, <1>2, <1>3, <1>5
<1>7. PICK ms : ms = Mark(ls, gone)
  OBVIOUS
<1>8. ms \in Seq(CachedLog) /\ Len(ms) = Len(ls)
  BY <1>1, <1>6, <1>7
<1>9. \A p \in 1 .. Len(ls) : ms[p].commitmentHash = ls[p].commitmentHash
  BY <1>1, <1>2, <1>3, <1>7
<1> QED BY <1>7, <1>8, <1>9

\* Where a commitment comes once, it is marked if it is discarded.
LEMMA MarkAll ==
  ASSUME NEW ls \in Seq(CachedLog), NEW gone, NEW p \in 1 .. Len(ls),
         ls[p].commitmentHash \in gone =>
           \A q \in 1 .. Len(ls) : ls[q].commitmentHash = ls[p].commitmentHash => q = p
  PROVE  /\ ls[p].commitmentHash \in gone => Mark(ls, gone)[p].discarded = TRUE
         /\ ls[p].commitmentHash \notin gone => Mark(ls, gone)[p].discarded = ls[p].discarded
<1>1. DOMAIN ls = 1 .. Len(ls) /\ Len(ls) \in Nat /\ ls[p] \in CachedLog
  OBVIOUS
<1>2. ls[p].commitmentHash \in gone =>
        \A q \in DOMAIN ls : q > p => ls[q].commitmentHash # ls[p].commitmentHash
  BY <1>1
<1>3. Mark(ls, gone)[p] =
        IF ls[p].commitmentHash \in gone THEN [ls[p] EXCEPT !.discarded = TRUE] ELSE ls[p]
  BY <1>1, <1>2 DEF Mark
<1>4. [ls[p] EXCEPT !.discarded = TRUE].discarded = TRUE /\ ls[p].discarded \in BOOLEAN
  BY <1>1 DEF CachedLog
<1> QED BY <1>3, <1>4

-----------------------------------------------------------------------------
(* Steps that leave the chain alone                                        *)

LEMMA SameChain ==
  ASSUME UNCHANGED blockVars
  PROVE  /\ Height' = Height
         /\ \A h : UpTo(h)' = UpTo(h)
         /\ \A from, to : /\ Executions(from, to)' = Executions(from, to)
                          /\ Discards(from, to)' = Discards(from, to)
         /\ ChainSound => ChainSound'
         /\ DiscardedOnce' => DiscardedOnce
BY DEF blockVars, Height, UpTo, Executions, Discards, ChainSound, DiscardedOnce

\* What the variables of the lock are, and what a call may rely on.
LockTypeOK ==
  /\ call \in [Caller -> {"idle", "waiting", "ok", "failed"}]
  /\ since \in [Caller -> 0 .. Height]
  /\ queue \in Seq(Caller) /\ IsInjective(queue)
  /\ ToSet(queue) = {c \in Caller : call[c] = "waiting"}

CacheTyped ==
  /\ isPhantom \in BOOLEAN
  /\ blockIndex \in 0 .. Height + 1 /\ logs \in Seq(CachedLog)
  /\ request \in Request /\ torn \in 0 .. MaxTorn
  /\ request \in {"executions", "discards"} => latest \in blockIndex .. Height

ChainTypeOK ==
  /\ commitments \in Seq(Commitment) /\ blocks \in Seq(Block)
  /\ deployedAt \in 0 .. Height

LEMMA TypeParts == CacheTypeOK <=> ChainTypeOK /\ CacheTyped /\ LockTypeOK
BY DEF CacheTypeOK, ChainTypeOK, CacheTyped, LockTypeOK

\* The call in front of the lock is in it once.
LEMMA FrontOfQueue ==
  ASSUME LockTypeOK, queue # <<>>
  PROVE  /\ Head(queue) \in Caller /\ call[Head(queue)] = "waiting"
         /\ Tail(queue) \in Seq(Caller) /\ IsInjective(Tail(queue))
         /\ ToSet(Tail(queue)) = ToSet(queue) \ {Head(queue)}
<1>1. /\ queue \in Seq(Caller) /\ Len(queue) \in Nat \ {0} /\ DOMAIN queue = 1 .. Len(queue)
      /\ Head(queue) = queue[1] /\ queue[1] \in Caller
  BY DEF LockTypeOK
<1>2. /\ Tail(queue) \in Seq(Caller) /\ DOMAIN Tail(queue) = 1 .. Len(queue) - 1
      /\ \A i \in 1 .. Len(queue) - 1 : Tail(queue)[i] = queue[i + 1]
  BY <1>1
<1>3. \A i, j \in 1 .. Len(queue) : queue[i] = queue[j] => i = j
  BY <1>1 DEF LockTypeOK, IsInjective
<1>4. IsInjective(Tail(queue))
  <2>1. ASSUME NEW i \in 1 .. Len(queue) - 1, NEW j \in 1 .. Len(queue) - 1,
               Tail(queue)[i] = Tail(queue)[j]
        PROVE  i = j
    <3>1. i + 1 \in 1 .. Len(queue) /\ j + 1 \in 1 .. Len(queue)
      BY <1>1
    <3>2. i + 1 = j + 1
      BY <1>2, <1>3, <2>1, <3>1
    <3> QED BY <3>2
  <2> QED BY <1>2, <2>1 DEF IsInjective
<1>5. ToSet(Tail(queue)) = ToSet(queue) \ {Head(queue)}
  <2>1. ASSUME NEW i \in 1 .. Len(queue) - 1
        PROVE  queue[i + 1] \in ToSet(queue) /\ queue[i + 1] # queue[1]
    <3>1. i + 1 \in 1 .. Len(queue) /\ 1 \in 1 .. Len(queue) /\ i + 1 # 1
      BY <1>1
    <3> QED BY <1>1, <1>3, <3>1 DEF ToSet
  <2>2. ASSUME NEW k \in 1 .. Len(queue), queue[k] # queue[1]
        PROVE  \E i \in 1 .. Len(queue) - 1 : Tail(queue)[i] = queue[k]
    <3>1. k - 1 \in 1 .. Len(queue) - 1 /\ (k - 1) + 1 = k
      BY <1>1, <2>2
    <3> QED BY <1>2, <3>1
  <2>3. ToSet(queue) = {queue[k] : k \in 1 .. Len(queue)}
    BY <1>1 DEF ToSet
  <2>4. ToSet(Tail(queue)) = {Tail(queue)[i] : i \in 1 .. Len(queue) - 1}
    BY <1>2 DEF ToSet
  <2>5. ToSet(Tail(queue)) \subseteq ToSet(queue) \ {queue[1]}
    BY <1>2, <2>1, <2>4
  <2>6. ToSet(queue) \ {queue[1]} \subseteq ToSet(Tail(queue))
    BY <2>2, <2>3, <2>4
  <2> QED BY <1>1, <2>5, <2>6
<1>6. call[Head(queue)] = "waiting"
  <2>1. Head(queue) \in ToSet(queue)
    BY <1>1 DEF ToSet
  <2> QED BY <2>1 DEF LockTypeOK
<1> QED BY <1>1, <1>2, <1>4, <1>5, <1>6

\* A call that returns leaves the lock to the next one.
LEMMA ReturnInv ==
  ASSUME CacheTypeOK, LockSound, queue # <<>>, NEW outcome \in {"ok", "failed"}, Return(outcome),
         UNCHANGED blockVars
  PROVE  LockTypeOK' /\ LockSound' /\ request' = "phantom"
<1>1. LockTypeOK /\ Height' = Height
  BY TypeParts, SameChain
<1>2. /\ call' = [call EXCEPT ![Head(queue)] = outcome]
      /\ since' = [since EXCEPT ![Head(queue)] = 0]
      /\ queue' = Tail(queue) /\ request' = "phantom"
  BY DEF Return, Released
<1>3. PICK h, rest : h = Head(queue) /\ rest = Tail(queue)
  OBVIOUS
<1>4. h \in Caller /\ rest \in Seq(Caller) /\ IsInjective(rest) /\ ToSet(rest) = ToSet(queue) \ {h}
  BY <1>1, <1>3, FrontOfQueue
<1>5. /\ call' \in [Caller -> {"idle", "waiting", "ok", "failed"}]
      /\ \A c \in Caller : call'[c] = "waiting" <=> call[c] = "waiting" /\ c # h
  BY <1>1, <1>2, <1>3, <1>4 DEF LockTypeOK
<1>6. Height \in Nat
  BY ChainTyped
<1>7. since' \in [Caller -> 0 .. Height] /\ \A c \in Caller : since'[c] = 0 \/ since'[c] = since[c]
  BY <1>1, <1>2, <1>3, <1>4, <1>6 DEF LockTypeOK
<1>8. ToSet(rest) = {c \in Caller : call'[c] = "waiting"}
  BY <1>1, <1>4, <1>5 DEF LockTypeOK
<1>9. LockTypeOK'
  <2>1. queue' = rest /\ since' \in [Caller -> 0 .. Height']
    BY <1>1, <1>2, <1>3, <1>7
  <2> QED BY <1>4, <1>5, <1>8, <2>1 DEF LockTypeOK, ToSet, IsInjective
<1>10. LockSound'
  BY <1>1, <1>2, <1>7 DEF LockSound
<1> QED BY <1>2, <1>9, <1>10

LEMMA CallInv ==
  ASSUME CacheInv, NEW c \in Caller, Call(c)
  PROVE  CacheInv'
<1>1. CacheTypeOK /\ ChainSound /\ LockSound /\ NothingMissing /\ LogsExact
  BY DEF CacheInv
<1>2. UNCHANGED blockVars /\ UNCHANGED <<cacheVars, request, latest, torn>>
  BY DEF Call
<1>3. /\ Height' = Height /\ \A h : UpTo(h)' = UpTo(h) /\ ChainSound'
      /\ \A from, to : Discards(from, to)' = Discards(from, to)
  BY <1>1, <1>2, SameChain
<1>4. Height \in Nat /\ MaxLag \in Nat /\ LockTypeOK
  BY <1>1, ChainTyped, CacheSizes, TypeParts
<1>5. /\ call[c] # "waiting" /\ call' = [call EXCEPT ![c] = "waiting"]
      /\ queue' = Append(queue, c)
      /\ since' = [since EXCEPT ![c] = IF Height < MaxLag THEN 0 ELSE Height - MaxLag]
  BY DEF Call
<1>6. /\ since' \in [Caller -> 0 .. Height]
      /\ \A d \in Caller : since'[d] = 0 \/ since'[d] <= Height - MaxLag
      /\ \A d \in Caller \ {c} : since'[d] = since[d]
  BY <1>1, <1>4, <1>5 DEF LockTypeOK, LockSound
<1>7. LockTypeOK'
  <2>1. /\ queue \in Seq(Caller) /\ DOMAIN queue = 1 .. Len(queue) /\ Len(queue) \in Nat
        /\ \A i \in 1 .. Len(queue) : queue[i] # c
    <3>1. queue \in Seq(Caller) /\ DOMAIN queue = 1 .. Len(queue) /\ Len(queue) \in Nat
      BY <1>4 DEF LockTypeOK
    <3>2. c \notin ToSet(queue)
      BY <1>4, <1>5 DEF LockTypeOK
    <3> QED BY <3>1, <3>2 DEF ToSet
  <2>2. /\ queue' \in Seq(Caller) /\ DOMAIN queue' = 1 .. Len(queue) + 1
        /\ \A i \in 1 .. Len(queue) : queue'[i] = queue[i]
        /\ queue'[Len(queue) + 1] = c
    BY <1>5, <2>1
  <2>3. IsInjective(queue')
    <3>1. \A i, j \in 1 .. Len(queue) : queue[i] = queue[j] => i = j
      BY <1>4, <2>1 DEF LockTypeOK, IsInjective
    <3>2. \A i \in 1 .. Len(queue) + 1 : i \in 1 .. Len(queue) \/ i = Len(queue) + 1
      BY <2>1
    <3>3. ASSUME NEW i \in 1 .. Len(queue) + 1, NEW j \in 1 .. Len(queue) + 1,
                 queue'[i] = queue'[j]
          PROVE  i = j
      BY <2>1, <2>2, <3>1, <3>2, <3>3
    <3> QED BY <2>2, <3>3 DEF IsInjective
  <2>4. ToSet(queue') = ToSet(queue) \cup {c}
    BY <2>1, <2>2 DEF ToSet
  <2>5. /\ call' \in [Caller -> {"idle", "waiting", "ok", "failed"}]
        /\ \A d \in Caller : call'[d] = "waiting" <=> call[d] = "waiting" \/ d = c
    BY <1>4, <1>5 DEF LockTypeOK
  <2>6. ToSet(queue') = {d \in Caller : call'[d] = "waiting"}
    BY <1>4, <2>4, <2>5 DEF LockTypeOK
  <2> QED BY <1>3, <1>6, <2>2, <2>3, <2>5, <2>6 DEF LockTypeOK, ToSet, IsInjective
<1>8. CacheTypeOK'
  <2>1. ChainTypeOK' /\ CacheTyped'
    BY <1>1, <1>2, <1>3, TypeParts DEF ChainTypeOK, CacheTyped, blockVars, cacheVars
  <2> QED BY <1>7, <2>1, TypeParts DEF CacheTypeOK, ChainTypeOK, CacheTyped, LockTypeOK
<1>9. LockSound'
  <2>1. ASSUME request' \in {"executions", "discards"}
        PROVE  queue' # <<>> /\ since'[Head(queue')] <= latest'
    <3>1. queue # <<>> /\ since[Head(queue)] <= latest
      BY <1>1, <1>2, <2>1 DEF LockSound
    <3>2. queue \in Seq(Caller)
      BY <1>4 DEF LockTypeOK
    <3>3. Head(queue) # c
      BY <1>4, <1>5, <3>1, FrontOfQueue
    <3>4. queue' # <<>> /\ Head(queue') = Head(queue) /\ Head(queue) \in Caller
      BY <1>5, <3>1, <3>2
    <3> QED BY <1>2, <1>6, <3>1, <3>3, <3>4
  <2> QED BY <1>3, <1>6, <2>1 DEF LockSound
<1>10. NothingMissing' /\ LogsExact'
  <2>1. DiscardedOnce' => DiscardedOnce
    BY <1>2, SameChain
  <2> QED BY <1>1, <1>2, <1>3, <2>1 DEF NothingMissing, LogsExact, ReadUpTo, cacheVars, blockVars
<1> QED BY <1>3, <1>8, <1>9, <1>10 DEF CacheInv

-----------------------------------------------------------------------------
(* A new block                                                             *)

LEMMA BoundedIsSeq ==
  ASSUME NEW s \in BoundedSeq(Commitment, MaxExecutions)
  PROVE  s \in Seq(Commitment)
<1>1. PICK n \in 0 .. MaxExecutions : s \in [1 .. n -> Commitment]
  BY DEF BoundedSeq, SeqOf
<1> QED BY <1>1

\* Only what was inserted in earlier blocks is discarded.
LEMMA DiscardedWasInserted ==
  ASSUME CacheTypeOK, NEW c, TimesDiscarded(c) < Executed(c)
  PROVE  \E p \in 1 .. Len(commitments) : commitments[p] = c
<1> DEFINE S == {p \in DOMAIN commitments : commitments[p] = c}
           T == {i \in DOMAIN blocks : c \in blocks[i].discarded}
<1>1. DOMAIN commitments = 1 .. Len(commitments) /\ Len(commitments) \in Nat
  BY DEF CacheTypeOK
<1>2. DOMAIN blocks = 1 .. Height /\ Height \in Nat
  BY ChainTyped
<1>3. IsFiniteSet(1 .. Len(commitments)) /\ IsFiniteSet(1 .. Height)
  BY <1>1, <1>2, FS_Interval
<1>4. IsFiniteSet(T)
  BY <1>2, <1>3, FS_Subset
<1>5. Cardinality(T) \in Nat
  BY <1>4, FS_CardinalityType
<1>6. Cardinality(T) < Cardinality(S)
  BY DEF Executed, TimesDiscarded
<1>7. S # {}
  <2> SUFFICES ASSUME S = {} PROVE FALSE
    OBVIOUS
  <2>1. Cardinality(S) = 0
    BY FS_EmptySet
  <2> HIDE DEF S, T
  <2> QED BY <1>5, <1>6, <2>1
<1> QED BY <1>1, <1>7

LEMMA MineStep ==
  ASSUME CacheInv, NEW executed \in BoundedSeq(Commitment, MaxExecutions),
         NEW discarded \in SUBSET Commitment, NewBlock(executed, discarded)
  PROVE  /\ commitments' \in Seq(Commitment) /\ Len(commitments') = Len(commitments) + Len(executed)
         /\ \A p \in 1 .. Len(commitments) : commitments'[p] = commitments[p]
         /\ blocks' \in Seq(Block) /\ Height' = Height + 1
         /\ \A i \in 1 .. Height : blocks'[i] = blocks[i]
         /\ blocks'[Height + 1].upTo = Len(commitments')
         /\ blocks'[Height + 1].discarded = discarded
<1>1. /\ commitments \in Seq(Commitment) /\ blocks \in Seq(Block) /\ executed \in Seq(Commitment)
  BY BoundedIsSeq DEF CacheInv, CacheTypeOK
<1>2. /\ commitments' = commitments \o executed
      /\ blocks' = Append(blocks, [upTo |-> Len(commitments'), discarded |-> discarded])
  BY DEF NewBlock
<1>3. /\ commitments' \in Seq(Commitment) /\ Len(commitments') = Len(commitments) + Len(executed)
      /\ \A p \in 1 .. Len(commitments) : commitments'[p] = commitments[p]
  BY <1>1, <1>2
<1>4. PICK b : b = [upTo |-> Len(commitments'), discarded |-> discarded]
  OBVIOUS
<1>5. b \in Block /\ b.upTo = Len(commitments') /\ b.discarded = discarded
  BY <1>3, <1>4 DEF Block
<1>6. blocks' = Append(blocks, b)
  BY <1>2, <1>4
<1>7. /\ blocks' \in Seq(Block) /\ Len(blocks') = Len(blocks) + 1
      /\ \A i \in 1 .. Len(blocks) : blocks'[i] = blocks[i]
      /\ blocks'[Len(blocks) + 1] = b
  BY <1>1, <1>5, <1>6
<1> QED BY <1>3, <1>5, <1>7 DEF Height

LEMMA MineInv ==
  ASSUME CacheInv, NEW executed \in BoundedSeq(Commitment, MaxExecutions),
         NEW discarded \in SUBSET Commitment, NewBlock(executed, discarded)
  PROVE  CacheInv'
<1>1. CacheTypeOK /\ ChainSound /\ LockSound /\ NothingMissing /\ LogsExact
  BY DEF CacheInv
<1>2. PICK H, L : H = Height /\ L = Len(commitments)
  OBVIOUS
<1>3. /\ commitments' \in Seq(Commitment) /\ Len(commitments') = L + Len(executed)
      /\ \A p \in 1 .. L : commitments'[p] = commitments[p]
      /\ blocks' \in Seq(Block) /\ Height' = H + 1
      /\ \A i \in 1 .. H : blocks'[i] = blocks[i]
      /\ blocks'[H + 1].upTo = Len(commitments') /\ blocks'[H + 1].discarded = discarded
  BY <1>2, MineStep
<1>4. H \in Nat /\ L \in Nat /\ Len(executed) \in Nat /\ executed \in Seq(Commitment)
  BY <1>1, <1>2, ChainTyped, BoundedIsSeq DEF CacheTypeOK
<1>5. /\ UNCHANGED <<cacheVars, queue, request, latest, torn, call, since>>
      /\ isPhantom' = isPhantom /\ blockIndex' = blockIndex /\ logs' = logs
  BY DEF NewBlock, cacheVars
<1>6. \A h \in Int : h <= H => UpTo(h)' = UpTo(h)
  BY <1>3, <1>4 DEF UpTo
<1>7. UpTo(H + 1)' = L + Len(executed)
  BY <1>3, <1>4 DEF UpTo
<1>8. \A h \in 0 .. H : UpTo(h) \in Nat /\ UpTo(h) <= L
  BY <1>1, <1>2, <1>4, UpToTyped, UpToMonotone
<1>9. UpTo(H) = L
  BY <1>1, <1>2 DEF ChainSound
<1>10. deployedAt \in 0 .. H
       /\ IF deployedAt = 0 THEN UpTo(H) = 0 ELSE UpTo(deployedAt - 1) = 0
  BY <1>1, <1>2 DEF CacheTypeOK, ChainSound
<1>11. \/ deployedAt' = IF deployedAt = 0 THEN H + 1 ELSE deployedAt
       \/ executed = <<>> /\ deployedAt' = deployedAt
  BY <1>2 DEF NewBlock
<1>12. CacheTypeOK'
  <2>1. ChainTypeOK'
    BY <1>3, <1>4, <1>10, <1>11 DEF ChainTypeOK
  <2>2. CacheTyped /\ LockTypeOK
    BY <1>1, TypeParts
  <2>3. CacheTyped'
    BY <1>2, <1>3, <1>4, <1>5, <2>2 DEF CacheTyped
  <2>4. since' \in [Caller -> 0 .. Height']
    <3>1. since \in [Caller -> 0 .. H] /\ 0 .. H \subseteq 0 .. H + 1
      BY <1>2, <1>4, <2>2 DEF LockTypeOK
    <3>2. since \in [Caller -> 0 .. H + 1]
      BY <3>1
    <3> QED BY <1>3, <1>5, <3>2
  <2>5. LockTypeOK'
    BY <1>5, <2>2, <2>4 DEF LockTypeOK, IsInjective, ToSet
  <2> QED BY <2>1, <2>3, <2>5 DEF CacheTypeOK, ChainTypeOK, CacheTyped, LockTypeOK
<1>13. ChainSound'
  <2>1. \A i, j \in 0 .. H + 1 : i <= j => UpTo(i)' <= UpTo(j)'
    <3> TAKE i, j \in 0 .. H + 1
    <3>1. CASE j <= H
      BY <1>1, <1>2, <1>4, <1>6, <3>1 DEF ChainSound
    <3>2. CASE j = H + 1
      <4>1. CASE i = H + 1
        BY <1>4, <1>7, <3>2, <4>1
      <4>2. CASE i <= H
        BY <1>4, <1>6, <1>7, <1>8, <3>2, <4>2
      <4> QED BY <1>4, <4>1, <4>2
    <3> QED BY <1>4, <3>1, <3>2
  <2>2. UpTo(Height)' = Len(commitments')
    <3>1. UpTo(Height)' = IF Height' < 1 THEN 0 ELSE blocks'[Height'].upTo
      BY DEF UpTo
    <3> QED BY <1>3, <1>4, <3>1
  <2>3. ASSUME NEW i \in 1 .. H + 1, NEW c \in blocks'[i].discarded
        PROVE  \E p \in 1 .. UpTo(i - 1)' : commitments'[p] = c
    <3>1. CASE i = H + 1
      <4>1. c \in discarded
        BY <1>3, <2>3, <3>1
      <4>2. TimesDiscarded(c) < Executed(c)
        BY <4>1 DEF NewBlock
      <4>3. PICK p \in 1 .. L : commitments[p] = c
        BY <1>1, <1>2, <4>2, DiscardedWasInserted
      <4>4. UpTo(i - 1)' = L
        BY <1>4, <1>6, <1>9, <3>1
      <4> QED BY <1>3, <4>3, <4>4
    <3>2. CASE i \in 1 .. H
      <4>1. PICK p \in 1 .. UpTo(i - 1) : commitments[p] = c
        BY <1>1, <1>2, <1>3, <2>3, <3>2 DEF ChainSound
      <4>2. i - 1 \in 0 .. H
        BY <1>4, <3>2
      <4>3. UpTo(i - 1)' = UpTo(i - 1) /\ UpTo(i - 1) <= L /\ UpTo(i - 1) \in Nat
        BY <1>4, <1>6, <1>8, <4>2
      <4> QED BY <1>3, <1>4, <4>1, <4>3
    <3> QED BY <1>4, <3>1, <3>2
  <2>4. IF deployedAt' = 0 THEN UpTo(Height)' = 0 ELSE UpTo(deployedAt - 1)' = 0
    <3>1. ASSUME NEW d \in 0 .. H + 1, d = deployedAt', d # 0
          PROVE  UpTo(d - 1)' = 0
      <4>1. d = deployedAt \/ (deployedAt = 0 /\ d = H + 1)
        BY <1>10, <1>11, <3>1
      <4>2. UpTo(d - 1) = 0
        BY <1>4, <1>9, <1>10, <3>1, <4>1
      <4> QED BY <1>4, <1>6, <3>1, <4>2
    <3>2. ASSUME deployedAt' = 0
          PROVE  UpTo(Height)' = 0
      <4>1. deployedAt = 0 /\ executed = <<>>
        BY <1>4, <1>10, <1>11, <3>2
      <4> QED BY <1>3, <1>4, <1>9, <1>10, <2>2, <4>1
    <3>3. deployedAt' \in 0 .. H + 1
      BY <1>4, <1>10, <1>11
    <3>4. deployedAt' # 0 => UpTo(deployedAt - 1)' = 0
      <4>1. PICK d \in 0 .. H + 1 : d = deployedAt'
        BY <3>3
      <4>2. UpTo(deployedAt - 1)' = UpTo(d - 1)'
        BY <4>1 DEF UpTo
      <4> QED BY <3>1, <4>1, <4>2
    <3> QED BY <3>2, <3>4
  <2>5. /\ \A i, j \in 0 .. Height' : i <= j => UpTo(i)' <= UpTo(j)'
        /\ \A i \in 1 .. Height' : \A c \in blocks'[i].discarded :
             \E p \in 1 .. UpTo(i - 1)' : commitments'[p] = c
    BY <1>3, <2>1, <2>3
  <2> QED BY <2>2, <2>4, <2>5 DEF ChainSound
<1>14. LockSound'
  BY <1>1, <1>2, <1>3, <1>4, <1>5, CacheSizes, TypeParts DEF LockSound, LockTypeOK
<1>15. PICK r : r = ReadUpTo
  OBVIOUS
<1>16. r \in Int /\ r <= H /\ ReadUpTo' = r /\ UpTo(r) \in Nat /\ UpTo(r) <= L
  <2>1. r \in Int /\ r <= H /\ ReadUpTo' = r
    BY <1>1, <1>2, <1>4, <1>5, <1>15, TypeParts DEF ReadUpTo, CacheTyped
  <2> QED BY <1>1, <1>2, <1>4, <2>1, UpToTyped, UpToMonotone
<1>17. UpTo(ReadUpTo)' = UpTo(r)
  <2>1. UpTo(ReadUpTo)' = IF ReadUpTo' < 1 THEN 0 ELSE blocks'[ReadUpTo'].upTo
    BY DEF UpTo
  <2> QED BY <1>3, <1>4, <1>16, <2>1 DEF UpTo
<1>18. NothingMissing'
  <2>1. \A p \in 1 .. UpTo(r) : \E q \in DOMAIN logs : logs[q].commitmentHash = commitments'[p]
    BY <1>1, <1>3, <1>4, <1>15, <1>16 DEF NothingMissing
  <2> QED BY <1>5, <1>17, <2>1 DEF NothingMissing
<1>19. LogsExact'
  <2> SUFFICES ASSUME torn' = 0, DiscardedOnce'
               PROVE  /\ Len(logs') = UpTo(ReadUpTo)'
                      /\ \A p \in DOMAIN logs' :
                           /\ logs'[p].commitmentHash = commitments'[p]
                           /\ logs'[p].discarded =
                                (commitments'[p] \in Discards(1, blockIndex - 1)')
    BY DEF LogsExact
  <2>1. DiscardedOnce
    <3>1. \A x : x \in Discards(1, Height) => x \in Discards(1, Height)'
      <4>1. \A i \in {j \in 1 .. H : j >= 1} : i \in {j \in 1 .. H + 1 : j >= 1} /\ blocks'[i] = blocks[i]
        BY <1>3, <1>4
      <4> QED BY <1>2, <1>3, <4>1 DEF Discards
    <3>2. DOMAIN commitments = 1 .. L /\ DOMAIN commitments' = 1 .. L + Len(executed)
      BY <1>1, <1>2, <1>3 DEF CacheTypeOK
    <3>3. ASSUME NEW p \in 1 .. L, NEW q \in 1 .. L,
                 commitments[p] = commitments[q], commitments[p] \in Discards(1, Height)
          PROVE  p = q
      <4>1. commitments'[p] = commitments'[q] /\ commitments'[p] \in Discards(1, Height)'
        BY <1>3, <3>1, <3>3
      <4>2. p \in DOMAIN commitments' /\ q \in DOMAIN commitments'
        BY <1>4, <3>2
      <4> QED BY <4>1, <4>2 DEF DiscardedOnce
    <3> QED BY <3>2, <3>3 DEF DiscardedOnce
  <2>2. /\ Len(logs) = UpTo(r)
        /\ \A p \in DOMAIN logs :
             /\ logs[p].commitmentHash = commitments[p]
             /\ logs[p].discarded = (commitments[p] \in Discards(1, blockIndex - 1))
    BY <1>1, <1>5, <1>15, <2>1 DEF LogsExact
  <2>3. DOMAIN logs = 1 .. UpTo(r)
    BY <1>1, <2>2 DEF CacheTypeOK
  <2>4. \A p \in DOMAIN logs : commitments'[p] = commitments[p]
    BY <1>3, <1>4, <1>16, <2>3
  <2>5. Discards(1, blockIndex - 1)' = Discards(1, blockIndex - 1)
    <3>1. blockIndex - 1 <= H /\ blockIndex \in Nat
      BY <1>1, <1>2, <1>4, TypeParts DEF CacheTyped
    <3>2. \A i \in {j \in 1 .. blockIndex - 1 : j >= 1} : blocks'[i] = blocks[i]
      BY <1>3, <1>4, <3>1
    <3> QED BY <1>5, <3>2 DEF Discards
  <2> QED BY <1>5, <1>17, <2>2, <2>4, <2>5
<1> QED BY <1>12, <1>13, <1>14, <1>18, <1>19 DEF CacheInv

-----------------------------------------------------------------------------
(* The steps of the call that holds the lock                               *)

LEMMA HolderInv ==
  ASSUME CacheInv, UNCHANGED blockVars, CacheTyped', LockTypeOK', LockSound', NothingMissing',
         LogsExact'
  PROVE  CacheInv'
<1>1. ChainTypeOK' /\ ChainSound'
  BY SameChain, TypeParts DEF CacheInv, ChainTypeOK, blockVars
<1> QED BY <1>1 DEF CacheInv, CacheTypeOK, ChainTypeOK, CacheTyped, LockTypeOK

\* A step that leaves the logs alone.
LEMMA SameLogs ==
  ASSUME CacheInv, UNCHANGED <<blockVars, logs, blockIndex>>, ReadUpTo' <= ReadUpTo, ReadUpTo' \in Int,
         torn' = 0 => torn = 0 /\ ReadUpTo' = ReadUpTo
  PROVE  NothingMissing' /\ LogsExact'
<1>1. CacheTypeOK /\ ChainSound /\ NothingMissing /\ LogsExact
  BY DEF CacheInv
<1>2. PICK r, k : r = ReadUpTo /\ k = ReadUpTo'
  OBVIOUS
<1>3. r \in Int /\ r <= Height /\ k \in Int /\ k <= r
  BY <1>1, <1>2, TypeParts, ChainTyped DEF ReadUpTo, CacheTyped
<1>4. UpTo(k) \in Nat /\ UpTo(r) \in Nat /\ UpTo(k) <= UpTo(r)
  BY <1>1, <1>3, ChainTyped, UpToTyped, UpToMonotone
<1>5. UpTo(ReadUpTo)' = UpTo(k) /\ commitments' = commitments /\ logs' = logs
  BY <1>2 DEF UpTo, blockVars
<1>6. \A from, to : Discards(from, to)' = Discards(from, to)
  BY SameChain
<1>7. NothingMissing'
  <2>1. \A p \in 1 .. UpTo(k) : \E q \in DOMAIN logs : logs[q].commitmentHash = commitments[p]
    BY <1>1, <1>2, <1>4 DEF NothingMissing
  <2> QED BY <1>5, <2>1 DEF NothingMissing
<1>8. LogsExact'
  <2>1. torn' = 0 => torn = 0 /\ k = r
    BY <1>2
  <2>2. torn = 0 /\ DiscardedOnce =>
          /\ Len(logs) = UpTo(r)
          /\ \A p \in DOMAIN logs :
               /\ logs[p].commitmentHash = commitments[p]
               /\ logs[p].discarded = (commitments[p] \in Discards(1, blockIndex - 1))
    BY <1>1, <1>2 DEF LogsExact
  <2>3. Discards(1, blockIndex - 1)' = Discards(1, blockIndex - 1)
    BY DEF Discards, blockVars
  <2>4. DiscardedOnce' => DiscardedOnce
    BY SameChain
  <2> QED BY <1>5, <2>1, <2>2, <2>3, <2>4 DEF LogsExact
<1> QED BY <1>7, <1>8

\* What the holder reads is no older than what it was promised.
LEMMA HeightsPromised ==
  ASSUME CacheTypeOK, LockSound, queue # <<>>, NEW h \in Heights
  PROVE  h \in 0 .. Height /\ since[Head(queue)] \in 0 .. h
<1>1. h \in Height - MaxLag .. Height /\ h >= 0 /\ Height \in Nat /\ MaxLag \in Nat
  BY ChainTyped, CacheSizes DEF Heights
<1>2. Head(queue) \in Caller
  BY FrontOfQueue, TypeParts
<1>3. since[Head(queue)] \in 0 .. Height
  BY <1>2, TypeParts DEF LockTypeOK
<1>4. since[Head(queue)] = 0 \/ since[Head(queue)] <= Height - MaxLag
  BY <1>2 DEF LockSound
<1> QED BY <1>1, <1>3, <1>4

LEMMA CheckPhantomInv ==
  ASSUME CacheInv, NEW h \in Heights, CheckPhantom(h)
  PROVE  CacheInv'
<1>1. CacheTypeOK /\ LockSound /\ CacheTyped /\ LockTypeOK
  BY TypeParts DEF CacheInv
<1>2. /\ queue # <<>> /\ request = "phantom" /\ UNCHANGED <<blockVars, blockIndex, logs, torn>>
      /\ Height' = Height
  BY SameChain DEF CheckPhantom, Waits
<1>3. CASE Return("ok") /\ isPhantom' = isPhantom
  <2>1. LockTypeOK' /\ LockSound' /\ request' = "phantom"
    BY <1>1, <1>2, <1>3, ReturnInv
  <2>2. CacheTyped'
    BY <1>1, <1>2, <1>3, <2>1 DEF CacheTyped
  <2>3. ReadUpTo' = ReadUpTo /\ ReadUpTo \in Int
    BY <1>1, <1>2, <2>1, ChainTyped DEF ReadUpTo, CacheTyped
  <2>4. NothingMissing' /\ LogsExact'
    BY <1>2, <2>3, SameLogs
  <2> QED BY <1>2, <2>1, <2>2, <2>4, HolderInv
<1>4. CASE isPhantom' = FALSE /\ request' = "latest" /\ UNCHANGED <<queue, latest, call, since>>
  <2>1. LockTypeOK' /\ LockSound'
    BY <1>1, <1>2, <1>4 DEF LockTypeOK, LockSound, ToSet, IsInjective
  <2>2. CacheTyped'
    BY <1>1, <1>2, <1>4 DEF CacheTyped, Request
  <2>3. ReadUpTo' = ReadUpTo /\ ReadUpTo \in Int
    BY <1>1, <1>2, <1>4, ChainTyped DEF ReadUpTo, CacheTyped
  <2>4. NothingMissing' /\ LogsExact'
    BY <1>2, <2>3, SameLogs
  <2> QED BY <1>2, <2>1, <2>2, <2>4, HolderInv
<1> QED BY <1>3, <1>4 DEF CheckPhantom

LEMMA ReadLatestInv ==
  ASSUME CacheInv, NEW h \in Heights, ReadLatest(h)
  PROVE  CacheInv'
<1>1. CacheTypeOK /\ LockSound /\ CacheTyped /\ LockTypeOK
  BY TypeParts DEF CacheInv
<1>2. /\ queue # <<>> /\ request = "latest"
      /\ UNCHANGED <<blockVars, isPhantom, blockIndex, logs, torn>> /\ Height' = Height
  BY SameChain DEF ReadLatest, Waits, cacheVars
<1>3. CASE Return("ok")
  <2>1. LockTypeOK' /\ LockSound' /\ request' = "phantom"
    BY <1>1, <1>2, <1>3, ReturnInv
  <2>2. CacheTyped'
    BY <1>1, <1>2, <2>1 DEF CacheTyped, Request
  <2>3. ReadUpTo' = ReadUpTo /\ ReadUpTo \in Int
    BY <1>1, <1>2, <2>1, ChainTyped DEF ReadUpTo, CacheTyped
  <2>4. NothingMissing' /\ LogsExact'
    BY <1>2, <2>3, SameLogs
  <2> QED BY <1>2, <2>1, <2>2, <2>4, HolderInv
<1>4. CASE /\ ~ UpToDate(h) /\ latest' = h /\ request' = "executions"
           /\ UNCHANGED <<queue, call, since>>
  <2>1. h \in 0 .. Height /\ since[Head(queue)] \in 0 .. h /\ Height \in Nat
    BY <1>1, <1>2, HeightsPromised, ChainTyped
  <2>2. LockTypeOK' /\ LockSound'
    BY <1>1, <1>2, <1>4, <2>1 DEF LockTypeOK, LockSound, ToSet, IsInjective
  <2>3. CacheTyped'
    BY <1>1, <1>2, <1>4, <2>1 DEF CacheTyped, Request, UpToDate
  <2>4. ReadUpTo' = ReadUpTo /\ ReadUpTo \in Int
    BY <1>1, <1>2, <1>4, ChainTyped DEF ReadUpTo, CacheTyped
  <2>5. NothingMissing' /\ LogsExact'
    BY <1>2, <2>4, SameLogs
  <2> QED BY <1>2, <2>2, <2>3, <2>5, HolderInv
<1> QED BY <1>3, <1>4 DEF ReadLatest

LEMMA CallFailsInv ==
  ASSUME CacheInv, CallFails
  PROVE  CacheInv'
<1>1. CacheTypeOK /\ LockSound /\ CacheTyped /\ LockTypeOK
  BY TypeParts DEF CacheInv
<1>2. /\ queue # <<>> /\ Return("failed")
      /\ UNCHANGED <<blockVars, isPhantom, blockIndex, logs>> /\ Height' = Height
  BY SameChain DEF CallFails, Waits, cacheVars
<1>3. IF request = "discards" THEN torn < MaxTorn /\ torn' = torn + 1 ELSE torn' = torn
  BY DEF CallFails
<1>4. LockTypeOK' /\ LockSound' /\ request' = "phantom"
  BY <1>1, <1>2, ReturnInv
<1>5. torn \in Nat /\ torn' \in 0 .. MaxTorn /\ MaxTorn \in Nat
  BY <1>1, <1>3, CacheSizes DEF CacheTyped
<1>6. CacheTyped'
  BY <1>1, <1>2, <1>4, <1>5 DEF CacheTyped, Request
<1>7. /\ ReadUpTo' = blockIndex - 1 /\ ReadUpTo' \in Int /\ ReadUpTo' <= ReadUpTo
      /\ torn' = 0 => torn = 0 /\ ReadUpTo' = ReadUpTo
  BY <1>1, <1>2, <1>3, <1>4, <1>5, ChainTyped DEF ReadUpTo, CacheTyped
<1>8. NothingMissing' /\ LogsExact'
  BY <1>2, <1>7, SameLogs
<1> QED BY <1>2, <1>4, <1>6, <1>8, HolderInv

\* What was discarded up to a block was inserted before its end.
LEMMA DiscardedEarlier ==
  ASSUME CacheTypeOK, ChainSound, NEW h \in Int, h <= Height, NEW c \in Discards(1, h)
  PROVE  \E p \in 1 .. UpTo(h) : commitments[p] = c
<1>1. PICK i \in 1 .. h : c \in blocks[i].discarded
  BY DEF Discards
<1>2. Height \in Nat /\ i \in 1 .. Height
  BY ChainTyped
<1>3. PICK p \in 1 .. UpTo(i - 1) : commitments[p] = c
  BY <1>1, <1>2 DEF ChainSound
<1>4. UpTo(i - 1) \in Nat /\ UpTo(h) \in Nat /\ UpTo(i - 1) <= UpTo(h)
  BY <1>2, UpToTyped, UpToMonotone
<1> QED BY <1>3, <1>4

LEMMA QueryExecutionsInv ==
  ASSUME CacheInv, QueryExecutions
  PROVE  CacheInv'
<1>1. /\ CacheTypeOK /\ ChainSound /\ LockSound /\ NothingMissing /\ LogsExact
      /\ CacheTyped /\ LockTypeOK
  BY TypeParts DEF CacheInv
<1>2. /\ queue # <<>> /\ request = "executions" /\ request' = "discards"
      /\ logs' = logs \o LogsOf(Executions(blockIndex, latest))
      /\ UNCHANGED <<blockVars, isPhantom, blockIndex, queue, latest, torn, call, since>>
      /\ Height' = Height
  BY SameChain DEF QueryExecutions, Waits
<1>3. /\ blockIndex \in Nat /\ latest \in Nat /\ blockIndex - 1 <= latest /\ latest <= Height
      /\ Height \in Nat /\ blockIndex - 1 <= Height
  BY <1>1, <1>2, ChainTyped DEF CacheTyped
<1>4. PICK m, n, es : m = UpTo(blockIndex - 1) /\ n = UpTo(latest)
                      /\ es = Executions(blockIndex, latest)
  OBVIOUS
<1>5. m \in Nat /\ n \in Nat /\ m <= n /\ n <= Len(commitments)
  BY <1>1, <1>3, <1>4, UpToTyped, UpToMonotone
<1>6. es \in Seq(Commitment) /\ Len(es) = n - m /\ \A p \in 1 .. n - m : es[p] = commitments[m + p]
  <2>1. blockIndex \in Int /\ latest \in Int
    BY <1>3
  <2>2. /\ Executions(blockIndex, latest) \in Seq(Commitment)
        /\ Len(Executions(blockIndex, latest)) = UpTo(latest) - UpTo(blockIndex - 1)
        /\ \A p \in 1 .. UpTo(latest) - UpTo(blockIndex - 1) :
             Executions(blockIndex, latest)[p] = commitments[UpTo(blockIndex - 1) + p]
    BY <1>1, <1>3, <2>1, ExecutionsRead
  <2> QED BY <1>4, <2>2
<1>7. PICK new : new = LogsOf(es)
  OBVIOUS
<1>8. /\ new \in Seq(CachedLog) /\ Len(new) = n - m
      /\ \A p \in 1 .. n - m : new[p].commitmentHash = commitments[m + p] /\ new[p].discarded = FALSE
  BY <1>6, <1>7, LogsOfTyped
<1>9. PICK l : l = Len(logs)
  OBVIOUS
<1>10. logs \in Seq(CachedLog) /\ l \in Nat /\ DOMAIN logs = 1 .. l
  BY <1>1, <1>9 DEF CacheTyped
<1>11. /\ logs' \in Seq(CachedLog) /\ Len(logs') = l + (n - m) /\ DOMAIN logs' = 1 .. l + (n - m)
       /\ \A p \in 1 .. l : logs'[p] = logs[p]
       /\ \A k \in 1 .. n - m : logs'[l + k] = new[k]
  <2>1. logs' = logs \o new
    BY <1>2, <1>4, <1>7
  <2>2. logs' \in Seq(CachedLog) /\ Len(logs') = l + (n - m)
    <3>1. logs \o new \in Seq(CachedLog) /\ Len(logs \o new) = Len(logs) + Len(new)
      BY <1>8, <1>10
    <3> QED BY <1>8, <1>9, <2>1, <3>1
  <2>3. \A p \in 1 .. l : logs'[p] = logs[p]
    BY <1>5, <1>8, <1>9, <1>10, <2>1
  <2>4. ASSUME NEW k \in 1 .. n - m PROVE logs'[l + k] = new[k]
    <3>1. l + k \in 1 .. Len(logs) + Len(new) /\ l + k > Len(logs) /\ (l + k) - Len(logs) = k
      BY <1>5, <1>8, <1>9, <1>10
    <3> QED BY <1>8, <1>10, <2>1, <3>1
  <2> QED BY <2>2, <2>3, <2>4
<1>12. LockTypeOK' /\ LockSound'
  BY <1>1, <1>2 DEF LockTypeOK, LockSound, ToSet, IsInjective
<1>13. CacheTyped'
  BY <1>1, <1>2, <1>11 DEF CacheTyped, Request
<1>14. ReadUpTo = blockIndex - 1 /\ ReadUpTo' = latest
  BY <1>2 DEF ReadUpTo
<1>15. UpTo(ReadUpTo)' = n
  <2>1. UpTo(ReadUpTo)' = IF latest < 1 THEN 0 ELSE blocks[latest].upTo
    BY <1>2, <1>14 DEF UpTo, blockVars
  <2> QED BY <1>4, <2>1 DEF UpTo
<1>16. NothingMissing'
  <2>1. ASSUME NEW p \in 1 .. n
        PROVE  \E q \in 1 .. l + (n - m) : logs'[q].commitmentHash = commitments[p]
    <3>1. CASE p <= m
      <4>1. PICK q \in DOMAIN logs : logs[q].commitmentHash = commitments[p]
        BY <1>1, <1>4, <1>5, <1>14, <3>1 DEF NothingMissing
      <4>2. q \in 1 .. l + (n - m)
        BY <1>5, <1>10
      <4> QED BY <1>10, <1>11, <4>1, <4>2
    <3>2. CASE p > m
      <4>1. p - m \in 1 .. n - m /\ m + (p - m) = p /\ l + (p - m) \in 1 .. l + (n - m)
        BY <1>5, <1>10, <3>2
      <4> QED BY <1>8, <1>11, <4>1
    <3> QED BY <1>5, <3>1, <3>2
  <2>2. commitments' = commitments
    BY <1>2 DEF blockVars
  <2> QED BY <1>11, <1>15, <2>1, <2>2 DEF NothingMissing
<1>17. LogsExact'
  <2>1. commitments' = commitments /\ torn' = torn
        /\ Discards(1, blockIndex - 1)' = Discards(1, blockIndex - 1)
    BY <1>2 DEF blockVars, Discards
  <2>2. SUFFICES ASSUME torn = 0, DiscardedOnce
                 PROVE  /\ Len(logs') = n
                        /\ \A p \in DOMAIN logs' :
                             /\ logs'[p].commitmentHash = commitments[p]
                             /\ logs'[p].discarded =
                                  (commitments[p] \in Discards(1, blockIndex - 1))
    BY <1>2, <1>15, <2>1, SameChain DEF LogsExact
  <2>3. /\ l = m
        /\ \A p \in 1 .. m :
             /\ logs[p].commitmentHash = commitments[p]
             /\ logs[p].discarded = (commitments[p] \in Discards(1, blockIndex - 1))
    BY <1>1, <1>4, <1>9, <1>10, <1>14, <2>2 DEF LogsExact
  <2>4. Len(logs') = n /\ DOMAIN logs' = 1 .. n
    BY <1>5, <1>11, <2>3
  <2>5. ASSUME NEW p \in 1 .. n
        PROVE  /\ logs'[p].commitmentHash = commitments[p]
               /\ logs'[p].discarded = (commitments[p] \in Discards(1, blockIndex - 1))
    <3>1. CASE p <= m
      BY <1>5, <1>11, <2>3, <3>1
    <3>2. CASE p > m
      <4>1. p - m \in 1 .. n - m /\ m + (p - m) = p
        BY <1>5, <3>2
      <4>2. logs'[p].commitmentHash = commitments[p] /\ logs'[p].discarded = FALSE
        BY <1>8, <1>11, <2>3, <4>1
      <4>3. ASSUME commitments[p] \in Discards(1, blockIndex - 1) PROVE FALSE
        <5>1. PICK q \in 1 .. m : commitments[q] = commitments[p]
          BY <1>1, <1>3, <1>4, <4>3, DiscardedEarlier
        <5>2. q \in DOMAIN commitments /\ p \in DOMAIN commitments
          BY <1>1, <1>5 DEF CacheTypeOK
        <5>3. Discards(1, blockIndex - 1) \subseteq Discards(1, Height)
          BY <1>3 DEF Discards
        <5>4. q = p
          BY <2>2, <4>3, <5>1, <5>2, <5>3 DEF DiscardedOnce
        <5> QED BY <1>5, <3>2, <5>4
      <4>4. (commitments[p] \in Discards(1, blockIndex - 1)) = FALSE
        BY <4>3
      <4> QED BY <4>2, <4>4
    <3> QED BY <1>5, <3>1, <3>2
  <2> QED BY <2>4, <2>5
<1> QED BY <1>2, <1>12, <1>13, <1>16, <1>17, HolderInv

LEMMA QueryDiscardsInv ==
  ASSUME CacheInv, QueryDiscards
  PROVE  CacheInv'
<1>1. /\ CacheTypeOK /\ ChainSound /\ LockSound /\ NothingMissing /\ LogsExact
      /\ CacheTyped /\ LockTypeOK
  BY TypeParts DEF CacheInv
<1>2. /\ queue # <<>> /\ request = "discards" /\ Return("ok")
      /\ logs' = Mark(logs, Discards(blockIndex, latest)) /\ blockIndex' = latest + 1
      /\ UNCHANGED <<blockVars, isPhantom, torn>> /\ Height' = Height
  BY SameChain DEF QueryDiscards, Waits, NextBlock
<1>3. LockTypeOK' /\ LockSound' /\ request' = "phantom"
  BY <1>1, <1>2, ReturnInv
<1>4. /\ blockIndex \in Nat /\ latest \in Nat /\ blockIndex <= latest /\ latest <= Height
      /\ Height \in Nat
  BY <1>1, <1>2, ChainTyped DEF CacheTyped
<1>5. PICK gone : gone = Discards(blockIndex, latest)
  OBVIOUS
<1>6. /\ logs \in Seq(CachedLog) /\ DOMAIN logs = 1 .. Len(logs) /\ Len(logs) \in Nat
      /\ logs' \in Seq(CachedLog) /\ Len(logs') = Len(logs) /\ DOMAIN logs' = 1 .. Len(logs)
      /\ \A p \in 1 .. Len(logs) : logs'[p].commitmentHash = logs[p].commitmentHash
  <2>1. logs \in Seq(CachedLog) /\ logs' = Mark(logs, gone)
    BY <1>1, <1>2, <1>5 DEF CacheTyped
  <2>2. /\ Mark(logs, gone) \in Seq(CachedLog) /\ Len(Mark(logs, gone)) = Len(logs)
        /\ \A p \in 1 .. Len(logs) :
             Mark(logs, gone)[p].commitmentHash = logs[p].commitmentHash
    BY <2>1, MarkTyped
  <2>3. logs' \in Seq(CachedLog) /\ Len(logs') = Len(logs)
    BY <2>1, <2>2
  <2> QED BY <2>1, <2>2, <2>3
<1>7. CacheTyped'
  BY <1>1, <1>2, <1>3, <1>4, <1>6 DEF CacheTyped, Request
<1>8. ReadUpTo = latest /\ ReadUpTo' = latest
  BY <1>2, <1>3, <1>4 DEF ReadUpTo
<1>9. UpTo(ReadUpTo)' = UpTo(latest)
  BY <1>2, <1>8 DEF UpTo, blockVars
<1>10. NothingMissing'
  <2>1. commitments' = commitments
    BY <1>2 DEF blockVars
  <2>2. \A p \in 1 .. UpTo(latest) :
          \E q \in DOMAIN logs' : logs'[q].commitmentHash = commitments'[p]
    BY <1>1, <1>6, <1>8, <2>1 DEF NothingMissing
  <2> QED BY <1>9, <2>2 DEF NothingMissing
<1>11. LogsExact'
  <2>1. commitments' = commitments /\ torn' = torn
    BY <1>2 DEF blockVars
  <2>2. Discards(1, blockIndex - 1)' = Discards(1, latest)
    BY <1>2, <1>4 DEF blockVars, Discards
  <2>3. SUFFICES ASSUME torn = 0, DiscardedOnce
                 PROVE  /\ Len(logs') = UpTo(latest)
                        /\ \A p \in DOMAIN logs' :
                             /\ logs'[p].commitmentHash = commitments[p]
                             /\ logs'[p].discarded = (commitments[p] \in Discards(1, latest))
    BY <1>2, <1>9, <2>1, <2>2, SameChain DEF LogsExact
  <2>4. /\ Len(logs) = UpTo(latest)
        /\ \A p \in 1 .. Len(logs) :
             /\ logs[p].commitmentHash = commitments[p]
             /\ logs[p].discarded = (commitments[p] \in Discards(1, blockIndex - 1))
    BY <1>1, <1>6, <1>8, <2>3 DEF LogsExact
  <2>5. UpTo(latest) <= Len(commitments) /\ Len(commitments) \in Nat
        /\ DOMAIN commitments = 1 .. Len(commitments)
    BY <1>1, <1>4, UpToMonotone DEF CacheTypeOK
  <2>6. gone \subseteq Discards(1, Height)
    BY <1>4, <1>5 DEF Discards
  <2>7. \A p, q \in 1 .. Len(logs) :
          logs[p].commitmentHash \in gone /\ logs[q].commitmentHash = logs[p].commitmentHash => q = p
    <3>1. \A q \in 1 .. Len(logs) : q \in DOMAIN commitments
      BY <1>6, <2>4, <2>5
    <3> QED BY <2>3, <2>4, <2>6, <3>1 DEF DiscardedOnce
  <2>8. Discards(1, latest) = Discards(1, blockIndex - 1) \cup gone
    BY <1>4, <1>5, DiscardsSplit
  <2>9. ASSUME NEW p \in 1 .. Len(logs)
        PROVE  /\ logs'[p].commitmentHash = commitments[p]
               /\ logs'[p].discarded = (commitments[p] \in Discards(1, latest))
    <3>1. /\ logs[p].commitmentHash \in gone => Mark(logs, gone)[p].discarded = TRUE
          /\ logs[p].commitmentHash \notin gone =>
               Mark(logs, gone)[p].discarded = logs[p].discarded
      BY <1>6, <2>7, MarkAll
    <3>2. /\ commitments[p] \in gone => logs'[p].discarded = TRUE
          /\ commitments[p] \notin gone => logs'[p].discarded = logs[p].discarded
      BY <1>2, <1>5, <2>4, <3>1
    <3>3. logs'[p].commitmentHash = commitments[p]
      BY <1>6, <2>4
    <3>4. logs[p].discarded = (commitments[p] \in Discards(1, blockIndex - 1))
      BY <2>4
    <3>5. CASE commitments[p] \in gone
      <4>1. (commitments[p] \in Discards(1, latest)) = TRUE
        BY <2>8, <3>5
      <4> QED BY <3>2, <3>3, <3>5, <4>1
    <3>6. CASE commitments[p] \notin gone
      <4>1. (commitments[p] \in Discards(1, latest)) =
              (commitments[p] \in Discards(1, blockIndex - 1))
        BY <2>8, <3>6
      <4> QED BY <3>2, <3>3, <3>4, <3>6, <4>1
    <3> QED BY <3>5, <3>6
  <2> QED BY <1>6, <2>4, <2>9
<1> QED BY <1>2, <1>3, <1>7, <1>10, <1>11, HolderInv

-----------------------------------------------------------------------------
(* The invariant                                                           *)

LEMMA InitInv == CacheInit => CacheInv
<1> SUFFICES ASSUME CacheInit PROVE CacheInv
  OBVIOUS
<1>1. /\ commitments = <<>> /\ blocks = <<>> /\ deployedAt = 0
      /\ isPhantom = TRUE /\ blockIndex = 0 /\ logs = <<>>
      /\ queue = <<>> /\ request = "phantom" /\ latest = 0 /\ torn = 0
      /\ call = [c \in Caller |-> "idle"] /\ since = [c \in Caller |-> 0]
  BY DEF CacheInit
<1>2. Height = 0 /\ UpTo(0) = 0 /\ UpTo(-1) = 0
  BY <1>1 DEF Height, UpTo
<1>3. CacheTypeOK
  <2>1. ChainTypeOK /\ CacheTyped
    BY <1>1, <1>2, CacheSizes DEF ChainTypeOK, CacheTyped, Request
  <2>2. DOMAIN queue = {}
    BY <1>1
  <2>3. LockTypeOK
    BY <1>1, <1>2, <2>2 DEF LockTypeOK, IsInjective, ToSet
  <2> QED BY <2>1, <2>3, TypeParts
<1>4. ChainSound
  BY <1>1, <1>2 DEF ChainSound
<1>5. LockSound
  BY <1>1 DEF LockSound
<1>6. ReadUpTo = -1 /\ DOMAIN logs = {} /\ Len(logs) = 0
  BY <1>1 DEF ReadUpTo
<1>7. NothingMissing /\ LogsExact
  BY <1>2, <1>6 DEF NothingMissing, LogsExact
<1> QED BY <1>3, <1>4, <1>5, <1>7 DEF CacheInv

LEMMA StutterInv ==
  ASSUME CacheInv, UNCHANGED eventVars
  PROVE  CacheInv'
<1>1. UNCHANGED <<blockVars, isPhantom, blockIndex, logs, queue, request, latest, torn, call, since>>
      /\ Height' = Height
  BY SameChain DEF eventVars, cacheVars
<1>2. CacheTypeOK /\ CacheTyped /\ LockTypeOK /\ LockSound
  BY TypeParts DEF CacheInv
<1>3. CacheTyped' /\ LockTypeOK' /\ LockSound'
  BY <1>1, <1>2 DEF CacheTyped, LockTypeOK, LockSound, IsInjective, ToSet
<1>4. ReadUpTo' = ReadUpTo /\ ReadUpTo \in Int
  BY <1>1, <1>2, ChainTyped DEF ReadUpTo, CacheTyped
<1>5. NothingMissing' /\ LogsExact'
  BY <1>1, <1>4, SameLogs
<1> QED BY <1>1, <1>3, <1>5, HolderInv

LEMMA NextInv == CacheInv /\ [CacheNext]_eventVars => CacheInv'
<1> SUFFICES ASSUME CacheInv, [CacheNext]_eventVars PROVE CacheInv'
  OBVIOUS
<1>1. ASSUME NEW executed \in BoundedSeq(Commitment, MaxExecutions),
             NEW discarded \in SUBSET Commitment, NewBlock(executed, discarded)
      PROVE  CacheInv'
  BY <1>1, MineInv
<1>2. ASSUME NEW c \in Caller, Call(c) PROVE CacheInv'
  BY <1>2, CallInv
<1>3. CASE HolderStep
  BY <1>3, CheckPhantomInv, ReadLatestInv, QueryExecutionsInv, QueryDiscardsInv, CallFailsInv
     DEF HolderStep
<1>4. CASE UNCHANGED eventVars
  BY <1>4, StutterInv
<1> QED BY <1>1, <1>2, <1>3, <1>4 DEF CacheNext

LEMMA InvHolds == CacheSpec => []CacheInv
<1> QED BY InitInv, NextInv, PTL DEF CacheSpec

\* Type correctness of the cache: each waiting call is in the lock once and no
\* query asks for an empty range (getData, ZkTeamCore.ts:174-219).
THEOREM TypeCorrect == CacheSpec => []CacheTypeOK
<1>1. CacheInv => CacheTypeOK
  BY DEF CacheInv
<1> QED BY <1>1, InvHolds, PTL

LEMMA ExactInv == CacheInv => CacheExact
<1> SUFFICES ASSUME CacheInv, request # "discards", torn = 0, DiscardedOnce
             PROVE  logs = FreshLogs(blockIndex - 1)
  BY DEF CacheExact
<1>1. CacheTypeOK /\ ChainSound /\ LogsExact /\ CacheTyped
  BY TypeParts DEF CacheInv
<1>2. PICK h : h = blockIndex - 1
  OBVIOUS
<1>3. h \in Int /\ h <= Height /\ h >= -1 /\ Height \in Nat
  BY <1>1, <1>2, ChainTyped DEF CacheTyped
<1>4. UpTo(0) = 0
  BY DEF UpTo
<1>5. UpTo(h) \in Nat /\ UpTo(h) <= Len(commitments) /\ Len(commitments) \in Nat
      /\ DOMAIN commitments = 1 .. Len(commitments)
  BY <1>1, <1>3, UpToTyped, UpToMonotone DEF CacheTypeOK
<1>6. PICK es : es = Executions(1, h)
  OBVIOUS
<1>7. es \in Seq(Commitment) /\ Len(es) = UpTo(h) /\ \A p \in 1 .. UpTo(h) : es[p] = commitments[p]
  <2>1. CASE h >= 0
    <3>1. /\ Executions(1, h) \in Seq(Commitment)
          /\ Len(Executions(1, h)) = UpTo(h) - UpTo(1 - 1)
          /\ \A p \in 1 .. UpTo(h) - UpTo(1 - 1) :
               Executions(1, h)[p] = commitments[UpTo(1 - 1) + p]
      BY <1>1, <1>3, <2>1, ExecutionsRead
    <3>2. 1 - 1 = 0
      OBVIOUS
    <3> QED BY <1>4, <1>5, <1>6, <3>1, <3>2
  <2>2. CASE h = -1
    <3>1. UpTo(h) = 0 /\ UpTo(1 - 1) = 0
      BY <2>2 DEF UpTo
    <3>2. es = SubSeq(commitments, 1, 0) /\ commitments \in Seq(Commitment)
      BY <1>1, <1>6, <3>1 DEF Executions, CacheTypeOK
    <3>3. es \in Seq(Commitment) /\ Len(es) = 0
      BY <3>2
    <3> QED BY <3>1, <3>3
  <2> QED BY <1>3, <2>1, <2>2
<1>8. PICK ls, gone : ls = LogsOf(es) /\ gone = Discards(1, h)
  OBVIOUS
<1>9. /\ ls \in Seq(CachedLog) /\ Len(ls) = UpTo(h)
      /\ \A p \in 1 .. UpTo(h) : ls[p].commitmentHash = commitments[p] /\ ls[p].discarded = FALSE
  BY <1>7, <1>8, LogsOfTyped
<1>10. PICK ms : ms = Mark(ls, gone)
  OBVIOUS
<1>11. /\ ms \in Seq(CachedLog) /\ Len(ms) = UpTo(h)
       /\ \A p \in 1 .. UpTo(h) : ms[p].commitmentHash = commitments[p]
  BY <1>9, <1>10, MarkTyped
<1>12. gone \subseteq Discards(1, Height)
  BY <1>3, <1>8 DEF Discards
<1>13. \A p, q \in 1 .. Len(ls) :
         ls[p].commitmentHash \in gone /\ ls[q].commitmentHash = ls[p].commitmentHash => q = p
  <2>1. \A q \in 1 .. Len(ls) : q \in DOMAIN commitments /\ ls[q].commitmentHash = commitments[q]
    BY <1>5, <1>9
  <2> QED BY <1>12, <2>1 DEF DiscardedOnce
<1>14. /\ logs \in Seq(CachedLog) /\ Len(logs) = UpTo(h)
       /\ \A p \in 1 .. UpTo(h) :
            /\ logs[p].commitmentHash = commitments[p]
            /\ logs[p].discarded = (commitments[p] \in gone)
  <2>1. ReadUpTo = h
    BY <1>2 DEF ReadUpTo
  <2>2. logs \in Seq(CachedLog) /\ Len(logs) = UpTo(h) /\ DOMAIN logs = 1 .. Len(logs)
    BY <1>1, <2>1 DEF LogsExact, CacheTyped
  <2> QED BY <1>1, <1>2, <1>8, <2>2 DEF LogsExact
<1>15. \A p \in 1 .. UpTo(h) : ms[p].discarded = logs[p].discarded
  <2> TAKE p \in 1 .. UpTo(h)
  <2>1. /\ ls[p].commitmentHash \in gone => ms[p].discarded = TRUE
        /\ ls[p].commitmentHash \notin gone => ms[p].discarded = ls[p].discarded
    BY <1>9, <1>10, <1>13, MarkAll
  <2>2. CASE commitments[p] \in gone
    BY <1>9, <1>14, <2>1, <2>2
  <2>3. CASE commitments[p] \notin gone
    <3>1. (commitments[p] \in gone) = FALSE
      BY <2>3
    <3> QED BY <1>9, <1>14, <2>1, <2>3, <3>1
  <2> QED BY <2>2, <2>3
<1>16. \A p \in 1 .. UpTo(h) : ms[p] = logs[p]
  <2>1. \A p \in 1 .. UpTo(h) : ms[p] \in CachedLog /\ logs[p] \in CachedLog
    BY <1>11, <1>14
  <2> QED BY <1>11, <1>14, <1>15, <2>1 DEF CachedLog
<1>17. ms = logs
  BY <1>11, <1>14, <1>16
<1> QED BY <1>2, <1>6, <1>8, <1>10, <1>17 DEF FreshLogs

\* As long as no call failed between its two queries and no discarded commitment
\* came twice, the cache is what one read of the same blocks gives, however they
\* were cut into calls (getData, ZkTeamCore.ts:180-217).
THEOREM CacheIsExact == CacheSpec => []CacheExact
<1> QED BY ExactInv, InvHolds, PTL

-----------------------------------------------------------------------------
(* What a call sees                                                        *)

\* All that is in the logs was read up to block r.
LEMMA SeenUpTo ==
  ASSUME CacheTypeOK, ChainSound, NothingMissing, NEW n \in Nat, n <= ReadUpTo, ReadUpTo <= Height,
         ReadUpTo \in Int
  PROVE  \A x \in ToSet(Executions(1, n)) : \E q \in DOMAIN logs : logs[q].commitmentHash = x
<1>1. PICK r : r = ReadUpTo
  OBVIOUS
<1>2. UpTo(n) \in Nat /\ UpTo(r) \in Nat /\ UpTo(n) <= UpTo(r) /\ UpTo(1 - 1) = 0
  BY <1>1, ChainTyped, UpToTyped, UpToMonotone DEF UpTo
<1>3. PICK es : es = Executions(1, n)
  OBVIOUS
<1>4. es \in Seq(Commitment) /\ Len(es) = UpTo(n) /\ \A p \in 1 .. UpTo(n) : es[p] = commitments[p]
  <2>1. 1 - 1 <= n /\ n <= Height /\ Height \in Nat
    BY ChainTyped
  <2>2. /\ Executions(1, n) \in Seq(Commitment)
        /\ Len(Executions(1, n)) = UpTo(n) - UpTo(1 - 1)
        /\ \A p \in 1 .. UpTo(n) - UpTo(1 - 1) :
             Executions(1, n)[p] = commitments[UpTo(1 - 1) + p]
    BY <2>1, ExecutionsRead
  <2> QED BY <1>2, <1>3, <2>2
<1>5. DOMAIN es = 1 .. UpTo(n)
  BY <1>4
<1>6. \A p \in 1 .. UpTo(n) : \E q \in DOMAIN logs : logs[q].commitmentHash = commitments[p]
  BY <1>1, <1>2 DEF NothingMissing
<1> QED BY <1>3, <1>4, <1>5, <1>6 DEF ToSet

\* Nothing is before the deployment.
LEMMA NothingBefore ==
  ASSUME CacheTypeOK, ChainSound, NEW n \in Nat, n <= Height, deployedAt = 0 \/ deployedAt > n
  PROVE  UpTo(n) = 0 /\ ToSet(Executions(1, n)) = {}
<1>1. deployedAt \in Nat /\ deployedAt <= Height /\ Height \in Nat
  BY ChainTyped DEF CacheTypeOK
<1>2. UpTo(n) = 0
  <2>1. PICK k \in Int : n <= k /\ k <= Height /\ UpTo(k) = 0
    <3>1. CASE deployedAt = 0
      BY <1>1, <3>1 DEF ChainSound
    <3>2. CASE deployedAt > n
      <4>1. n <= deployedAt - 1 /\ deployedAt - 1 <= Height /\ deployedAt - 1 \in Int
        BY <1>1, <3>2
      <4>2. UpTo(deployedAt - 1) = 0
        BY <1>1, <3>2 DEF ChainSound
      <4> QED BY <4>1, <4>2
    <3> QED BY <3>1, <3>2
  <2>2. UpTo(n) \in Nat /\ UpTo(n) <= UpTo(k)
    BY <1>1, <2>1, UpToTyped, UpToMonotone
  <2> QED BY <2>1, <2>2
<1>3. PICK es : es = Executions(1, n)
  OBVIOUS
<1>4. es = SubSeq(commitments, 1, 0) /\ commitments \in Seq(Commitment)
  BY <1>2, <1>3 DEF Executions, CacheTypeOK, UpTo
<1>5. DOMAIN es = {}
  BY <1>4
<1> QED BY <1>2, <1>3, <1>5 DEF ToSet

-----------------------------------------------------------------------------
(* No discard is lost                                                      *)

\* Marking keeps what is marked.
LEMMA MarkKeeps ==
  ASSUME NEW ls \in Seq(CachedLog), NEW gone, NEW p \in 1 .. Len(ls), ls[p].discarded
  PROVE  Mark(ls, gone)[p].discarded
<1>1. p \in DOMAIN ls /\ ls[p] \in CachedLog
  OBVIOUS
<1>2. Mark(ls, gone)[p] \in {ls[p], [ls[p] EXCEPT !.discarded = TRUE]}
  BY <1>1 DEF Mark
<1>3. [ls[p] EXCEPT !.discarded = TRUE].discarded = TRUE
  BY <1>1 DEF CachedLog
<1> QED BY <1>2, <1>3

LEMMA Least ==
  ASSUME NEW T \in SUBSET Nat, T # {}
  PROVE  \E x \in T : \A y \in T : x <= y
<1> DEFINE R == {ss \in Nat \X Nat : ss[1] < ss[2]}
<1>1. IsWellFoundedOn(R, Nat)
  BY NatLessThanWellFounded DEF OpToRel
<1> HIDE DEF R
<1>2. PICK x \in T : \A y \in T : ~ (<<y, x>> \in R)
  BY <1>1, WFMin
<1>3. \A y \in T : ~ (y < x)
  BY <1>2 DEF R
<1> QED BY <1>3

LEMMA Greatest ==
  ASSUME NEW n \in Nat, NEW T \in SUBSET (0 .. n), T # {}
  PROVE  \E x \in T : \A y \in T : y <= x
<1> DEFINE M == {n - y : y \in T}
<1>1. M \in SUBSET Nat /\ M # {}
  <2>1. \A y \in T : n - y \in Nat
    OBVIOUS
  <2>2. \A k \in M : k \in Nat
    BY <2>1
  <2> QED BY <2>2
<1> HIDE DEF M
<1>2. PICK m \in M : \A k \in M : m <= k
  BY <1>1, Least
<1>3. PICK x \in T : m = n - x
  BY DEF M
<1>4. \A y \in T : m <= n - y
  BY <1>2 DEF M
<1> QED BY <1>3, <1>4

\* The last log with a hash.
LEMMA LastLog ==
  ASSUME NEW ls \in Seq(CachedLog), NEW x, \E q \in DOMAIN ls : ls[q].commitmentHash = x
  PROVE  \E p \in DOMAIN ls :
           /\ ls[p].commitmentHash = x
           /\ \A q \in DOMAIN ls : q > p => ls[q].commitmentHash # x
<1> DEFINE S == {q \in 1 .. Len(ls) : ls[q].commitmentHash = x}
<1>1. DOMAIN ls = 1 .. Len(ls) /\ Len(ls) \in Nat
  OBVIOUS
<1>2. S \in SUBSET (0 .. Len(ls)) /\ S # {}
  BY <1>1
<1>3. PICK p \in S : \A q \in S : q <= p
  <2> HIDE DEF S
  <2> QED BY <1>1, <1>2, Greatest
<1>4. p \in DOMAIN ls /\ ls[p].commitmentHash = x
  BY <1>1, <1>3
<1>5. \A q \in DOMAIN ls : q > p => ls[q].commitmentHash # x
  <2> TAKE q \in DOMAIN ls
  <2>1. ls[q].commitmentHash = x => q <= p
    BY <1>1, <1>3
  <2>2. q \in Int /\ p \in Int
    BY <1>1, <1>4
  <2> QED BY <2>1, <2>2
<1> QED BY <1>4, <1>5

\* Each step keeps the logs that are marked.
LEMMA MarkedStays ==
  ASSUME CacheInv, [CacheNext]_eventVars
  PROVE  \A q \in DOMAIN logs : logs[q].discarded =>
           /\ q \in DOMAIN logs'
           /\ logs'[q].commitmentHash = logs[q].commitmentHash /\ logs'[q].discarded
<1>1. CacheTypeOK /\ ChainSound /\ logs \in Seq(CachedLog) /\ DOMAIN logs = 1 .. Len(logs) /\ Len(logs) \in Nat
  BY DEF CacheInv, CacheTypeOK
<1>2. CASE logs' = logs
  BY <1>2
<1>3. CASE QueryExecutions
  <2>1. blockIndex \in Int /\ latest \in Int /\ blockIndex - 1 <= latest /\ latest <= Height
    BY <1>1, <1>3, ChainTyped DEF QueryExecutions, Waits, CacheTypeOK
  <2>2. PICK es : es = Executions(blockIndex, latest)
    OBVIOUS
  <2>3. es \in Seq(Commitment)
    BY <1>1, <2>1, <2>2, ExecutionsRead
  <2>4. PICK new : new = LogsOf(es)
    OBVIOUS
  <2>5. new \in Seq(CachedLog) /\ logs' = logs \o new
    BY <1>3, <2>2, <2>3, <2>4, LogsOfTyped DEF QueryExecutions
  <2>6. \A q \in DOMAIN logs : q \in DOMAIN logs' /\ logs'[q] = logs[q]
    BY <1>1, <2>5
  <2> QED BY <2>6
<1>4. CASE QueryDiscards
  <2>1. logs' = Mark(logs, Discards(blockIndex, latest))
    BY <1>4 DEF QueryDiscards
  <2>2. DOMAIN logs' = DOMAIN logs
    BY <2>1 DEF Mark
  <2>3. \A q \in 1 .. Len(logs) :
          Mark(logs, Discards(blockIndex, latest))[q].commitmentHash = logs[q].commitmentHash
    BY <1>1, MarkTyped
  <2>4. \A q \in 1 .. Len(logs) :
          logs[q].discarded => Mark(logs, Discards(blockIndex, latest))[q].discarded
    BY <1>1, MarkKeeps
  <2> QED BY <1>1, <2>1, <2>2, <2>3, <2>4
<1>5. logs' = logs \/ QueryExecutions \/ QueryDiscards
  BY DEF CacheNext, HolderStep, NewBlock, Call, CheckPhantom, ReadLatest, CallFails, eventVars, cacheVars
<1> QED BY <1>2, <1>3, <1>4, <1>5

LEMMA DiscardsInv ==
  ASSUME CacheInv, NoDiscardMissing, [CacheNext]_eventVars
  PROVE  NoDiscardMissing'
<1>1. /\ CacheTypeOK /\ ChainSound /\ NothingMissing /\ CacheTyped
      /\ logs \in Seq(CachedLog) /\ DOMAIN logs = 1 .. Len(logs)
  BY TypeParts DEF CacheInv, CacheTypeOK
<1>2. ASSUME NEW x \in Discards(1, blockIndex - 1)
      PROVE  \E q \in DOMAIN logs' : logs'[q].commitmentHash = x /\ logs'[q].discarded
  <2>1. PICK q \in DOMAIN logs : logs[q].commitmentHash = x /\ logs[q].discarded
    BY <1>2 DEF NoDiscardMissing
  <2> QED BY <2>1, MarkedStays
<1>3. CASE QueryDiscards
  <2>1. /\ request = "discards" /\ logs' = Mark(logs, Discards(blockIndex, latest))
        /\ blockIndex' = latest + 1 /\ UNCHANGED blockVars
    BY <1>3 DEF QueryDiscards, NextBlock, Waits
  <2>2. blockIndex \in Nat /\ latest \in Nat /\ blockIndex <= latest + 1 /\ latest <= Height
        /\ Height \in Nat
    BY <1>1, <2>1, ChainTyped DEF CacheTyped
  <2>3. Discards(1, blockIndex - 1)' = Discards(1, blockIndex - 1) \cup Discards(blockIndex, latest)
    <3>1. Discards(1, blockIndex - 1)' = Discards(1, latest)
      BY <2>1, <2>2 DEF blockVars, Discards
    <3> QED BY <2>2, <3>1, DiscardsSplit
  <2>4. ASSUME NEW x \in Discards(blockIndex, latest)
        PROVE  \E q \in DOMAIN logs' : logs'[q].commitmentHash = x /\ logs'[q].discarded
    <3>1. x \in Discards(1, latest)
      BY <2>2, <2>4, DiscardsSplit
    <3>2. PICK p \in 1 .. UpTo(latest) : commitments[p] = x
      BY <1>1, <2>2, <3>1, DiscardedEarlier
    <3>3. ReadUpTo = latest
      BY <2>1 DEF ReadUpTo
    <3>4. \E q \in DOMAIN logs : logs[q].commitmentHash = x
      BY <1>1, <3>2, <3>3 DEF NothingMissing
    <3>5. PICK q \in DOMAIN logs :
            /\ logs[q].commitmentHash = x
            /\ \A k \in DOMAIN logs : k > q => logs[k].commitmentHash # x
      BY <1>1, <3>4, LastLog
    <3>6. logs'[q] = [logs[q] EXCEPT !.discarded = TRUE] /\ q \in DOMAIN logs'
      BY <2>1, <2>4, <3>5 DEF Mark
    <3>7. logs[q] \in CachedLog
      BY <1>1
    <3>8. logs'[q].commitmentHash = x /\ logs'[q].discarded
      BY <3>5, <3>6, <3>7 DEF CachedLog
    <3> QED BY <3>6, <3>8
  <2> QED BY <1>2, <2>3, <2>4 DEF NoDiscardMissing
<1>4. CASE blockIndex' = blockIndex
  <2>1. Discards(1, blockIndex - 1)' = Discards(1, blockIndex - 1)
    <3>1. CASE UNCHANGED blockVars
      BY <1>4, <3>1 DEF blockVars, Discards
    <3>2. ASSUME NEW executed \in BoundedSeq(Commitment, MaxExecutions),
                 NEW discarded \in SUBSET Commitment, NewBlock(executed, discarded)
          PROVE  Discards(1, blockIndex - 1)' = Discards(1, blockIndex - 1)
      <4>1. blockIndex \in Nat /\ blockIndex - 1 <= Height /\ Height \in Nat
        BY <1>1, ChainTyped DEF CacheTyped
      <4>2. \A i \in 1 .. Height : blocks'[i] = blocks[i]
        BY <3>2, MineStep
      <4>3. \A i \in {j \in 1 .. blockIndex - 1 : j >= 1} : blocks'[i] = blocks[i]
        BY <4>1, <4>2
      <4> QED BY <1>4, <4>3 DEF Discards
    <3> QED BY <3>1, <3>2
         DEF CacheNext, HolderStep, Call, CheckPhantom, ReadLatest, QueryExecutions, QueryDiscards,
             CallFails, eventVars
  <2> QED BY <1>2, <2>1 DEF NoDiscardMissing
<1>5. blockIndex' = blockIndex \/ QueryDiscards
  BY DEF CacheNext, HolderStep, NewBlock, Call, CheckPhantom, ReadLatest, QueryExecutions, CallFails,
         eventVars, cacheVars
<1> QED BY <1>3, <1>4, <1>5

LEMMA IInvHolds == CacheSpec => []IInv
<1>1. CacheInit => IInv
  <2> SUFFICES ASSUME CacheInit PROVE NoDiscardMissing
    BY InitInv DEF IInv
  <2>1. Discards(1, blockIndex - 1) = {}
    BY DEF CacheInit, Discards
  <2> QED BY <2>1 DEF NoDiscardMissing
<1>2. IInv /\ [CacheNext]_eventVars => IInv'
  BY NextInv, DiscardsInv DEF IInv
<1> QED BY <1>1, <1>2, PTL DEF CacheSpec

\* A call returns when it holds the lock, and its step leaves the chain alone.
LEMMA HolderReturns ==
  ASSUME CacheInv, [CacheNext]_eventVars, NEW c \in Caller, call[c] = "waiting", call'[c] = "ok"
  PROVE  /\ HolderStep /\ ~ CallFails /\ ~ QueryExecutions
         /\ queue # <<>> /\ c = Head(queue) /\ Return("ok") /\ UNCHANGED blockVars
<1>1. CacheTyped /\ LockTypeOK
  BY TypeParts DEF CacheInv
<1>2. HolderStep /\ ~ CallFails
  <2>1. call' # call
    OBVIOUS
  <2>2. ~ CallFails
    <3> SUFFICES ASSUME CallFails PROVE FALSE
      OBVIOUS
    <3>1. queue # <<>> /\ call' = [call EXCEPT ![Head(queue)] = "failed"]
      BY DEF CallFails, Return, Waits
    <3> QED BY <1>1, <3>1 DEF LockTypeOK
  <2>3. ~ \E d \in Caller : Call(d)
    BY <1>1 DEF Call, LockTypeOK
  <2> QED BY <2>1, <2>2, <2>3 DEF CacheNext, NewBlock, eventVars
<1>3. queue # <<>>
  BY <1>2 DEF HolderStep, CheckPhantom, ReadLatest, QueryExecutions, QueryDiscards, Waits
<1>4. call' = call \/ call' = [call EXCEPT ![Head(queue)] = "ok"]
  BY <1>2 DEF HolderStep, CheckPhantom, ReadLatest, QueryExecutions, QueryDiscards, Return
<1>5. Return("ok") /\ c = Head(queue)
  <2>1. c = Head(queue)
    BY <1>1, <1>4 DEF LockTypeOK
  <2> QED BY <1>2, <2>1
       DEF HolderStep, CheckPhantom, ReadLatest, QueryExecutions, QueryDiscards
<1>6. ~ QueryExecutions
  <2>1. call' # call
    OBVIOUS
  <2> QED BY <2>1 DEF QueryExecutions
<1>7. UNCHANGED blockVars
  BY <1>2 DEF HolderStep, CheckPhantom, ReadLatest, QueryExecutions, QueryDiscards
<1> QED BY <1>2, <1>3, <1>5, <1>6, <1>7

\* A call returns when what it was promised is read, or when there is nothing.
LEMMA ReturnsAfter ==
  ASSUME CacheInv, [CacheNext]_eventVars, NEW c \in Caller, call[c] = "waiting", call'[c] = "ok"
  PROVE  UpTo(since[c]) = 0 \/ (blockIndex' \in Int /\ since[c] <= blockIndex' - 1)
<1>1. /\ CacheTypeOK /\ ChainSound /\ LockSound /\ CacheTyped /\ LockTypeOK
  BY TypeParts DEF CacheInv
<1>2. PICK n : n = since[c]
  OBVIOUS
<1>3. n \in 0 .. Height /\ Height \in Nat /\ call' # call
  BY <1>1, <1>2, ChainTyped DEF LockTypeOK
<1>4. /\ HolderStep /\ ~ CallFails /\ ~ QueryExecutions
      /\ queue # <<>> /\ c = Head(queue)
  BY HolderReturns
<1>5. ASSUME NEW h \in Heights
      PROVE  h \in 0 .. Height /\ n \in 0 .. h
  BY <1>1, <1>2, <1>4, HeightsPromised
<1>6. ASSUME NEW h \in Heights, CheckPhantom(h)
      PROVE  UpTo(n) = 0
  <2>1. deployedAt = 0 \/ deployedAt > h
    BY <1>3, <1>6 DEF CheckPhantom
  <2>2. deployedAt = 0 \/ deployedAt > n
    BY <1>1, <1>5, <2>1, ChainTyped DEF CacheTypeOK
  <2> QED BY <1>1, <1>3, <2>2, NothingBefore
<1>7. ASSUME NEW h \in Heights, ReadLatest(h)
      PROVE  blockIndex' \in Int /\ n <= blockIndex' - 1
  <2>1. h < blockIndex /\ blockIndex' = blockIndex
    BY <1>3, <1>7 DEF ReadLatest, UpToDate, cacheVars
  <2>2. blockIndex \in Nat
    BY <1>1, <1>3 DEF CacheTyped
  <2> QED BY <1>5, <2>1, <2>2
<1>8. ASSUME QueryDiscards
      PROVE  blockIndex' \in Int /\ n <= blockIndex' - 1
  <2>1. request = "discards" /\ blockIndex' = latest + 1
    BY <1>8 DEF QueryDiscards, NextBlock, Waits
  <2>2. latest \in Int /\ n <= latest
    BY <1>1, <1>2, <1>4, <2>1, ChainTyped DEF LockSound, CacheTyped
  <2> QED BY <1>3, <2>1, <2>2
<1> QED BY <1>2, <1>4, <1>6, <1>7, <1>8 DEF HolderStep

LEMMA SeenInv ==
  ASSUME CacheInv, [CacheNext]_eventVars, NEW c \in Caller, call[c] = "waiting", call'[c] = "ok"
  PROVE  ToSet(Executions(1, since[c])) \subseteq {l.commitmentHash : l \in ToSet(logs')}
<1>1. /\ CacheTypeOK /\ ChainSound /\ LockSound /\ NothingMissing /\ CacheTyped /\ LockTypeOK
  BY TypeParts DEF CacheInv
<1>2. HolderStep /\ ~ CallFails
  BY HolderReturns
<1>3. queue # <<>>
  BY HolderReturns
<1>5. Return("ok") /\ c = Head(queue)
  BY HolderReturns
<1>6. PICK n : n = since[c]
  OBVIOUS
<1>7. n \in 0 .. Height /\ Height \in Nat
  BY <1>1, <1>6, ChainTyped DEF LockTypeOK
<1>8. SUFFICES \A x \in ToSet(Executions(1, n)) :
                 \E q \in DOMAIN logs' : logs'[q].commitmentHash = x
  BY <1>6 DEF ToSet
<1>9. ASSUME NEW h \in Heights, CheckPhantom(h)
      PROVE  ToSet(Executions(1, n)) = {}
  <2>1. h \in 0 .. Height /\ n \in 0 .. h
    BY <1>1, <1>3, <1>5, <1>6, HeightsPromised
  <2>2. deployedAt = 0 \/ deployedAt > h
    <3>1. call' # call
      OBVIOUS
    <3> QED BY <1>9, <3>1 DEF CheckPhantom
  <2>3. deployedAt = 0 \/ deployedAt > n
    BY <1>1, <2>1, <2>2, ChainTyped DEF CacheTypeOK
  <2> QED BY <1>1, <1>7, <2>3, NothingBefore
<1>10. ASSUME NEW h \in Heights, ReadLatest(h)
       PROVE  logs' = logs /\ n <= ReadUpTo /\ ReadUpTo \in Int /\ ReadUpTo <= Height
  <2>1. h \in 0 .. Height /\ n \in 0 .. h
    BY <1>1, <1>3, <1>5, <1>6, HeightsPromised
  <2>2. call' # call
    OBVIOUS
  <2>3. h < blockIndex /\ request = "latest" /\ logs' = logs
    BY <1>10, <2>2 DEF ReadLatest, UpToDate, Waits, cacheVars
  <2>4. ReadUpTo = blockIndex - 1 /\ blockIndex \in 0 .. Height + 1
    BY <1>1, <2>3 DEF ReadUpTo, CacheTyped
  <2> QED BY <1>7, <2>1, <2>3, <2>4
<1>11. ASSUME QueryDiscards
       PROVE  /\ n <= ReadUpTo /\ ReadUpTo \in Int /\ ReadUpTo <= Height
              /\ DOMAIN logs' = DOMAIN logs
              /\ \A q \in DOMAIN logs : logs'[q].commitmentHash = logs[q].commitmentHash
  <2>1. request = "discards" /\ logs' = Mark(logs, Discards(blockIndex, latest))
    BY <1>11 DEF QueryDiscards, Waits
  <2>2. ReadUpTo = latest /\ latest \in blockIndex .. Height /\ blockIndex \in 0 .. Height + 1
    BY <1>1, <2>1 DEF ReadUpTo, CacheTyped
  <2>3. n <= latest
    BY <1>1, <1>5, <1>6, <2>1 DEF LockSound
  <2>4. logs \in Seq(CachedLog) /\ DOMAIN logs = 1 .. Len(logs)
    BY <1>1 DEF CacheTyped
  <2>5. /\ DOMAIN logs' = DOMAIN logs
        /\ \A q \in DOMAIN logs : logs'[q].commitmentHash = logs[q].commitmentHash
    <3>1. DOMAIN logs' = DOMAIN logs
      BY <2>1 DEF Mark
    <3>2. \A q \in 1 .. Len(logs) :
            Mark(logs, Discards(blockIndex, latest))[q].commitmentHash = logs[q].commitmentHash
      BY <2>4, MarkTyped
    <3> QED BY <2>1, <2>4, <3>1, <3>2
  <2> QED BY <1>7, <2>2, <2>3, <2>5
<1>12. ~ QueryExecutions
  <2>1. call' # call
    OBVIOUS
  <2> QED BY <2>1 DEF QueryExecutions
<1>13. CASE \E h \in Heights : CheckPhantom(h)
  BY <1>9, <1>13
<1>14. CASE \E h \in Heights : ReadLatest(h)
  <2>1. logs' = logs /\ n <= ReadUpTo /\ ReadUpTo \in Int /\ ReadUpTo <= Height
    BY <1>10, <1>14
  <2>2. \A x \in ToSet(Executions(1, n)) : \E q \in DOMAIN logs : logs[q].commitmentHash = x
    BY <1>1, <1>7, <2>1, SeenUpTo
  <2> QED BY <2>1, <2>2
<1>15. CASE QueryDiscards
  <2>1. \A x \in ToSet(Executions(1, n)) : \E q \in DOMAIN logs : logs[q].commitmentHash = x
    BY <1>1, <1>7, <1>11, <1>15, SeenUpTo
  <2> QED BY <1>11, <1>15, <2>1
<1> QED BY <1>2, <1>12, <1>13, <1>14, <1>15 DEF HolderStep

\* Nothing that the account had discarded is missing either.
LEMMA DiscardsSeen ==
  ASSUME CacheInv, NoDiscardMissing, [CacheNext]_eventVars, NEW c \in Caller, call[c] = "waiting", call'[c] = "ok",
         NEW x \in Discards(1, since[c])
  PROVE  \E l \in ToSet(logs') : l.commitmentHash = x /\ l.discarded
<1>1. /\ CacheTypeOK /\ ChainSound /\ LockSound /\ CacheTyped /\ LockTypeOK
  BY TypeParts DEF CacheInv
<1>2. PICK n : n = since[c]
  OBVIOUS
<1>3. n \in 0 .. Height /\ Height \in Nat
  BY <1>1, <1>2, ChainTyped DEF LockTypeOK
<1>4. NoDiscardMissing'
  BY DiscardsInv
<1>5. PICK p \in 1 .. UpTo(n) : commitments[p] = x
  BY <1>1, <1>2, <1>3, DiscardedEarlier
<1>6. UNCHANGED blockVars /\ n <= blockIndex' - 1 /\ blockIndex' \in Int
  <2>1. UpTo(n) # 0
    BY <1>5
  <2> QED BY <1>2, <2>1, HolderReturns, ReturnsAfter
<1>7. x \in Discards(1, blockIndex - 1)'
  <2>1. x \in Discards(1, blockIndex' - 1)
    BY <1>2, <1>3, <1>6 DEF Discards
  <2>2. Discards(1, blockIndex - 1)' = Discards(1, blockIndex' - 1)
    BY <1>6 DEF Discards, blockVars
  <2> QED BY <2>1, <2>2
<1>8. PICK q \in DOMAIN logs' : logs'[q].commitmentHash = x /\ logs'[q].discarded
  BY <1>4, <1>7 DEF NoDiscardMissing
<1> QED BY <1>8 DEF ToSet

\* When a call returns, every commitment that the account had inserted in the blocks
\* the provider had when it was made has a log, and every one it had discarded in
\* them a log marked so, whoever read them (getData, ZkTeamCore.ts:174-219).
THEOREM CallsSeeAll == CacheSpec => CallsSeeTheirPast
<1>1. IInv /\ [CacheNext]_eventVars =>
        [\A c \in Caller : call[c] = "waiting" /\ call'[c] = "ok" =>
           /\ ToSet(Executions(1, since[c])) \subseteq {l.commitmentHash : l \in ToSet(logs')}
           /\ \A x \in Discards(1, since[c]) :
                \E l \in ToSet(logs') : l.commitmentHash = x /\ l.discarded]_eventVars
  BY SeenInv, DiscardsSeen DEF IInv
<1> QED BY <1>1, IInvHolds, PTL DEF CacheSpec, CallsSeeTheirPast
=============================================================================
