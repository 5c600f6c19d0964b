----------------------------- MODULE EventCache -----------------------------
(***************************************************************************)
(* The cache of events that every read of a client goes through            *)
(* (ZkTeamCore.getData). Calls run concurrently in one process, getUsers   *)
(* starts many at once; a lock lets one at a time through, in order. The   *)
(* chain grows between its requests, the provider may answer the first two *)
(* from a block behind, and any request may fail.                          *)
(***************************************************************************)
EXTENDS Integers, Sequences, SequencesExt, FiniteSets

CONSTANTS
  Caller,
  Commitment,
  MaxBlocks,        \* bound on the length of the chain
  MaxExecutions,    \* bound on the executions of a block
  MaxLag,           \* how many blocks the provider may be behind
  MaxTorn           \* bound on the calls that fail between their two queries

Request == {"phantom", "latest", "executions", "discards"}

ASSUME CacheSizes ==
  /\ MaxBlocks \in Nat /\ MaxExecutions \in Nat /\ MaxLag \in Nat
  /\ MaxTorn \in Nat

VARIABLES
  commitments,      \* the commitments of the ZkTeamExecution events
  blocks,           \* block number -> what the account did in it
  deployedAt,       \* the block that created the account, 0 if none did
  isPhantom,        \* the client has not seen the account yet
  blockIndex, logs, \* the cache: first block not read, events read
  queue,            \* the calls in the lock; the first one holds it
  request,          \* what the holder is waiting for
  latest,           \* the block up to which the holder reads
  torn,             \* history: how many calls failed between their two queries
  call,             \* caller -> state of its last call
  since             \* caller -> a block that existed when it called

cacheVars == <<isPhantom, blockIndex, logs>>
blockVars == <<commitments, blocks, deployedAt>>
eventVars == <<blockVars, cacheVars, queue, request, latest, torn, call, since>>

-----------------------------------------------------------------------------
(* The chain                                                               *)

Height == Len(blocks)

\* The number of executions up to the end of a block, and the commitments of the
\* ZkTeamDiscard events in it.
Block == [upTo : Nat, discarded : SUBSET Commitment]

\* The number of executions up to the end of block h.
UpTo(h) == IF h < 1 THEN 0 ELSE blocks[h].upTo

\* The events in the blocks from .. to, in order.
Executions(from, to) == SubSeq(commitments, UpTo(from - 1) + 1, UpTo(to))

\* Mutant of Discards: the first block of the range is left out.
DiscardsAfter(from, to) ==
  UNION {blocks[i].discarded : i \in {j \in 1 .. to : j > from}}

Discards(from, to) ==
  UNION {blocks[i].discarded : i \in {j \in 1 .. to : j >= from}}

Executed(c) == Cardinality({p \in DOMAIN commitments : commitments[p] = c})

TimesDiscarded(c) == Cardinality({i \in DOMAIN blocks : c \in blocks[i].discarded})

\* A commitment is discarded at most as often as it was inserted before.
NewBlock(executed, discarded) ==
  /\ Height < MaxBlocks
  /\ \A c \in discarded : TimesDiscarded(c) < Executed(c)
  /\ commitments' = commitments \o executed
  /\ blocks' = Append(blocks, [upTo |-> Len(commitments'), discarded |-> discarded])
  /\ \/ deployedAt' = IF deployedAt = 0 THEN Height + 1 ELSE deployedAt
     \/ executed = <<>> /\ UNCHANGED deployedAt
  /\ UNCHANGED <<cacheVars, queue, request, latest, torn, call, since>>

\* What the provider may take for the latest block.
Heights == {h \in Height - MaxLag .. Height : h >= 0}

-----------------------------------------------------------------------------
(* getData                                                                 *)

Call(c) ==
  /\ call[c] # "waiting"
  /\ call' = [call EXCEPT ![c] = "waiting"]
  /\ since' = [since EXCEPT ![c] = IF Height < MaxLag THEN 0 ELSE Height - MaxLag]
  /\ queue' = Append(queue, c)
  /\ UNCHANGED <<blockVars, cacheVars, request, latest, torn>>

\* Mutant of Released: a call that throws keeps the lock.
NeverReleased == "held"

\* The next call in the lock starts with the first request.
Released == "phantom"

Return(outcome) ==
  /\ call' = [call EXCEPT ![Head(queue)] = outcome]
  /\ since' = [since EXCEPT ![Head(queue)] = 0]
  /\ queue' = Tail(queue)
  /\ request' = Released
  /\ latest' = 0

Waits(r) == queue # <<>> /\ request = r

CheckPhantom(h) ==
  /\ Waits("phantom")
  /\ IF isPhantom /\ (deployedAt = 0 \/ deployedAt > h)
     THEN Return("ok") /\ UNCHANGED isPhantom
     ELSE /\ isPhantom' = FALSE
          /\ request' = "latest"
          /\ UNCHANGED <<queue, latest, call, since>>
  /\ UNCHANGED <<blockVars, blockIndex, logs, torn>>

\* Mutant of UpToDate: what was read once is not read again.
ReadBefore(h) == blockIndex > 0

\* Mutant of UpToDate: the test is missing.
NeverUpToDate(h) == FALSE

UpToDate(h) == h < blockIndex

ReadLatest(h) ==
  /\ Waits("latest")
  /\ IF UpToDate(h)
     THEN Return("ok")
     ELSE /\ latest' = h
          /\ request' = "executions"
          /\ UNCHANGED <<queue, call, since>>
  /\ UNCHANGED <<blockVars, cacheVars, torn>>

\* The logs that are made of events when they are read.
LogsOf(es) == [p \in DOMAIN es |-> [commitmentHash |-> es[p], discarded |-> FALSE]]

QueryExecutions ==
  /\ Waits("executions")
  /\ logs' = logs \o LogsOf(Executions(blockIndex, latest))
  /\ request' = "discards"
  /\ UNCHANGED <<blockVars, isPhantom, blockIndex, queue, latest, torn, call, since>>

\* data.commitmentHashes holds the last log of a commitment hash.
Mark(ls, gone) ==
  [p \in DOMAIN ls |->
     IF ls[p].commitmentHash \in gone
        /\ \A q \in DOMAIN ls : q > p => ls[q].commitmentHash # ls[p].commitmentHash
     THEN [ls[p] EXCEPT !.discarded = TRUE] ELSE ls[p]]

\* Mutant of NextBlock: the last block is read again.
SameBlock(h) == h

NextBlock(h) == h + 1

QueryDiscards ==
  /\ Waits("discards")
  /\ logs' = Mark(logs, Discards(blockIndex, latest))
  /\ blockIndex' = NextBlock(latest)
  /\ Return("ok")
  /\ UNCHANGED <<blockVars, isPhantom, torn>>

\* A request fails: the call throws, what it did to the cache stays.
CallFails ==
  /\ \E r \in Request : Waits(r)
  /\ IF request = "discards"
     THEN torn < MaxTorn /\ torn' = torn + 1
     ELSE UNCHANGED torn
  /\ Return("failed")
  /\ UNCHANGED <<blockVars, cacheVars>>

CacheInit ==
  /\ commitments = <<>> /\ blocks = <<>> /\ deployedAt = 0
  /\ isPhantom = TRUE /\ blockIndex = 0 /\ logs = <<>>
  /\ queue = <<>> /\ request = "phantom" /\ latest = 0 /\ torn = 0
  /\ call = [c \in Caller |-> "idle"]
  /\ since = [c \in Caller |-> 0]

HolderStep ==
  \/ \E h \in Heights : CheckPhantom(h) \/ ReadLatest(h)
  \/ QueryExecutions
  \/ QueryDiscards
  \/ CallFails

CacheNext ==
  \/ \E executed \in BoundedSeq(Commitment, MaxExecutions), discarded \in SUBSET Commitment :
       NewBlock(executed, discarded)
  \/ \E c \in Caller : Call(c)
  \/ HolderStep

\* Every request is answered or fails (the provider has a timeout), and the
\* event loop runs what waits for it; nothing is assumed of chain and callers.
CacheSpec == CacheInit /\ [][CacheNext]_eventVars /\ WF_eventVars(HolderStep)

-----------------------------------------------------------------------------
(* Properties                                                              *)

CachedLog == [commitmentHash : Commitment, discarded : BOOLEAN]

\* Every variable has its type, each waiting caller is in the lock once, and no
\* request asks for a range of blocks that is empty or was read before.
CacheTypeOK ==
  /\ commitments \in Seq(Commitment) /\ blocks \in Seq(Block)
  /\ deployedAt \in 0 .. Height /\ isPhantom \in BOOLEAN
  /\ blockIndex \in 0 .. Height + 1 /\ logs \in Seq(CachedLog)
  /\ request \in Request /\ torn \in 0 .. MaxTorn
  /\ call \in [Caller -> {"idle", "waiting", "ok", "failed"}]
  /\ since \in [Caller -> 0 .. Height]
  /\ queue \in Seq(Caller) /\ IsInjective(queue)
  /\ ToSet(queue) = {c \in Caller : call[c] = "waiting"}
  /\ request \in {"executions", "discards"} => latest \in blockIndex .. Height

\* What a client that reads everything at once gets.
FreshLogs(h) == Mark(LogsOf(Executions(1, h)), Discards(1, h))

\* No commitment that was discarded was inserted twice.
DiscardedOnce ==
  \A p, q \in DOMAIN commitments :
    commitments[p] = commitments[q] /\ commitments[p] \in Discards(1, Height) => p = q

\* What concurrent calls, some of which failed, read in pieces is what one read of
\* the same blocks gives, under two conditions: no call failed between its two
\* queries (NoDuplicateLogs says what that does), and no commitment that was
\* discarded came twice (the code marks the last log with the hash, which a later
\* insertion changes). ZkTeamCore.ts:180-217.
CacheExact ==
  request # "discards" /\ torn = 0 /\ DiscardedOnce => logs = FreshLogs(blockIndex - 1)

\* When a call returns, each commitment that the account had inserted in the blocks
\* that existed (for the provider) when it was made has a log, and each that it had
\* discarded in them has a log marked so: even if the call waited for others, read
\* nothing itself, or came after one that failed between its queries.
\* ZkTeamCore.ts:174-219.
CallsSeeTheirPast ==
  [][\A c \in Caller : call[c] = "waiting" /\ call'[c] = "ok" =>
       /\ ToSet(Executions(1, since[c])) \subseteq {l.commitmentHash : l \in ToSet(logs')}
       /\ \A x \in Discards(1, since[c]) :
            \E l \in ToSet(logs') : l.commitmentHash = x /\ l.discarded]_eventVars

\* No call waits for the lock for ever, whatever happens to the others.
EveryCallReturns == \A c \in Caller : call[c] = "waiting" ~> call[c] # "waiting"

\* README.md:142: users can spend their allowance, so the tree of a client never
\* has more leaves than the account inserted, even after a call that failed.
NoDuplicateLogs == Len(logs) <= Len(commitments)
-----------------------------------------------------------------------------
(* The inductive invariant behind the proofs                               *)

\* Blocks follow each other, a commitment is inserted in an earlier block than
\* the one it is discarded in, and nothing happens before the deployment.
ChainSound ==
  /\ \A i, j \in 0 .. Height : i <= j => UpTo(i) <= UpTo(j)
  /\ UpTo(Height) = Len(commitments)
  /\ \A i \in 1 .. Height : \A c \in blocks[i].discarded :
       \E p \in 1 .. UpTo(i - 1) : commitments[p] = c
  /\ IF deployedAt = 0 THEN UpTo(Height) = 0 ELSE UpTo(deployedAt - 1) = 0

\* A caller has been promised no block that the provider may not have yet, and
\* the holder of the lock reads as far as it was promised.
LockSound ==
  /\ \A c \in Caller : since[c] = 0 \/ since[c] <= Height - MaxLag
  /\ request \in {"executions", "discards"} => queue # <<>> /\ since[Head(queue)] <= latest

\* The last block whose executions are in the cache.
ReadUpTo == IF request = "discards" THEN latest ELSE blockIndex - 1

\* Whatever went wrong before, no execution that was read is missing.
NothingMissing ==
  \A p \in 1 .. UpTo(ReadUpTo) : \E q \in DOMAIN logs : logs[q].commitmentHash = commitments[p]

\* Whatever went wrong before, no discard that was read is missing.
NoDiscardMissing ==
  \A x \in Discards(1, blockIndex - 1) :
    \E q \in DOMAIN logs : logs[q].commitmentHash = x /\ logs[q].discarded

\* CacheExact, between the two queries as well.
LogsExact ==
  torn = 0 /\ DiscardedOnce =>
    /\ Len(logs) = UpTo(ReadUpTo)
    /\ \A p \in DOMAIN logs :
         /\ logs[p].commitmentHash = commitments[p]
         /\ logs[p].discarded = (commitments[p] \in Discards(1, blockIndex - 1))

\* What is proved to be inductive in EventCacheProofs.
CacheInv == CacheTypeOK /\ ChainSound /\ LockSound /\ NothingMissing /\ LogsExact

IInv == CacheInv /\ NoDiscardMissing
=============================================================================
