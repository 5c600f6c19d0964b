# ZK-Team in TLA+

ZK-Team is an ERC-4337 smart account shared by an admin and its users. The admin grants allowances; a user spends its
allowance with zero-knowledge proofs, so that the chain does not tell which user made a transaction or how much is left.
This directory holds the specifications of the contract, its commitment tree and its client library, the TLC
instances that check them, and the TLAPS proofs about them. The audit of the admin, the deployment script and the
configuration of the command line tools have specifications of their own. Paths such as `ZkTeamCore.ts:205` are relative to
`src/src`, `src/contracts`, `src/circuits`, `src/scripts` and `src/cli`; line numbers are those of the sources in `src/`.

## 1. The system

| Component | State it keeps | Operations |
|---|---|---|
| `contracts/ZkTeamAccount.sol` | owner, nullifier hashes with the encrypted allowance, the commitment tree, ether | `initialize`, `_validateSignature`, `execute`, `discardCommitmentHashes`, `withdraw`, `receive`, deposit functions, upgrades |
| `contracts/MerkleTree.sol` | number of leaves, one stored pair of nodes per level, a ring of 5 roots | `init`, `simulatedInsert`, `insert`, `isKnownRoot`, `verify`, `update` |
| `contracts/ZkTeamAccountFactory.sol` | none | `createAccount`, `getAddress` |
| `circuits/zkteam.circom`, `tree.circom` | none | the relation between old root, new root, nullifier, value and new commitment |
| `contracts/ZkTeamVerifier.sol` | none (generated by snarkjs) | `verifyProof` |
| `src/ZkTeamCore.ts` | the cache of events (`logs`, `commitmentHashes`, `nullifierHashes`, `blockIndex`) behind a lock | `getData` and its readers, `generateProofInputs`, `createProvedUserOp`, `createSignedUserOp`, `discardCommitmentHashes` |
| `src/ZkTeamClient.ts` | the key of the admin or of a user; the tags of an audit, on the cached logs | `getLastIndex`, `getAllowance`, `setAllowance`, `setTransaction`, `getUser`, `getUsers`, `getTransactions`, `tagLogs`, `checkIntegrity` |
| `src/utils/MerkleTree.ts`, `encryption.ts` | a full tree made from the events for each use | `insert`, `getProof`, `discard`; `encryptAllowance`, `decryptAllowance` |
| EntryPoint and bundler (external) | nonce, mempool | prefund, validation, execution, delivery |
| `src/utils/VerifyingPaymasterAPI.ts` | none | one request to a paymaster |
| `cli/zkteamAdmin.mjs`, `zkteamUser.mjs` | none | one library call per command |
| `cli/config.mjs` | one entry per tool in a file: addresses, salt, encrypted secrets | `init` (first and later), `delete`, reading with a password |
| `scripts/deploy.ts` | `config/<chainId>.json`: address and bytecode hash of each contract | `deployAll`: EntryPoint, bundler url, Greeter, Poseidon proxy and hashers, verifier, MerkleTree, factory |

How they interact:

1. A command of the admin or of a user reads the events of the account (`getData`), counts the nullifiers of one key until
   the first that has no event (`getLastIndex`), decrypts the allowance stored with the one before, rebuilds the whole tree,
   and makes a user operation: signed (admin) or with a proof (user). These are several awaits, and the
   chain moves between them.
2. The bundler delivers operations in any order, late, again or never. The EntryPoint checks the nonce, takes the fee,
   and calls `_validateSignature`. A signed operation is not compared with any state. An operation with a proof needs call data that are what
   its signals say, an unused nullifier, a known old root, and a new root that is what `simulatedInsert` gives **now**; the verifier is called, and the call has to
   succeed.
3. `execute` inserts the new commitment, writes the nullifier (a second time if the admin granted an index that was used
   since), makes the call and emits `ZkTeamExecution`. If it reverts, only nonce and fee are gone.
4. `discardCommitmentHashes` of the admin replaces leaves with 0, five per transaction, with proofs built from one
   read of the events, and forgets every older root.

5. The audit of the admin (`checkIntegrity`) walks through its users, one await per user and index, and tags the cached logs, while
   the account goes on executing. The admin discards what is reported, in the order of the report.
6. The deployment script brings the contracts to a chain and writes their addresses into a file. A version of the package carries
   that file; the first `init` of a tool copies the factory out of it into the entry of the user, and from then on the accounts are those of
   this factory.

Nothing else is shared: contract and clients communicate through operations and events only.

### Hard behaviours, and what makes each part correct

| Part | Hard | Correct when |
|---|---|---|
| Contract tree | a whole tree kept with one pair of nodes per level; updates recognise nodes by value; the ring wraps and is cleared | its root is the root of the tree the events describe; only a current proof changes it; known roots are exactly the recent ones since the last discard |
| Account | operations whose proofs are stale, duplicates, reverts after validation, grants that overwrite a nullifier; conditions that are left to the callers | a note is spent once and nobody is paid more than was granted, while those conditions are met; the library meets them in every interleaving; a discard stops what was made before it |
| Client commands | reads at different moments; killed half-way; several at once | what it computed still holds when the operation validates; a wallet is never stranded |
| Client tree | rebuilt from two kinds of events | equal to the contract's tree |
| Event cache | concurrent calls, failures between two queries, a provider behind the chain | what was read in pieces equals one read of everything; each call sees its past; no call hangs |
| Circuit | field elements, 64 bit comparison | whatever the client accepts has a proof |
| Audit | events arrive during the walk; users without allowance; overwritten nullifiers; a failed audit leaves tags | an irregular commitment is reported, a regular one is not (both have exceptions: finding 7); the report may be discarded as it is |
| Deployment | transactions that are not waited for; death between transactions; development chains that begin anew | the file is true and its factory works; the hashers arrive; the script ends |
| Configuration | prompts are awaits; whole entries are replaced; several commands; a later package | one password, typed twice, opens everything; the factory stays |

The hazards of the code, each with its line, are listed in `PROJECT.json`.

## 2. Modules

| Module | Kind | Relation to the others |
|---|---|---|
| `CommitmentTree` | abstract | what a commitment tree promises; no imports |
| `MerkleTree` | detailed | implements `CommitmentTree` when leaves are discarded in order (`KeepsPromise`) |
| `DiscardOrder` | detailed | extends `MerkleTree` with discards in any order; implements `CommitmentTree` (`KeepsWeakPromise`) |
| `AllowanceLedger` | abstract | what an account promises; no imports |
| `ZkTeamAccount` | component | instantiates `CommitmentTree` over its own variables |
| `ZkTeam` | composition | extends `ZkTeamAccount` with clients and mempool; implements `AllowanceLedger` (`ImplementsLedger`) |
| `EventCache` | component | on its own: how one client process reads events |
| `Audit` | component | on its own: the audit and the listings of the clients, beside an account that executes |
| `Deployment` | component | on its own: the deployment script and its chain |
| `ConfigStore` | component | on its own: the configuration of the tools |
| `MerkleTreeProofs` | proofs | about `MerkleTree`, and its refinement of `CommitmentTree` |
| `AllowanceLedgerProofs`, `ZkTeamProofs`, `ZkTeamLedgerProofs` | proofs | about the ledger, `ZkTeam`, and the refinement of the one by the other |
| `EventCacheProofs`, `AuditProofs`, `DeploymentProofs`, `ConfigStoreProofs` | proofs | about the component of that name |

**CommitmentTree** (abstract). A list of leaves and the list of accepted roots, newest first. `Root` is the set of
(position, leaf) pairs that are not zero: hashing is collision free, and a zero leaf and an absent one hash alike in the code too.
The promise has two parts. While every discarded leaf was younger than those discarded before it (`inOrder`), an insertion gives the root of the
leaves. After another order it gives that root or `Unknown`, which is the root of no leaves at all: finding 1 as an abstract behaviour. Behind `Unknown` come only such roots, and nothing can be
discarded under one.

**MerkleTree** is `MerkleTree.sol` in detail: `lastSubtrees`, `roots` as a ring, `numberOfLeaves`, and the loops of
`insert`, `simulatedInsert`, `verify` and `update` as functions over the levels. A hash is the pair of its arguments.
The variables `inserted` and `discarded` are the events, from which `ClientTree` is rebuilt, and `proof` is a discard proof
on its way, built at one moment (`Prove`) and applied at a later one (`Discard`, `DiscardReverts`). Its refinement mapping to
`CommitmentTree` reads the leaves out of the root itself (`LeavesUnder`), so it says that the hashes of the contract
commit to the right leaves at the right places.

**DiscardOrder** is `MerkleTree` without a condition on the order of the discards. Its refinement mapping takes a root that commits to something else than the leaves for
`Unknown`, so `KeepsWeakPromise` says that what finding 1 does to the contract is no more than what `CommitmentTree`, and with it `ZkTeam`, allows.

**AllowanceLedger** (abstract). The account without trees, proofs, nonces or clients: notes, burnt nullifiers, sums granted
and paid; `Grant`, `Spend`, `Discard`. This is what the account is for. `Lapse` is the execution of an operation that meets no such description: `lawful` is false from then on
and the ledger promises nothing any more.

**ZkTeamAccount** is `ZkTeamAccount.sol` together with the part of the EntryPoint that calls it, over `CommitmentTree`.
One action is a user operation (`Execute`, `ExecuteReverts`) or a transaction (`ExecuteByOwner`, `DiscardCommitmentHashes`, `Withdraw`,
`Receive`). A commitment hash hides a nullifier and a secret, both derived from a user's key and an index, and
an amount, so it is a record `[user, index, amount]`. `executions` and `discards` are the events; `granted` and `paid`
are history variables. An operation that is not signed carries the public `signals` of a proof; `SignalsMatch` and `RootsMatch` are the comparisons of `_validateSignature`.
The encrypted allowance is whatever the caller passes: a number (what it decrypts to), `HashZero`, or `Junk`; a nullifier whose entry is `HashZero` is not `Used`. A call is
to somebody else (`Pay`) or of the account to itself (`withdraw`, `discardCommitmentHashes` of one leaf; others revert or are upgrades).

What the account leaves to its callers has a name, `Lawful`: the signals have a proof (`CircuitHolds`, the circuit as a relation), the new commitment is the next one of the same user without a
gap, the encrypted allowance is not `HashZero`, and the account does not call itself. The history variable `lawful` remembers whether all executed operations were.

**ZkTeam** adds the clients and the mempool. A command is a sequence of actions split at the awaits that read or change the
chain: `TransferStart`, `TransferCount` (once per index), `TransferAllowance`, `TransferTree`, `TransferSubmit` for `setTransaction`; `GrantStart`, `GrantCount`,
`GrantSubmit` for `setAllowance`; `DiscardStart` and one `DiscardChunk` per transaction for `discardCommitmentHashes`, with the leaves in any order. Each
has a `...Fails` action: it throws, or the process is killed. `ExecuteOp` leaves the operation in the
mempool, so it may be delivered again; `DropOp` is a bundler that gives up. For users in the constant `Direct`, `UserDirect` is an operation of software other than the library (any
signals about a known root, whether or not there is a proof for them), and `OwnerDirect` is the owner's own call of `execute`.

**EventCache** is `ZkTeamCore.getData`: the lock as a queue of callers, the four requests of the holder
(`phantom`, `latest`, `executions`, `discards`), the cache, and a chain that grows at any time. The events are two lists, and an element of `blocks` says how long
they are at its end (`upTo`): what a query gives for a range of blocks is a piece of them. `Heights` is what the provider
answers (up to `MaxLag` blocks behind), `CallFails` is a request that fails.

**Audit** is the part of `ZkTeamClient.ts` that `ZkTeam` leaves out. A commitment is a record `[user, index, amount]`, an event
its nullifier `<<user, index>>`, the commitment and the allowance somebody *says* was committed to. Users may lie about the allowance or
commit to the key of a `Stranger`, as in `test/AnomalyDetection.spec.ts`. What users pass as encrypted allowance may also be `HashZero` or `Junk`, which do not decrypt. An audit is `StartAudit`, then for user 0, 1, ... the `getLastIndex` of `getAllowance`,
one await per index (`CountIndex`), which ends at no allowance (`PassLastUser`: no more users) or at the last index (`EndCount`), the decryption (`ReadAllowance`, may throw), the second `getLastIndex` (`CountIndex` again), and `TagUser`, the loop over the
logs of the user, which throws at an allowance that does not decrypt. Each of them is an await that first reads what is new (`Fresh`), so events and discards come in during the
walk. A log has both tags of the code, `userIndex` and `valid`. `AuditFails` leaves the tags it set. `DiscardReported` is the admin that discards the report. `AdminPage`, `UserPage` and `UsersPage` are the
listings of `getTransactions` (admin and user) and `getUsers`; `PageEnd` has both forms of `(page + 1) * limit`, for numbers and for the text of the command line's options. The report has one log per nullifier, in the order in which a JavaScript object lists its keys, that is the order
of their first writes (`KeyOrder`), and with the contents of the last write (`LogOfKey`); the listing of the admin counts positions from the newest (`NewestFirst`). Here a note is discarded at most as often as it was inserted, and the account is
reduced to what a spender with a proof can do: a live note, an unused nullifier, no more than the note holds.

**Deployment** is `deployAll` step by step (`script.at` is the function it is in), with the chain: contracts are created at the nonce of the
deployer, its transactions are mined in order, `known` holds what is at fixed addresses (EntryPoint, proxy, hashers). `deployPoseidon`
sends the funds, the presigned proxy transaction and the hashers without waiting; a hasher that was estimated when the proxy had no code may be
mined without effect. The contracts are waited for (`Awaited`), and the file is written at the very end (`WriteFile`). `Dies` ends a run in any
await. `Rebuild` changes a source, `Reset` starts a development chain again, so that the addresses of before are given out anew. The bytecode hash is
(build, address of the linked MerkleTree): constructor arguments are not in it. The history variable `trust` tells whether the file may be believed; see section 3.

**ConfigStore** is `config.mjs`: a command goes from its password to `confirm` (no entry yet: typed again) or through the decryption of the entry to
the `prompts`, then replaces the entry as a whole under a new salt; `Cancel` in any prompt, `delete`, and `Install` of a package with another
factory. A ciphertext is the pair of salt and password that made it, as xchacha20poly1305 refuses any other (`Opens`). `confirmed` is history: the passwords that were typed twice.

The `MC*` modules give the constants their values. Definitions marked *Mutant of ...* are plausible bugs
that show that the properties can fail; they are used by no specification.

## 3. Runs

| Run | Configuration | Shows |
|---|---|---|
| `tree` | `MCTrees.cfg`: depth 3, ring of 3, 8 leaves; scenes "oldest first" and "any order" of the discards | Oldest first: `RootMatchesClients`, the contract's root is the root of the clients' tree; `SubtreesCurrent`, the stored nodes the next insertion reads are current; `OnlyCurrentProofApplies`, a stale discard proof changes nothing; `KeepsPromise`, implements `CommitmentTree`. Any order (see finding 1): `KeepsWeakPromise`, implements the `CommitmentTree` that the account is built on, after the order was broken too |
| `users` | `MCZkTeamUsers.cfg`, scene "library": two users (symmetric), grants of 2, values of 1, fees 0 or 1, ether moving, 3 leaves, 2 operations in the mempool. Scene "direct": grants to one user, who uses other software, and the owner's own calls; encrypted allowances that do not decrypt, calls of the account to itself; explored up to the first operation that is not lawful | `LibraryKeepsLawful`: whatever interleaves, and whatever lawful steps others take, an operation of the library that pays is `Lawful` as long as it is pending. `Budget`: while everything executed was lawful, nobody was paid more than granted. `OnlyFreshProofsPass`, `WalletSound`, `ImplementsLedger` with `Lapse`. Without discards by the admin |
| `discard` | `MCZkTeamDiscard.cfg`: one user, 4 leaves, discards of up to 3 leaves in any order and in chunks of 2 | `TreeAgreement`, `DiscardStopsPending`, `ImplementsLedger`, and the inductive invariant `IInv` |
| `off_chain` | `MCOffChain.cfg`, scene "cache": two callers, 3 blocks, one failure between the two queries | `CacheExact`: the cache is what one read would give. `CallsSeeTheirPast`, `EveryCallReturns` (liveness) |
| | scene "audit": users 0 to 2 and a stranger, amounts up to 1, 3 executions | `AnomaliesReported`: an irregular commitment is reported unless a grant overwrote its nullifier. `FalseAlarmsExplained`: a regular one only if it came after the start, its user is behind one without allowance, or an encrypted allowance below it is 32 zero bytes. `ReportOldestFirst`: discarding the report is in the order the tree needs (finding 1), while no nullifier was written twice. `AllowanceHonest`: a wrong allowance is shown only for a reported or discarded note. `ListedOnce`: pages asked for by number neither lose nor repeat a log. `AuditEnds` (liveness): an audit ends once the account stops |
| | scene "deployment": three runs of the script, two builds, one rebuild, one reset | `FileTruthful`, `FactoryWorks`, `HashersArrive` and `ScriptEnds` (liveness) |
| | scene "tools": two commands, two passwords, three writes, two packages | `EntryOpens`, `FactoryPinned` |
| `tree_any_order`, `late_grant`, `late_spend`, `discard_twice`, `circuit_range`, `cache_retry`, `false_alarm`, `text_pages` | see findings | each violates one statement of the documentation |

A *scene* is chosen by the initial state: the variable `scene` of the `MC` module says which of several components, or which of two instances of one, takes the steps, and the
others stay in their initial states. The states of such a run are the sum of the scenes', not the product, which loses nothing as the scenes share no state.

### Bounds, and why they are enough

* *Depth 3, 8 leaves, ring of 3.* Every combination of left and right turns up to three levels occurs, with insertion at even and odd
  indices, at the last leaf of a subtree and into a full tree (`Insert` is then disabled: the code reverts). The ring wraps more than twice, and 3 does not
  divide 8, so slots and levels are not aligned. The code treats all levels by one loop. Leaves are
  interchangeable: `InFixedOrder` makes them come in one order.
* *Two users, 3 leaves, nonce up to 3.* The interesting races need one grant, and then a spend and a grant, or two spends, at once, by the same or by
  different users. The two users are alike and TLC takes them for one another (`Symmetry`); in the scene "direct" nothing is said of the second. `RootHistorySize` is 2 (5 in the code), so an old root both stays in and drops out of the history.
  `MaxPending` 2 holds the two operations of a race; delivery again needs only one, as operations stay. The runs of the findings have a nonce up to 4.
* *Discard: 4 leaves, up to 3 of them discarded, chunks of 2 (5 in the code).* Three discards are two transactions, with anything in between; two leaves discarded in the wrong order and an insertion behind them
  are what finding 1 takes, and the abstract tree gives `Unknown` then.
* *Scene "direct": nonce up to 3, indices up to 2, one operation in the mempool.* Enough for a grant, an operation without the library and one that is to spend the same note again; the run stops
  behind the first operation that is not lawful, as `Budget` and the ledger say nothing of what follows.
* *Amounts up to 2 (5 in `circuit_range`, where 4 stands for 2^64).* Amounts matter through comparison and subtraction only.
* *Event cache: 3 blocks, each with at most one execution of 2 commitments and any legal discards, provider one block behind, one torn call.* Enough for
  a first read, a read that finds nothing new, a read that continues, and a discard in a later read than its execution. Commitments are alike, so the first one to be executed is `C1` (`FirstIsC1`).

* *Audit: users 0 to 2, 3 executions.* A gap needs three users (one granted, one not, one behind it); an overwritten nullifier a grant, a spend and a grant;
  a report of several commitments needs several irregular spends. An event may come before, between or after any two awaits. A bound on the executions is one on
  the number of indices and users that can come up during a walk: what `AuditEnds` says for an account that goes on for ever is nothing.
* *Deployment: 3 runs, one rebuild, one reset.* What goes wrong takes a run that comes through, a reset, a run that dies half-way and one that completes; and a rebuild
  between two runs, or within one. Every kind of chain, with or without EntryPoint and proxy, is an initial state. With two rebuilds (one million states) the same
  holds, and with two resets and five runs (7.6 million). The proofs of section 4 need no bound.
* *Configuration: two commands, three writes, two packages.* Two commands are enough for one to overtake another in every prompt; three writes are a first entry and one by each.
* The tools know the deployment only as the number of a package.

`FileTruthful` is stated with `trust`. After a reset the file is about a chain that is gone (`"after reset"`); a run that completes puts that right (`"yes"`). A run that dies first
has already given out addresses, and a later run takes whatever has code at a recorded address for the contract (`deploy.ts:85`): from then on the file may be wrong for good
(`"lost"`). TLC finds that behaviour when the case is left out of the property; the repository says nothing about restarted chains, so it is no finding, but a hazard to know.

### Fairness

`EventCache` has weak fairness of `HolderStep`, the steps of the call that holds the lock. Each is the answer or
the failure of a request, and the provider's requests have timeouts; AsyncLock runs the next call when one returns or throws.
Callers, chain and failures are left free: a call may fail every time and still `EveryCallReturns`. `Audit` has weak fairness of `AuditStep`, the answer or failure of the request its walk waits for,
and none of the account: it may execute at any pace, but no more than `MaxEvents` times, and `AuditEnds` rests on that. In the code the loops of `getLastIndex` and `tagLogs` have no bound either: while new indices or
users come as fast as they are read, an audit goes on. `Deployment` has weak fairness of `Mine` and `MineProxy` (a transaction with enough gas is mined some day) and
of `ScriptStep` (the script goes on when what it waits for is there); `Start`, `Dies`, `Rebuild` and `Reset` are free. In `ZkTeam` no fairness is
assumed: a bundler may ignore an operation, a user may stop, and users who make proofs at the same time invalidate one another's without
a guarantee that one of them wins.

`CHECK_DEADLOCK FALSE` is used for the tree, where a full tree whose discards are made, or whose oldest-first order is exhausted, really stops, and for
`off_chain`, where nobody has to call, to audit or to run the script or a tool again; what must not hang there is said by the liveness properties.

## 4. Proofs

TLAPS checks every theorem, for all values of the constants, under these assumptions, all of which TLC evaluates on its runs:

| Assumption | Says |
|---|---|
| `InitRequires`, `LeafNotZero`, `RootNotZero` (`MerkleTree`) | what `init` requires of depth and ring; a commitment hash is not 0; no preimage of 0 under the hash is known, so that the root of a tree is not the value that `isKnownRoot` refuses |
| `AccountSizes`, `ClientSizes` (`ZkTeamAccount`, `ZkTeam`) | `Zero` is no note, what does not decrypt is no number; capacity, bounds, fees and amounts are natural numbers, the ring has a slot, the chunk size is positive |
| `CacheSizes`, `AuditSizes`, `DeploymentSizes`, `StoreSizes` | bounds and amounts are natural numbers, a stranger is no user, what does not decrypt is no number, there is a package |

Every safety invariant and every action property that a passing run checks is stated by a theorem, and every refinement but `KeepsWeakPromise`. Each has an inductive invariant, which TLC has been
shown too; what the invariants contain that the properties do not is the argument:

* `MerkleTreeProofs`, for a tree of any depth and a ring of any size. `RootsAgree` (under `OrderedSpec`, oldest-first discards) rests on `PairsCurrent`: the two stored nodes of every level are the
  children of the node over the leaf that was inserted *last*, as they are now. An insertion reads nothing else (`OddNext`) and leaves the pairs of its own path behind. A discard compares the siblings of its proof with
  the stored nodes *by value* (the test in `update`), and by `OffThePath` this never hits a level where the two paths have parted: a leaf under the stored node, or under the sibling, is newer than
  every discarded leaf, a leaf is in the tree once, and equal nodes have the same leaves under them (`SameNode`).
  This is the step that fails for any other order (finding 1). `LeftNodesCurrent` and `AppliedProofIsCurrent` follow; the latter because a root determines every node on a path (`PathDown`).
  `TreeKeepsPromise` is the refinement: the ring read backwards from `currentRootIndex` (`RootBackIs`) is the list of accepted roots. `TypeCorrect` needs no order of discards.
* `AllowanceLedgerProofs`, `LedgerCorrect`: the ledger keeps `LedgerInv`, that is `LedgerSound` while `lawful`. `Budget` is not inductive: it needs `Covered` (paid
  plus a live unspent note is within what was granted), which needs that nullifiers are burnt without gaps (`NoGap`) and that a note is
  issued by burning the index before it (`NotesFollow`). A grant for a used index adds a note that can never be
  spent, which is why a late grant is harmless for the budget.
* `ZkTeamProofs`, `InductiveInvariant`: `Spec => []IInv`. Its parts:
  - `RootCurrent`: the newest accepted root is the root of the leaves or, when leaves were discarded out of order, `Unknown`; the older ones commit to no more than the leaves;
  - `EventsSound`: the account has under a nullifier what its last event says, so the `CHOOSE`s behind `getEncryptedAllowance` have a value; while all was lawful, nullifiers are used without gaps;
  - `LogsSound`: the p-th event tells of the p-th leaf, which is that commitment or a discarded zero;
  - `ClientsSound`: what a half-finished command or a pending operation relies on for good: indices below its own are used while all is lawful, its commitment, allowance and call are what `Lawful` asks for, and for a proof,
    that its new root is its old root and one leaf behind it (`RootStep`) and that its old note is under the old root.

  The proof has a lemma per action, the steps made without the library among them. `TypeCorrect`, `ProofsAreFresh`, `WalletIsSound` and `TreesAgree` follow from it.
  `ProofsAreFresh` rests on `RootStepUnique`: a root determines the tree before its last insertion, so comparing only the **new** root
  with `simulatedInsert` already implies that an operation of the library was made about the current tree; that `isKnownRoot` accepts older roots never helps a user.
  `WalletIsSound` is about users whose executions encrypt what they commit to (`Truthful`), whatever others do. `TreesAgree` has two conditions, and the code breaks the agreement outside each:
  leaves are discarded in order (finding 1), and no discarded commitment was inserted twice (finding 4).
  `LibraryIsLawful` is the theorem behind the account's trust in its callers: what the library sends for a payment is `Lawful` when it is made, and `OpSound` keeps it so until it is executed, whatever lawful steps come first and whoever takes them.
  `DiscardsStopProofs` (what was proved before a discard is refused after it) needs more than `IInv`: by `ProofsAhead` no proof, sent or half-made, is about more leaves than there are, and one about as many
  is about the very leaves of now or about one that is gone. A tree that loses a leaf can therefore not come back to the tree of an older proof.
* `ZkTeamLedgerProofs`, `Implements`: `Spec => ImplementsLedger`. The notes are the non-zero leaves, the burnt nullifiers those that are `Used` in
  the account. A lawful execution with signals maps to `Spend`: by `RootStepUnique` the old root of its signals is the current one, hence the old note, which `CircuitHolds` finds under it, is a leaf.
  A signed one maps to `Grant`, by the owner's own call too, a discard to `Discard`, an operation that is not lawful to `Lapse`, all others to a stutter. `WithinBudget` then carries `Budget` over
  from `LedgerCorrect`: it has the condition `lawful`, which the account does not enforce by itself, and which by `LibraryIsLawful` holds as long as only the library is used, for payments.
* `EventCacheProofs`, for any number of callers, blocks, events per block, blocks of lag and torn calls. `LockSound`: no caller is owed a block that the provider may not have yet, and the holder of the lock
  reads as far as it is owed. `LogsExact`: `CacheExact`, extended to the time between the two queries of a call. It has two conditions: no call failed between its queries (finding 6), and no commitment that was discarded came twice. `NothingMissing` and `NoDiscardMissing` need neither: whatever went wrong before, no execution and no discard that was read is missing
  from the cache. `ChainSound` (blocks follow each other, a discard comes later than its commitment) makes the pieces of the lists that the queries return fit together. `CacheIsExact` and `CallsSeeAll` follow.
* `AuditProofs`, for any number of users, executions and audits, complete and failed ones. `CacheSound`: the cache tells what the executions say, and only logs of users carry a tag. `WalkSound`: the current log of every
  user before the walk's is tagged if it was there when the walk began and something else than 32 zero bytes is encrypted in it, unless it is `Hidden` behind a user or an index that has no allowance; at the end that holds of every user. What the walk relies on across its awaits
  is that an index once in use stays so (`ExecutionsSound`: nothing is `HashZero` again), hence what it has `Counted`. `NothingIrregularPasses`, `FalseAlarmsHaveReasons` and `AllowancesAreHonest` follow.
  That `getLastIndex` ends is the pigeonhole principle (`LastIndexDef`): there are fewer logs than indices. `ReportsComeInOrder` and `PagesListOnce` are about the two sequences: both
  sort by a *rank*, the number of members up to a given one, which is a bijection (`KeysInOrder`, `KeysNewestFirst`), and a page is the ranks between two multiples of the limit
  (`PageExists`, `PageUnique`), so that a log is on one page once for **every** positive limit, where the run checks two. This is about pages asked for by number (finding 8 is about text).
* `DeploymentProofs`. `InductiveInvariant`: a creation carries the hash of a real build, and a factory the MerkleTree of its hash (`CreationsSound`); what the script waits for is the
  contract of its step, on the chain or on its way at the right place of the queue (`AwaitsCreation`); the verifier is in the script's copy before the factory is sent, and the linked
  factory before the file is written (`Progress`). Contracts stay where they are because a nonce is used once (`CodeGrows`). Steps that change no contract are `Quiet` and share one lemma.
  `FileIsTruthful` and `FactoryIsWorking` hold on every chain, with any number of new starts, by `StaysBelievable`. Its crux is a chain that is started again under an old file: why does the script never take
  something else for a contract whose old address happens to be given out again? Because every transaction of the script has a *place*: `deployAll` sends them in one order, so none is ever mined with a nonce below its place
  (`Places`), which holds for the old addresses too, whatever runs, deaths and skipped steps gave them out; while the first run after a new start has sent exactly the
  transactions before its step (`FirstRun`), so that no old address has code yet when `checkDeployed` looks at it. This is an argument about the order of the calls in
  `deployAll` (`deploy.ts:169-175`) that the code does not make: a step moved, or a transaction more, would end it.
* `ConfigStoreProofs`: `Spec => []IInv`, and from it `StoreTypeCorrect`, `EntryAlwaysOpens` and the action property `FactoryStaysPinned`. `EntryOpens` is not inductive: a later `init` writes under the
  password with which it opened the entry, which may be gone by then, so `PromptsSound` carries that password through the prompts. `FactoryPinned` needs that salts are
  never drawn twice (`ReadSound`).

The models have recursion over the levels of a tree (functions, as in `DefaultZero[i]`). The prover does not know that such a definition has a value, nor has it induction over
an operator, so `MerkleTreeProofs` starts with both: induction for a *set* of numbers from the pigeonhole principle (`SetInduction`), and one lemma per recursive function that it exists and is what its equation says (`NodeOfDef`,
`PathNodesDef`, ...).

Model-checked only: the liveness properties (`EveryCallReturns`, `AuditEnds`, `HashersArrive`, `ScriptEnds`), which need `ENABLED`, `KeepsWeakPromise`, and the eight runs that expect a violation.

## 5. Findings

1. **`tree_any_order`** (code). `update` decides that a stored pair is on the path when the proof's sibling *equals* the stored node
   (`MerkleTree.sol:238-250`). Insert three leaves, discard the second, then the first: the sibling of the first is now 0, which equals the
   stored (empty) neighbour of the third leaf, whose stored copy is overwritten with 0. From the next insertion on, the contract's root is
   nobody's root and no proof is accepted. The test discards in one call, in the order of the events (oldest first), which hides it;
   `MerkleTree` is correct for that order (`OrderedSpec`).
2. **`late_grant`** (documentation). An index is used between the admin's lookup and the execution of the grant: in the trace another grant for it is executed, and the user spends from that. The operation
   succeeds, the nullifier of an index in the past is overwritten, and the allowance of the user is not the one that was set.
3. **`late_spend`** (documentation). The mirror image inside `generateProofInputs`: allowance and tree are read at different moments, so a
   transfer can spend the note of before a grant, and the grant is lost.
4. **`discard_twice`** (documentation). Commitment hashes are a function of user, index and amount. Two identical grants at one index give
   the same hash twice; the discard removes one leaf.
5. **`circuit_range`** (code). `GreaterEqThan(64)` has no witness when the rest of the allowance is 2^64 wei or more, although allowances up to
   2^128 - 1 are accepted.
6. **`cache_retry`** (code). When the second query of `getData` fails, the logs of the first stay while `blockIndex` does not
   move. The next call appends them again: the client's tree is wrong until a new client is made.
7. **`false_alarm`** (documentation). The README says that `checkIntegrity` "returns all commitmentHash that are incorrect". Its walk ends at the first user without an
   allowance, and a log without a tag counts as incorrect: after a grant to user 2 alone, as in the README's own example, that regular commitment is returned, and would be discarded.
   `FalseAlarmsExplained` says what the other reasons are. "All" is no more exact in the other direction: a late grant (finding 2) overwrites the log of an irregular spend under its nullifier, and its commitment, still in the tree, is
   not returned; that is the exception of `AnomaliesReported`, which says that nothing else is missed.
8. **`text_pages`** (documentation). `--page` and `--limit` reach `getTransactions` as text, and `(page + 1) * limit` concatenates: page 1 ends at 11 times the limit, so it holds
   more than `limit` transactions and repeats what the next pages show.

## 6. What the models assume

* The account does not check everything that its ledger needs. It takes the success of the call to the verifier for a valid proof (`ZkTeamAccount.sol:107-108`), an entry `bytes32(0)` for a nullifier that is not
  used (98, 129), any commitment and nullifier the circuit does not relate (`zkteam.circom` does not bind the new nullifier to the old one, nor the encrypted allowance to the new allowance), and `dest` may be the account itself (132). The model has all of these steps; `Budget` and `Implements` are stated
  for as long as operations are `Lawful`, a condition on the callers that the library meets (`LibraryKeepsLawful`). Nothing is claimed for callers who do not meet it.
* Hashes are collision free and encryption is correct. A proof that the client verified before sending is accepted by the contract. `CircuitHolds` is the relation that the circuit is
  written for, with its 64 bit comparison; its constraint system is not modelled.
* Addresses and contents of calls are `Pay` and the account's own two functions; a call that pays somebody else does nothing to the account but take its ether.
* A client of `ZkTeam` is a process of the command line: an empty cache, one command. Each read of the events is atomic and current, which
  `EventCache` justifies under `CacheExact`'s conditions: JavaScript runs to completion between awaits, and the lock keeps readers apart.
* Events of a range of blocks are complete when the provider answers; there are no reorganisations.
* `discardCommitmentHashes([])` is a stutter. A failed prefund or validation leaves the state alone, so such a delivery is no action.

* `Audit`: what a read returns is current (as above), and a discard of the report goes through as one step; its chunks and their races are in `ZkTeam`.
* `Deployment`: one run at a time (two would share the nonces of one account), a transaction of the script is never dropped, the development chains mine each transaction
  before the script goes on, the EntryPoint is deployed with one transaction, and two different contracts or builds never have the same hash. `deployAll` also has a variable `cache`,
  which changes nothing that is kept.
* `ConfigStore`: the steps between two prompts are atomic (the file is read and written synchronously), salts are distinct, and a decryption with a wrong key throws.

### Not modelled

* `ZkTeamAccount`: the deposit at the EntryPoint (`addDeposit`, `withdrawDepositTo`: one call that moves ether only) and upgrades.
* `ZkTeamVerifier` and `ptau-data/` are generated; the constraints of the circuit are modelled by the relation they enforce.
* `VerifyingPaymasterAPI` (its effect is a fee of 0), ABI encoding, gas limits, tables and receipts of the command line, `example/`.
* `getAccount` and `getAccounts` read a balance and whether there is code, and keep nothing.
* Reorganisations of the chain below `blockIndex`: the code has no handling of them to model.
* The limit of 1000 waiting calls of AsyncLock (a large `getUsers`) belongs to that library.

Not among the hazards, because any test of the command shows it: `allowance` passes user 0 to `setAllowance` whatever user it was given (`zkteamAdmin.mjs:94`). A hazard that no property
decides: after a build of the verifier alone the factory keeps the old one, as its constructor arguments are not in the hash that is compared (`deploy.ts:137`). A discarded note goes on being shown as an allowance, which `AllowanceHonest` counts among its exceptions.

## 7. Plan

Done: the tree and its promise; the account and its clients over that promise; the ledger and the refinement to it; the event cache; the audit and the
listings; the deployment script; the configuration of the tools; theorems for every safety invariant and action property that a passing run checks. Left:

1. Deposits and the paymaster in `ZkTeamAccount`, with the ether invariant they belong to.
2. Proofs: `KeepsWeakPromise` for every depth, and with it that the account over `MerkleTree` is the account over `CommitmentTree`.
3. Reorganisations, if the client gets to handle them.
