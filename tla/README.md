# ts-ethereum in TLA+

A verification development of the ts-ethereum client: TLA+ modules of the parts
in which order, concurrency and failure matter, TLC configurations that check
them on small instances, and theorems about them checked by the TLA+ proof
system. Paths below are relative to `src/packages/`.

1. [The system](#1-the-system)
2. [Modules](#2-modules)
3. [Runs](#3-runs)
4. [Fairness](#4-fairness)
5. [Theorems](#5-theorems)
6. [What the code does otherwise than it says](#6-what-the-code-does-otherwise-than-it-says)
7. [Abstractions, and what is not modelled](#7-abstractions-and-what-is-not-modelled)
8. [Plan](#8-plan)

## 1. The system

An execution-layer node. All of it runs on one JavaScript thread: what
interleaves are asynchronous calls, which lose control only at an `await`, and
what keeps them apart are promise-based locks (`utils/src/lock.ts`).

| Component | State | Operations | Talks to |
|---|---|---|---|
| **Block store** `blockchain/src/blockchain-functional` | headers with total difficulties, bodies, number index; `heads`, `headHeaderHash`, `headBlockHash`, `deletedBlocks` | `putBlock(s)`, `putHeader(s)`, `resetCanonicalHead`, `setIteratorHead`, `iterator` | DBManager (one batch per method), consensus, event `deletedCanonicalBlocks` |
| **DBManager** `blockchain/src/db` | per-target LRU caches over a level database | `get`, `batch` | block store, VMExecution (direct batches) |
| **Consensus** `blockchain/src/consensus` | clique: signers, votes, recent signers | `validateDifficulty`, `newBlock` | called by the block store inside `putBlock` |
| **Chain** `execution-client/src/blockchain/chain.ts` | cached `headers`/`blocks` (height, latest, td) | `putBlocks`, `resetCanonicalHead`, `update` | block store; emits `CHAIN_UPDATED` |
| **VMExecution** `execution-client/src/execution` | lock, `started`, `running`, `chainStatus`, `pendingReceipts`, `vmPromise` | `open`, `run`, `runWithoutSetHead`, `setHead`, `checkAndReset`, `stop` | chain, iterator `vm`, VM, receipts |
| **Skeleton** `execution-client/src/service/skeleton.ts` | subchains, `started`, `filling`, tails and heads in the meta DB | `initSync`, `setHead`, `putBlocks`, `backStep`, `fillCanonicalChain` | engine API, BeaconSync, chain |
| **Engine API** `execution-client/src/rpc/modules/engine` | remote/executed block maps, CL status | `newPayload`, `forkchoiceUpdated`, `getPayload` | VMExecution, skeleton, pending block |
| **Fetchers and synchronisers** `execution-client/src/sync` | job heaps `in`/`out`, `processed`, `finished`, `total`, peer pool | `next`, `success`, `failure`, `expire`, `store` | peers, chain, skeleton |
| **TxPool** `execution-client/src/service/txpool.ts` | pending/queued transactions by sender, handled and known hashes | `add`, `promote`, `demote`, `newBlocks`, `cleanup` | chain, peers |
| **Block building** `execution-client/src/miner`, `vm/src/buildBlock.ts` | pending payloads, a block builder each | `start`, `stop`, `build`, `assemble` | txpool, vm |
| **Discovery** `kademlia/src` | k-buckets, ban list, outstanding requests | ping/pong, `findneighbours`, eviction | UDP |
| **State** `state-manager`, `merkel-trie` | account/code/storage caches with checkpoints, trie nodes with checkpoints | `checkpoint`, `commit`, `revert`, `flush` | VM/EVM |
| **VM/EVM** `vm`, `evm` | journal, warm addresses, interpreter stacks | `runBlock`, `runTx`, `runCall` | state manager |
| **Network, RPC, configuration** | connections, rate windows, hardfork tables | request/answer | peers and callers |

### Where it is hard

* *Reorganisations under a running execution.* The iterator drops the store's
  lock around its callback. While a block is executed the block may leave the
  chain, the chain may be cut below it, and the iterator's own head may be
  redirected.
* *Two locks, three writers.* VMExecution has a lock, the store another. The
  sync service puts and resets under the store's lock alone, so it interleaves
  with every `await` of `run`, `runWithoutSetHead` and `setHead`.
* *Cached heights.* The skeleton decides what to put by the height of the last
  `chain.update()`.
* *Crashes.* The index is written by each batch, the iterator head only when a
  run ends; blocks are executed again, and pointers are read back that must fit
  the index.
* *Half failures.* Consensus can reject a block after its batch was written; a
  rebuild can run into a parent that is not stored; a block can be found
  invalid after its state was committed.
* *Rolling back.* A call that fails must leave no trace in accounts, storage,
  touched and warm addresses and transient storage. Each has its own way of
  rolling back (diff maps per height, a list of diffs with heights, a list of
  changes with indices), and the cache in front of the trie also changes on reads.
* *Downloads.* Jobs are answered late, in part or not at all, expire and are
  asked for again, and are to be stored in order; heads move while they are under
  way, and fetchers are torn down with requests open.
* *A skeleton that moves.* The consensus client announces another branch while the
  skeleton is filled into the chain, which cuts the chain back and deletes blocks.
* *Ending.* `stop` waits behind a looping run, which only ends early once
  `stop` has flipped a flag under the lock both want.

### What makes each component correct

* Block store: the number index is the ancestry of the head header; iterator
  heads are on it; what is on disk is what the node had; a reorg never moves an
  executor past blocks it did not execute; what leaves the chain is announced.
* VMExecution: the vm head is a block whose state exists; only blocks that fail
  on their parent's state count as invalid; runs return, stop closes, and a
  closed database is left alone.
* Skeleton: the first subchain is a chain of blocks that are still stored; a fill
  never gets stuck and loses no block; a skeleton that is not linked is fetched until it is;
  the head that is announced ends up on the chain, also after a restart.
* DBManager: a read returns what the last completed batch wrote.
* Fetchers: every job is in one place and counted once; results are stored in
  order; no number of the range is forgotten; the node catches up.
* TxPool: every hash is in one list; the counts are the contents of the lists.
* Discovery: a bucket holds at most k contacts and a live one is not evicted;
  a request is answered or timed out once.
* State and EVM: what `revert` leaves is what `checkpoint` found, in all four
  stores; the root that is flushed is the state; no empty account stays; storage
  goes with its account.

`PROJECT.json` lists the hazards at their lines, each with the property that
would catch it, or why there is none yet.

## 2. Modules

| Module | Models | Extends |
|---|---|---|
| `BlockTree` | the blocks a node can meet: hash, number, parents | |
| `CanonicalChain` | abstract: one canonical chain with cursors | `BlockTree` |
| `Blockchain` | `BlockchainManager`, its helpers and iterator | `BlockTree` |
| `MCBlockchain` | seven blocks on three branches, for TLC | `Blockchain` |
| `VMExecution` | `vmexecution.ts` over the store, with the sync service | `Blockchain` |
| `VMHeadHistory` | the same with a history variable: did the last commit of `setHead` lose the race? | `VMExecution` |
| `MCVMExecution`, `MCVMHeadHistory` | four blocks on two branches, for TLC | `VMExecution`, `VMHeadHistory` |
| `BlockchainProofs` | theorems about `Blockchain`, and about `VMExecution` over it | `VMHeadHistory`, `TLAPS` |
| `Skeleton` | `skeleton.ts` over an abstract chain, with the calls of engine API, synchroniser, fetcher and restart | `BlockTree` |
| `SkeletonProofs` | theorems about `Skeleton` | `Skeleton`, `TLAPS` |
| `MCSkeleton` | six blocks on two branches, for TLC | `Skeleton` |
| `Fetcher` | `sync/fetcher` and the synchronisers that drive it | `BlockTree` |
| `MCFetcher` | eight blocks on two branches and two peers, for TLC | `Fetcher` |
| `CheckpointStack` | abstract: a map and a stack of saved maps | |
| `AccountCache` | account cache, its diff maps and the account trie with its checkpoints | |
| `AccountCacheProofs` | theorems about `AccountCache` | `AccountCache`, `TLAPS` |
| `StateManager` | `merkleStateManager.ts`: the accounts with their storage | `AccountCache` |
| `StateManagerProofs` | lemmas about every operation of `StateManager` | `StateManager`, `AccountCacheProofs` |
| `Journal` | `evm/src/journal.ts` | |
| `JournalProofs` | theorems about `Journal` | `Journal`, `TLAPS` |
| `TransientStorage` | `evm/src/transientStorage.ts` | |
| `TransientStorageProofs` | theorems about `TransientStorage` | `TransientStorage`, `TLAPS` |
| `EVMStateProofs` | theorems about `EVMState`: its use of the accounts, the transient storage and the journal, types, empty accounts | `EVMState`, `StateManagerProofs`; instances of `TransientStorageProofs`, `JournalProofs` |
| `EVMWorldProofs` | theorems about `EVMState`: accounts with their storage, roots, original values | `EVMStateProofs` |
| `EVMState` | `runBlock`, `runTx`, `runCall` and what contracts do, over the state | `StateManager`; instances of `Journal`, `TransientStorage` |
| `MCEVMState` | three addresses and two slots, for TLC | `EVMState` |

### BlockTree

A block stands for its hash. A header commits to its parent and its number, so
these are constants: `Number[b]`, and `Path[b][n]`, the ancestor of `b` at
number `n`. `Path` is a constant rather than a recursion on parents, which is
what lets the theorems hold for any tree; `BlockTreeAssumption` says what
hashing gives and TLC evaluates it for the trees of the runs.

### Blockchain

| TLA+ | Code |
|---|---|
| `td` (domain: stored headers), `bodies`, `index` | the database: `TotalDifficulty`/`Header`, `Body`, `NumberToHash` |
| `heads`, `headHeader`, `headBlock`, `deletedBlocks` | `_state` of the manager |
| `disk` | the pointers as `createSaveHeadOps` last wrote them |
| `emitted` | the argument of `deletedCanonicalBlocks` in this step |
| `it[name]` | the local variables of a running `iterator` |
| `PutCanonical`, `PutSide`, `PutRejectedByConsensus`, `PutGenesis` | the ways through `_putBlockOrHeader` that write; `newBlock` rejects blocks on the canonical chain and beside it |
| `ResetCanonicalHead`, `SetIteratorHead` | the methods of these names |
| `IteratorStart`, `IteratorAdvance`, `IteratorReorged`, `IteratorThrow` | the iterator up to its callback, and from its return |
| `Restart` | a crash between two batches and `createBlockchainManager` |

A method runs under the manager's lock and commits one batch, so it is one
action. A method that throws before its batch is no action: the catch block puts
the pointers back. `HasCommonAncestor` and `CanDelete` are those throws.
The iterator is split where it releases the lock (`releaseLockOnCallback`, as
`run` calls it). `DeletedFrom`, `RebuiltBy` and `RebuildEnd` say declaratively which numbers
the three loops of `chain-helpers.ts` visit: deletion goes up until the
first missing entry, the rebuild goes down until an entry is already right,
genesis, or a parent that is not stored. In the last case the code empties
`staleHeads`, hence `RebuildComplete`.

`IteratorStart` carries the first pass of the loop, in which `lastBlock` is
undefined: a reorganisation during the first callback is not flagged, which is
what the second finding is about and why `IteratorInSequence` has its `ran = 0`.

### VMExecution

| TLA+ | Code |
|---|---|
| `queue` | `_lock`: its holder followed by those waiting, in the order they will be served |
| `run`, `exec`, `set`, `stop` | the pending call of `run`, `runWithoutSetHead`, `setHead`, `stop`: where it is and its local variables |
| `started`, `status` | the fields; `Running` is `this.running` |
| `states` | blocks whose state root `hasStateRoot` finds |
| `height`, `updating` | `chain.headers.height`, and a sync service between its put and its `chain.update()` |
| `SyncPut`, `SyncReset`, `SyncUpdate` | `fillCanonicalChain` and the syncers' `putBlocks` |
| `RunCall`, `RunBegin` | `run` up to the lock; with it |
| `RunIterate`, `RunReturn` | the condition of the while loop |
| `RunIteratorStart`, `RunExecute`, `RunNextBlock`, `RunFail` | the iterator, the callback and its catch handler |
| `ExecCall` ... `ExecReturn` | `runWithoutSetHead`, whose batch goes past the store's lock |
| `SetCall` ... `SetThrow` | `setHead`; `FirstToPut` is the list `forkchoiceUpdated` and `recursivelyFindParents` build |
| `StopCall`, `StopFlip`, `StopAwait`, `StopClose` | the four parts of `stop` |
| `VMRestart` | a crash and `open` |

A step ends where the code awaits something another actor can get in front of.
`started` and `running` are tested before the lock is waited for, as in the code.
`runBlock` commits the state before it compares gas, receipts and blooms with the
header, so `StatesAfterFailure` leaves open whether an invalid block's state stays.

`VMHeadHistory` adds `raced`, which restricts no step: the last commit of a `setHead`
gave the vm head to a block that had left the chain after `SetCheck` had found it there.

### Skeleton

| TLA+ | Code |
|---|---|
| `tip`, `known` | the canonical chain, as `CanonicalChain` promises it, and the blocks of its database |
| `sk`, `byHash` | `SkeletonBlock` by number, `SkeletonUnfinalizedBlockByHash` |
| `status`, `disk` | `this.status` and `SkeletonStatus`; subchains are objects, since a fill keeps a reference to one |
| `lock` | `_lock`, with what its holder has still to write |
| `fill` | the running `fillCanonicalChain`: where it is, its subchain and its height |
| `fcu` | the pending `forkchoiceUpdated`, or what is left of the node's start |
| `running`, `looping` | `BeaconSynchronizer.running`, and whether the loop of its `start` is still there |
| `remote` | `remoteBlocks` of the connection to the consensus client |
| `SetHead`, `ProcessNewHead`, `Reorged`, `Merge` | `setHead` and the methods it calls |
| `PutBlockOf`, `WriteSyncStatus` | `putBlocks`, block by block, and the write at the end |
| `FillReset` ... `FillBackStep` | the parts of `fillCanonicalChain` between its awaits |
| `NewPayload`, `FindsHead`, `ForkchoiceUpdate`, `FcuBackfill`, `FcuFill` | the engine API's calls while the node syncs |
| `FcuRestart` | `reorged()`: stop and start of the synchroniser, when `forkchoiceUpdate` returned `reorged` |
| `Start`, `LoopEnds` | `BeaconSynchronizer.start`: a loop if the skeleton is not linked, else only a fill; the end of a loop that was told to stop |
| `Fetching`, `Fetch`, `FetchOther` | `syncWithPeer` inside a loop, and the reverse fetcher's `store`: the block asked for, or another |
| `Restart`, `Open`, `BootStart` | a crash at any point, `BeaconSynchronizer.open`, and the two calls of `start` that follow |

Nothing is fetched but by a loop. `start()` enters one only when the skeleton is not linked; on a
linked skeleton it starts a fill and ends. What starts it again is `reorged()`, for a forkchoice
whose `processNewHead` returned true: a head announced again, or one on top of it, is no reorg.
So a fill that steps back with no loop left leaves the skeleton without a fetcher (`Stranded`, fifth finding).

`faults` records three things after which promises of the skeleton do not hold: a
crash between the write of a block and that of the status (`torn`), a fill
that clears `canonicalHeadReset` right after `setHead` raised it for another
subchain (`flag`), and a head that is moved onto a stale parent (`stale`, see section 6).
All are steps of the code and stay in the model. `Backed` is about the behaviours without
any of the three, `Filled` about those without the first two: a subchain on a stale parent is
no chain, but the fill finds that out and the back step repairs it. `Filled` also excepts
the behaviours that end stranded. `PROJECT.json` has all four as hazards.

### Fetcher

| TLA+ | Code |
|---|---|
| `f.in`, `f.requests`, `f.out`, `f.pipe`, `f.writing` | the heaps `in` and `out`, the requests under way (those that expired too), the readable stream, and the jobs in `write` |
| `f.total`, `f.processed`, `f.finished`, `f.running`, `f.errored` | the fields of these names |
| `loop`, `sync` | `_fetch` and `sync()`: running, or waiting |
| `peers` | the pool: idle, busy, resting until idle again, banned |
| `td` | `peer.eth.status.td`: what each peer stated at its last handshake |
| `FetchLoop`, `FetchWake` | `_fetch` with `next`, up to where it sleeps; and from there |
| `Answer`, `ShortAnswer`, `LongAnswer`, `Failure`, `Expire` | the ends of a request; `process` drops a result with more blocks than were asked for |
| `WriteBegin`, `WriteEnd`, `ReadMore` | the writer; `WriteEnd` has `store` and `StepBack`, what a failed store puts back |
| `BestTd`, `SyncFull`, `SyncBeacon`, `StartFetch`, `ClearFetcher` | the synchronisers |
| `HandleNewBlock`, `HandleNewBlockHashes`, `BeaconSetHead` | announcements of peers and consensus client |

`best()` compares total difficulties, here the numbers of blocks: the chain's own with the one
in the status of each peer, which is that of its handshake and is renewed only
when the peer connects again. How far to fetch is asked of the peer then: `latest()` (`net/peer/peer.ts:91`) reads its
head by the hash of the handshake, or a later one by number, so that any height from
the stated one to the present one may come back.

A failed store of a `BlockFetcher` is always fatal: `isFatalError` looks for "could not find
parent header", which nothing throws (`blockfetcherbase.ts:236`). The branch
"Non-fatal error: ban peer and re-enqueue job" (`fetcher.ts:494`) is left to the
reverse fetcher.

### State and EVM

| TLA+ | Code |
|---|---|
| `cache`, `diffCache` | `AccountCache._orderedMapCache`/`_lruCache`, `_diffCache` |
| `trie`, `roots` | the map behind `_trie.root()`, and the roots its checkpoints hold |
| `slots`, `slotDiff`, `storageTries` | `StorageCache` and `_storageTries` |
| `journalHeight`, `journalDiff`, `touched`, `warm`, `warmSlots` | `Journal` |
| `transient`, `changeJournal`, `indices` | `TransientStorage` |
| `originals` | `OriginalStorageCache` |
| `frames` | the messages being run, with their `selfdestruct` and `createdAddresses` |
| `RunBlock`, `BlockCheckpoint`, `Reward`, `BlockCommit`, `BlockRevert` | `runBlock` |
| `RunTx` ... `TxCommit` | `runTx`, with `journal.cleanup` address by address |
| `Message`, `Enter`, `ExecuteCall`, `ExecuteCreate`, `Stop`, `Return`, `Throw` | `runCall` and the two executions |
| `SLoad`, `SStore`, `TStore`, `SelfDestruct` | the operations that change the state |
| `FlushSlots`, `FlushEnd` | `flush`, when the last checkpoint is closed |

An account is what the code asks of it: empty, with a balance only, or with a
nonce or code, and its storage root. A trie is the map it stands for. One
action of `EVMState` moves the state manager, the journal and the transient
storage together, as `journal.commit` and its like do. `CheckpointStack` is
the promise all of them make, and each has its mapping: `saved[i]` is what a
revert to checkpoint `i` would bring back.

The definitions introduced by "Mutation:" belong to no specification. Each is a
plausible mistake in the definition that follows it or uses it. `PROJECT.json` lists which
property each one breaks, as evidence that the properties say something.

## 3. Runs

`tlc -config <run>.cfg <module>` in this directory.

| Run | Question | Distinct states |
|---|---|---|
| `blockchain_pos` | Do index, heads, disk and iterator stay one canonical chain when every accepted block becomes the head? Does the store implement `CanonicalChain`? | 8 668 |
| `blockchain_pow` | The same when the heaviest block wins, with bare headers and blocks without parents; is the head the heaviest? | 5 041 |
| `blockchain_poa` | What is left when consensus rejects a block after its batch, and is it repaired? | 32 154 |
| `vm_engine` | Is the vm head always executed unless `setHead` lost its race, with every call of the engine API node, fills and resets in flight? Does every run return and stop close; is nothing done after it? | 699 274 |
| `skeleton` | Does the first subchain stay backed, is no block lost, and does the announced head come to be on the chain, with reorgs during the fill, stale parents and a restart? | 280 210 |
| `fetcher` | Is every job accounted for and stored in order, and does the node catch up, with bad, short, long and late answers and peers that grow or reorganise? | 304 785 |
| `state` | Do accounts, storage, journal and transient storage roll back to their checkpoints, and is the flushed root the state? | 83 700 |
| `blockchain_receipts`, `vm_first_block`, `vm_head_race`, `skeleton_stranded`, `state_selfdestruct` | the findings of section 6: TLC must find the property violated | |

**What the properties say.** `CanonicalIndex`, `HeadsCanonical`,
`CrashLosesNothing`, `HeadBlockIsHead` and `HeaviestHead` relate the parts of the
store's state. `ReorgOnlyRewinds` says what a reorg may do to an executor,
`IteratorInSequence` what an iterator hands over. `IndexIsAncestry` and
`HeadMoveRepairsIndex` are what is left of `CanonicalIndex` under a consensus
that may throw: memory and database disagree for a while (the rejected block's
index is there, the old pointers are kept), the index is still a complete
ancestry, and the next move of the head makes both agree. `VmHeadExecuted` says
the node can go on executing from its vm head, now and after a crash; the code does not
keep it (third finding). `OnlyRaceLosesHead` says that one race is all that
breaks it: not the heights the fill goes by, which may be old, nor resets, reorgs,
failures or crashes.
`ClosedIsQuiet`, `RunReturns` and `StopCloses` are about shutting down. The last two say that
batches have more than one block (`MaxBlocks > 1`): `numBlocksPerIteration` has no minimum, and with a batch of
one a failing block counts as a full batch (`vmexecution.ts:612`, `860`), so that `run` tries it again
without end and `stop` waits for the lock. For that batch size both are false.

`Backed` relates the status of the skeleton to the blocks that are stored,
`NothingLost` follows a block from the skeleton into the chain, `FillNotStuck` says that the
fill's own check of the tail never fails, and `Filled` that it all leads
somewhere, unless the skeleton is stranded; `FetchesAgain` says that it never is, which
the code does not keep. `JobsAccounted`, `StreamInOrder` and `NoneForgotten` tie the counters
of a fetcher, its queues and its range together; `CatchesUp` is the purpose of it, for full sync
unless the chain has become heavier than every peer in the pool was at its handshake (`Outweighed`).
`WorldCheckpoints`, `JournalCheckpoints` and `TransientCheckpoints` are refinements of
`CheckpointStack`, as is `ImplementsStack` for the accounts alone. `Coherent`
and `RootIsWorld` say when cache and trie agree, `ComponentSteps` that the EVM
drives the accounts and the transient storage only by the steps `AccountCache` and
`TransientStorage` have, each where its guard allows it, so that what is proved
of the two holds here. `OriginalIsTxStart` and `NoEmptyAccounts` take
several calls, some of which fail, to violate.

**Bounds.** The store's state space is finite without a bound: `td`, `index` and
the pointers are determined by blocks, and an iterator makes at most `MaxBlocks`
callbacks (3 in `blockchain_pos`, so a run covers first, second and last callback
with a reorg in each). The tree has a fork above `a1`, a fork at genesis, and
branches of equal and of different length, so a reorg goes up, sideways and down,
past an iterator head, at it and below it. One iterator is enough as iterators do
not read each other; the theorems are for any set of them. The work
difficulties make one branch longer, another heavier, and a block of number 1
heavier than two.

The `vm_` runs bound the calls, puts, resets and crashes that come in by
`MaxEvents`; what the node does with them is unbounded. Six events reach a
put, a payload and a forkchoice update with a reorg, a run and a crash among
them; the shortest violations found need 4 and 6. `OnlyRaceLosesHead` holds for any
number of events, which is proved. One call of each method can be pending: a second `run`
returns at once, and further `setHead`s queue behind the first. Deadlock is not
checked there, since a stopped node with its events used up may stop for good.

`skeleton` allows three events (a new head, a payload that is repeated, a stray
answer, a call that ends early, a restart), of which one may be a restart; the consensus client repeats
its head without a bound, also while a fill or a fetch is under way. `skeleton_stranded` needs one branch and two events, a restart among them. Its branches fork above `a1`, so a new head makes the fill
go back below what it has filled; one is three blocks longer than the fork, so that with
three announcements, to and fro, a head comes to stand on a stale parent. `BackStep` is 1.
A random simulation by hand of eleven blocks on three branches with eight events, two of them restarts (45 million
states), found no other exception to `Backed`, `FillNotStuck` and `NothingLost`. `fetcher` has two peers and jobs
of two blocks. Full sync has two jobs once the peers have grown, the beacon fetcher has them from the beginning,
so that jobs overtake each other, and a store of the first fails with the second already in the
pipe. Two events suffice for an answer that is short and then late, for peers that
move to another branch between the two jobs of a fetch, or for peers that grow twice: by then the chain may be
heavier than what they said at the handshake and still below what they have. Larger values multiply
states without another kind of job. In `state` a call is at most one call deep
below the transaction's, two transactions fall into one or two blocks, and there are at most four messages or
operations, which together with transactions and blocks are no more than `MaxSteps`, 6: with one block and one transaction
enough for two writes to a slot in a call that fails within one
that returns, with two blocks of a transaction each for a creation and a later message to what it made. `state_selfdestruct` allows 9.
The theorems of section 5 about this module hold without any of these bounds.
The slots are interchangeable, which `SYMMETRY` uses. None of the three checks deadlock: a node with nothing to
fetch or fill, or a chain with its blocks used up, may stop.

`state` is after Cancun (`EIP6780`). Before it `StorageGoneWithAccount` is violated, which is the fourth finding.

`VmHeadExecuted` alone is violated within six events when the chain is reset, which is what
`vm_head_race` finds. Without resets it takes nine: two blocks put by the sync service
between check and commit do the same, which the proof attempt brought to light and TLC
confirmed on a guided run.

## 4. Fairness

`VMSpec` assumes weak fairness of `RunStep`, `ExecStep`, `SetStep` and `StopStep`:
the event loop returns to each pending call whose promise has resolved. A call
is in one place at a time and waits either for its own I/O or for the lock,
whose release resolves the first waiter's promise, so weak fairness is all that
is needed. Nothing is assumed of callers, of the sync service or of crashes.
`Blockchain` and `EVMState` state safety only and have no fairness.

`Skeleton` assumes strong fairness of a fill's and of a forkchoice call's steps, of the fetcher's
answer and of the repeated forkchoice: each waits for the skeleton's lock, which
other calls take in between, and lock and event loop serve those waiting in turn. That a peer delivers in the
end and that the consensus client repeats its head are assumptions about the world outside. `Fetch` is
only enabled while a loop of the synchroniser is there, so its fairness does not make up for a loop that
nobody started; that is left to `FcuRestart` and `BootStart`, with the guards of the code. Nothing is assumed of `LoopEnds`:
a loop that was told to stop may still see the next start.
`Fetcher` assumes weak fairness of the steps that go on by a timer, a stream or an
answer, that `latest()` comes to return the peers' head again and again while `best()` finds a peer
(`SyncFull(Number[target])`), and that the consensus client announces its head. It assumes nothing of
announcements of new blocks between peers, of failures, long, short or late answers, except that `MaxEvents` bounds
the bad ones.

## 5. Theorems

`BlockchainProofs` proves, for every block tree, difficulty, set of iterators,
reset targets and `MaxBlocks`, under proof of stake or not, with or without a
listener:

| Theorem | Says |
|---|---|
| `Invariance` | `Spec => []IInv` |
| `TypeCorrect` | `[]TypeOK` |
| `IndexCanonical` | `[]CanonicalIndex` |
| `IteratorHeadsCanonical` | `[]HeadsCanonical` |
| `CrashSafe` | `[]CrashLosesNothing` |
| `RewindsOnly` | `ReorgOnlyRewinds` |
| `Refinement` | `ImplementsCanonicalChain` |

*Assumptions.* `BlockTreeAssumption`, `BlockchainAssumption`, and
`~ConsensusMayThrow`, without which `CanonicalIndex` is false (`blockchain_poa`
is about that case). The first two are evaluated by TLC in each run.

*Argument.* None of the four invariants is inductive alone; their conjunction
`IInv` is. A restart loads the pointers on disk, so the index stays the ancestry
of the head header only if the saved header is the one in memory
(`CrashLosesNothing`), and heads stay canonical only if the saved ones are
(`HeadsCanonical`, its second half). A put keeps heads canonical only if the index was an ancestry
(`CanonicalIndex`): then deletion, which stops at the first gap, deletes
everything above the new head, and the rebuild, which stops at the first right
entry, leaves nothing wrong below it, for two ancestries that share a block agree
below it (`SharedBelow`). `CommonAncestor` shows that a put which gets past
`findCommonAncestor` has all headers the rebuild needs, so `RebuildComplete`
holds and stale heads move to where the branches meet. The refinement follows
from the same lemmas: a put or a reset is `Reorganise(headHeader')`, everything
else `MoveCursors` or a stutter.

`AccountCacheProofs` proves, for any set of addresses and of accounts and any
nesting of checkpoints:

| Theorem | Says |
|---|---|
| `Inductive` | `CacheSpec => []IInv` |
| `TypeCorrect` | `[]CacheTypeOK` |
| `CacheCoherent` | `[]Coherent` |
| `RootOfState` | `[]RootIsState` |
| `Refinement` | `ImplementsStack` |

*Assumption.* `CacheAssumption`: the three markers are no accounts.

*Argument.* `Coherent` alone is not inductive. A revert restores the trie of its
checkpoint, so every root held by a checkpoint must be the current trie
(`RootsCurrent`: with a checkpoint open nothing is flushed). `IInv` adds that to the
types. For the refinement the value a checkpoint would restore is the entry of the
lowest diff map above it that has one, or else what is cached (`PreState`). The
lemmas on the least such index say how it moves: a new entry in the top map is
what was current (`CachePut`), an empty map on top changes nothing
(`Checkpoint`), merging the top map into the one below keeps the least entry of every lower
checkpoint (`Commit`), and dropping it after restoring does too (`Revert`). A flush leaves what `getAccount`
returns because of `Coherent`. That the state of the EVM only takes steps of
`CacheSpec` is `ComponentSteps`, proved in `EVMStateProofs`.

`TransientStorageProofs` proves, for any set of addresses, slots and values and any
depth of calls:

| Theorem | Says |
|---|---|
| `Inductive` | `Spec => []IInv` |
| `TypeCorrect` | `[]TypeOK` |
| `TransientRefinement` | `TransientCheckpoints` |

*Assumption.* 0, the value of a slot nobody wrote, is a value.

*Argument.* The code keeps no copies of the storage, only the list of replaced
values and an index into it for each call. The map a call would restore is `Before`
at its index: a slot has what its first change from there on replaced, or its present
value if there is none. `IndicesOrdered` (no index is past the end of the list, none
is below its caller's) is what makes this survive a step: a put appends at or above every
index, so only a slot without a change changes its value, and the new entry holds the
old one (`BeforePut`); a revert cuts the list at the last index, where lower calls
find either the same first change or, in what was just restored, what they found
before (`BeforeCut`). `clear` keeps the indices, so it is a step of the stack only
when all of them are 0.

`EVMStateProofs` composes the two with the EVM, for all values of `EVMState`'s
constants, its bounds included:

| Theorem | Says |
|---|---|
| `MessagesInductive` | `Spec => []EInv` |
| `TransientSteps` | `Spec => T!Spec` |
| `TransientRollback` | `TransientCheckpoints` |
| `AccountSteps` | `Spec => CacheSpec` |
| `Composition` | `ComponentSteps` |
| `StateCoherent` | `[]Coherent` |
| `AccountRollback` | `ImplementsStack` |

*Assumptions.* `CacheAssumption`, `StateAssumption` (0 is a value; what an account is)
and `EVMAssumption`, which TLC evaluates in `state`.

*Argument.* `MessagesOK` ties the control of `EVMState` to the transient storage: there
are frames exactly while a message runs, each entered frame has its index, the first
two indices are 0, and there are no changes outside the code of a message and the
calls it makes. The second index is 0 because the first message of a transaction finds an
empty list, which is so because the one before it was cleared when its code ended.
It follows that a commit or revert has a checkpoint to close and that the outermost
message clears when no index is above 0, which are the guards of `TransientStorage`'s
`Next`; its theorem then gives the stack of checkpoints. For the accounts it takes
`AddressesOK` as well (what is touched and what `runTx` and `cleanup` go over are
addresses, also after the journal's reverts); then every action is a step of
`CacheNext`, and the theorems of `AccountCacheProofs` carry over to the EVM.

`BlockchainProofs` also proves, again for every tree and every set of iterators:

| Theorem | Says | When |
|---|---|---|
| `HeadIsFullBlock` | `[]HeadBlockIsHead` | `ProofOfStake`, no bare headers, `~ConsensusMayThrow` |
| `HeadIsHeaviest` | `[]HeaviestHead` | `~ProofOfStake`, no resets, `~ConsensusMayThrow` |
| `IteratorOrder` | `IteratorInSequence` | `~ConsensusMayThrow` |
| `AncestryInvariance` | `[]AncestryInv` | always |
| `IndexWhole` | `[]IndexIsAncestry` | always |
| `IndexRepaired` | `HeadMoveRepairsIndex` | always |

*Argument.* The conditions are those of the runs, and each is needed. A bare header
makes head header and head block differ. A reset moves the head below a heavier block.
`HeaviestHead` needs that no total difficulty is above what a second put of its block
would record (`NeverOverstated`): a block can be put before its parent, with the parent's
work missing, and again later, and only upwards corrections keep the head the maximum.
Without `~ConsensusMayThrow` the head header in memory may not be on the index, so the
common ancestor that is found from it says little. `AncestryInv` says what is left: every
block that was ever canonical (the one in memory, the one on disk, the tip of the index)
has all its ancestors stored, so that no rebuild ends at a missing header, and a head on disk that
differs from the one in memory is the index's tip.

About the execution on top of the store `BlockchainProofs` proves, for any set of blocks that
fail, `MaxBlocks`, and number of calls, puts, resets and restarts:

| Theorem | Says | When |
|---|---|---|
| `VMInvariance` | `VMSpec => []VMInv` | `~ConsensusMayThrow` |
| `VMTypeCorrect` | `[]VMTypeOK` | `~ConsensusMayThrow` |
| `StoreUnderExecution` | `[](CanonicalIndex /\ CrashLosesNothing)` | `~ConsensusMayThrow` |
| `LockInvariance` | `[](LockInv /\ QueueInv)` | `~ConsensusMayThrow` |
| `ClosedForGood` | `ClosedIsQuiet` | `~ConsensusMayThrow` |
| `RaceOnly` | `HistorySpec => []OnlyRaceLosesHead` | `ProofOfStake`, `SkipLower`, `~ConsensusMayThrow` |

*Assumptions.* Those of the store and `VMExecutionAssumption`. The conditions are those of a node
that is driven by the engine API: the fill is the only caller besides `setHead` that puts blocks, and it skips those below the
height it knows.

*Argument.* Under the execution the store keeps `StoreInv`, which is `IInv` without
`HeadsCanonical`: `SetCommit` does not look again whether its block is canonical, so heads may be off the chain.
The lemmas about puts, resets and the iterator are stated for `StoreInv`, and those for `IInv` follow.
`LockInv` says that what is at work is at the head of the queue, so run, payload and forkchoice
update exclude each other, and `QueueInv` that each pending call is in the queue once and
that the second turn of `stop` is its end: nothing is let in once `started` is gone, so what was
served before `StopClose` is all there was. The vm head needs five facts at once (`EngineInv`). The
state of a block is there only with those of its ancestors (`StatesInv`), so a reorg or reset,
which takes a head to an ancestor of the block it stood on (`ReorgAncestor`), leaves it on
an executed one. A head above a block that is put goes to that block, which may not be
executed; the fill does not put such a block, since the height it knows is that of the head of the chain unless
an update is due (`HeightInv`), and is not below the vm head even while `setHead` is between a put and its update
(`HeadInv`). What `setHead` puts is executed, being an ancestor of its block, and so is what the
iterator moves to (`ExecutedInv`). All this needs the vm head to be canonical, which the race breaks and the
next commit in order repairs; that is what `raced` is for. The five were checked by TLC first, with
resets and five events.

`JournalProofs` proves, for any set of addresses and slots and any depth:

| Theorem | Says |
|---|---|
| `Inductive` | `Spec => []IInv` |
| `TypeCorrect` | `[]TypeOK` |
| `JournalRefinement` | `JournalCheckpoints` |

and `EVMStateProofs` composes it with the EVM: `JournalInductive` (`Spec => []KInv`) and
`JournalRollback` (`JournalCheckpoints`).

*Argument.* The journal keeps one list of diffs with heights, and a height may occur in it many times: a
call that returns lowers the height, the next call raises it again. A revert cuts the list
behind the last diff of a lower height. Two facts make the cut a rollback: heights of
neighbouring diffs differ by one, so a cut for height `h` is always there (`CutOK`), and a diff has only
what was not touched or warm before it, so what the dropped diffs have and nothing else
is to be taken back. RIPEMD stays touched, as in the code, and the abstract contents leave it
out. Under the EVM the height is the number of messages (`JournalOK`); a block
closes it one height too low when transactions ran in it, since `cleanJournal` resets it, and
the next block begins with a clean one.

On these rest two more theorems of `EVMStateProofs`:

| Theorem | Says | When |
|---|---|---|
| `TypeCorrectEVM` | `[]TypeOK` | always |
| `NoneEmpty` | `[]NoEmptyAccounts` | `Genesis` has no empty account |

*Argument.* Types need the number of open checkpoints at each place of the control
(`CountOK`). `NoEmptyAccounts` looks between blocks only; the invariant `NInv` follows
the empty accounts through them. Within a message and after it every empty account is touched;
while `cleanup` runs every empty account is on its list; at other times there is none
(`EmptyOK`). A revert keeps that because of what the checkpoints hold: an account that
the state's checkpoint would bring back empty is one that the journal's checkpoint
of the same message would leave touched (`TouchedVoid`). That is where state manager and
journal, which know nothing of each other, must agree, and why the heights of the two must
move together (`HeightFacts`). The checkpoints of block and transaction were made when no
account was empty.

`EVMWorldProofs` proves, for all values of `EVMState`'s constants, its bounds included:

| Theorem | Says | When |
|---|---|---|
| `WorldInductive` | `[]WInv` | `Settled` |
| `RootOfWorld` | `[]RootIsWorld` | `Settled` |
| `OriginalsKept` | `[]OriginalIsTxStart` | `Settled` |
| `StorageGone` | `[]StorageGoneWithAccount` | `Settled` |
| `WorldRollback` | `WorldCheckpoints` | `Settled` |

*Assumptions.* `Settled` is `EIP6780` (the chain is past Cancun; before, `state_selfdestruct`
shows `StorageGoneWithAccount` false) and a genesis in which only contracts have storage, as in the genesis states of
`chain-config`. `StateAssumption` says besides that the markers of the caches are no values
and `NoTrie` is no root, as `undefined` and `null` are not.

*Argument.* Deletions and creations drop the cached slots of an account with no entry
in a diff map, and leave its storage trie open. That a revert still restores the storage rests on what
the EVM does: a slot is read and written only by the contract that runs, creations collide
with accounts that have storage, and with EIP-6780 only contracts made in
the same transaction are deleted. `StateManagerProofs` has what each operation of the
state does to a slot at each checkpoint; `SInv` is what it rests on there: no storage root has
changed since a checkpoint that is open, an account with
storage is a contract, the slots cached for anything else are 0 or not cached, and a cached slot
agrees with the root of its account below the first change. `WInv` adds the EVM's part, over the levels 0 to
the current state: a contract when the transaction began is one at all its levels
(`MonotoneOK`), the code that runs and its callers are contracts at their levels
(`RunnersOK`), what a message counts as created was no contract when the transaction began (`CreatedOK`), and
what is to be destroyed was created (`TodoOK`). `OriginalsOK` strengthens `OriginalIsTxStart`:
a slot with no original value yet has the same value at all levels of the transaction.

`SkeletonProofs` proves, for every tree, every set of heads the consensus client may
announce, every `BackStep` and `MergeMinimum`, and any number of events and restarts:

| Theorem | Says | Property |
|---|---|---|
| `SkeletonInductive` | the inductive invariant `IInv` | |
| `TypeCorrectSkeleton` | types of status, saved status, store and pending calls; the tip is a known block | `TypeOK` |
| `FillNeverStuck` | a fill with a subchain never throws after it has set `filling` | `FillNotStuck` |
| `NoneLost` | a hash is forgotten only when the chain has the block | `NothingLost` |

*Assumptions.* `BlockTreeAssumption` and `SkeletonAssumption`.

*Argument.* A fill that has a subchain throws when its subchain's tail is more than one above the chain, or when
the height it cuts the chain to is. `TailInv` excludes the first: a skeleton that is
linked with the reset flag up has its tail at most one above the height. `checkLinked` establishes it,
merges, truncations and back steps are followed by a `checkLinked`, and an extension of the head
leaves the tail alone; the two moments when it may fail are the ones in which no fill can begin, after a restart
until `open` has checked the saved status, and between the cut of a fill and the flag that fill lowers.
`FillInv` excludes the second and gives `NoneLost`: the fill stands at the height of
the chain, as nothing else moves the chain while the node syncs, the block it puts is the next
number, and the block it deletes is one the chain has. `StatusInv` says that the subchains listed
are among the live objects (a fill may hold one that is no longer listed), and `SubsInv` that there is
a subchain whenever a pending call needs one. That the rounds of `trySubChainsMerge` preserve this is shown by the
least round at which they would not. `TailInv` and `FillInv` were found as the strengthening that
`FillNotStuck` needs and checked by TLC on the run's instance first.

*Only model-checked.* Everything about `Fetcher`, whose queues are sorted and folded by
operators that the provers know nothing about without induction over data (`SetToSortSeq`,
`FoldLeft`, `FlattenSeq`), and `Backed` of `Skeleton`,
whose invariant has to say which block stands at every number of every subchain, through merges, deletions
and fills of older ones. `VmHeadExecuted` and `OnlyFaultyInvalid` are false (section 6).
Liveness under fairness (`RunReturns`, `StopCloses`, `Filled`, `CatchesUp`) is out of the prover's reach and stays with TLC.

## 6. What the code does otherwise than it says

* **Replaced blocks are not announced** (`blockchain_receipts`). A reorg
  announces the blocks above the new head's number. Blocks it replaces at or
  below that number are overwritten in the index and never put in
  `deletedBlocks`. The listener that deletes receipts "once a block gets deleted
  from the chain" (`vmexecution.ts:139`) does not hear of them.
* **A valid block is reported invalid** (`vm_first_block`). When a run's
  first block is reorganised away during its callback, the iterator hands over
  the replacement without the reorg flag, since it has no last block to compare
  with. `run` executes it on the state of the block it replaces, fails, and sets
  `chainStatus` to INVALID for a good block.
* **A vm head without a state** (`vm_head_race`). `setHead` checks that its block
  is canonical and sets the vm head in different turns of the store's lock. A put of
  another branch or a `resetCanonicalHead` in between leaves the vm head off the chain; a later put
  of that block and one of a lower block, by a fill that knows an old height,
  redirect it to a block that was never executed. `chain.ts:114` calls the vm
  head "the last executed block in the canonical chain". By `RaceOnly` nothing else parts
  the two.
* **Storage survives its account** (`state_selfdestruct`). `deleteAccount`
  (`merkleStateManager.ts:200`) leaves the account's storage trie open. Before
  EIP-6780, when a contract whose slots were accessed destroys itself and is paid
  again in the same block, `flush` writes the touched slots to that trie and puts its root,
  with the slots that were not touched, into the new account. Its comment says that it
  "deletes an account from state".
* **A skeleton nobody fetches** (`skeleton_stranded`). `BeaconSynchronizer.start` enters its loop
  only when the skeleton is not linked; on a linked one, as after a restart in the middle of a fill, it starts
  the fill and ends. When that fill misses a block it steps back, "and fetch again" as the comment at
  `skeleton.ts:1318` says: the tail goes up and `linked` down. But the head announced again gives `reorged = false`
  (`skeleton.ts:329`), so `forkchoice-updated.ts:163` does not call `reorged()`, and no loop is there to fetch the missing
  blocks. The node waits until the consensus client announces another branch. In the run the
  status that was saved still has `canonicalHeadReset`, which the first fill had lowered in memory only
  (`skeleton.ts:1295`): the fill after the restart cuts the chain back once more, and misses
  the block that the first one had put there and deleted from the skeleton.
* **A subchain on a stale parent** (no run of its own; `stale` in `Skeleton`). When a new head
  forks, `setHead` looks its parent up by number (`skeleton.ts:474`) and keeps the subchain if the
  parent's number is not below the tail. Its comment (`skeleton.ts:531`) says that a "valid canonical parent
  is either in skeleton or chain" and that the head "doesn't reorg the current tail". A
  block that an older subchain left at that number passes the test although it is above the
  subchain's own head and does not descend from it. Announce `a4` and fetch `a3`, announce `b2` on the other branch,
  announce `a4` again: the subchain now goes from `b2` to `a4`, which is no chain. The
  damage is temporary: the fill cannot put `a3` after `b2`, the back step raises the tail to it, and the
  blocks below are fetched again, as `Filled` checks with these behaviours included, unless no loop
  of the synchroniser is left.
* **A peer that is ahead is not found** (no run of its own; `Outweighed` in `Fetcher`). `best()` takes a peer
  whose total difficulty is at least the chain's (`fullsync.ts:128`), as stated at the handshake. "Fetch all blocks from current height up to highest
  found amongst peers" (`sync.ts:253`) is done once: when the peer has grown during the download, so has the chain, beyond what the
  peer stated, and further growth is fetched only when it announces a block or connects again. `CatchesUp` excepts that.
* **A failing block and a batch of one** (no run of its own). See `RunReturns` in section 3.
* **A fill without a subchain** (no run of its own; `NoSubchain` in `Skeleton`). A back step that finds
  no block drops all subchains with the status still saved as linked (`skeleton.ts:1176`); after a restart
  `start` fills, `fillCanonicalChain` reads the tail of `subchains[0]`, which is undefined, and throws with `filling` set. It takes
  a cleared reset flag before and a restart before the next forkchoice.

## 7. Abstractions, and what is not modelled

* Execution is "does the state before it belong to the block's parent, and is
  the block as its header says" (`Executes`, `Faulty`). Gas, receipts and blooms
  are not in the model; neither are encodings, timestamps and hardforks.
* Header validation other than the presence of the parent is the tree itself: a
  block in `Blocks` has a valid header.
* `run`'s test of `running` and its place in the lock's queue are one step. Between them
  `run` awaits the promise of the run before (`vmexecution.ts:539`); when `running` is false that one is settled, and the
  `await` is a single turn of the microtask queue, in which a call that comes in gets the place
  before it instead of behind it: an order the model has.
* `runWithoutSetHead` decides before the execution whether its block is too far ahead to be stored
  (`skipBlockchain`, `ahead` in the model). The execution itself is one step, its result is put in another.
* The skeleton's test of a block against the known height and its put are one
  step. The height is the one of the last update, and a put tested before
  another caller's is queued right behind that one at the store's lock: it is
  served before that caller updates the height, which is an order the model has.
* Not modelled in VMExecution: finalized blocks and the `safe`/`finalized`
  heads, the block and transaction stores of receipts, the blocking mode of
  `runWithoutSetHead` that `getPayload` uses, `executeBlocks` of the command
  line, and the skeleton's `setVmHead`.
  The failure handler's branch that steps the vm head back cannot be taken: it
  needs the state whose absence was the error.
* In `Skeleton` a batch of `putBlocks` is its first block and possibly more, one
  after the other; snap sync, finalized blocks and the blocking fill are left out. The chain is abstract
  there: what the store does with a put is in `Blockchain`, and what the fill does to a running
  execution in `VMExecution`.
* Forkchoices come one at a time in `Skeleton`: the handlers of the engine API do not exclude each other, but the consensus client waits for
  the answer before it sends the next. Payloads come at any time; the stash of the block and `setHead` are one
  step, since nothing reads the stash in between but a forkchoice that waits behind that `setHead`. What was stashed stays
  stashed: it is pruned only when a head is executed (`forkchoice-updated.ts:350`), which a syncing node does not do. The
  answer INVALID of `fillStatus` (`forkchoice-updated.ts:144`) is about a block that failed execution and is left out.
* In `Fetcher` the readable and the writable stream are one buffer with a high-water
  mark. Subchain merges are left to `Skeleton`, and with them the teardown of the fetcher on `errSyncMerged`
  (`reverseblockfetcher.ts:44`). One `sync()` is pending at a time. `minPeers` and `forceSync` do not keep
  `best()` from looking.
  `SYNC_SYNCHRONIZED` may fire after any block that comes in, since
  `syncTargetHeight` is overwritten on each `CHAIN_UPDATED` (`sync.ts:112`).
* In `EVMState` gas, nonces, amounts and code are left out: a contract does whatever it
  likes, a call has a value or not. So are access lists that are warm throughout,
  system calls at the start of a block, the requests gathered at its end (`accumulateRequests`, `runBlock.ts:259`, whose calls are
  messages outside a transaction), the DAO fork, block rewards under proof of
  work, the authorizations of EIP-7702 (`runTx.ts:595`: nonces and code written outside any message, so that in the model an
  account becomes a contract only by a creation), delegate calls and static calls, the eviction of LRU
  caches, and errors that are not the EVM's.
* A call fails in its code, or before it (`CallGoesTo`: a precompile, an overflow of the balance);
  on an overflow the code does not write the account, where the model writes and reverts it. At most one withdrawal is paid per block (`Reward`), where the code goes through
  a list before one cleanup (`runBlock.ts:569`). `SELFDESTRUCT` also writes the account itself
  and the sender with changed amounts (`evm.ts:1326`), which says nothing in the model.
  `getStateRoot` with a checkpoint open (receipts before Byzantium) is left out too.
* Components with status `not_modelled` in `PROJECT.json` are those of section 8
  and, for good, the parts that are pure data transformation or pure I/O:
  encodings, hardfork tables, command line, metrics, level database, RPC
  validation. Most of the repository's lines are of this kind: instruction and gas
  tables, precompiles, genesis states, transaction types, message codecs, RPC
  modules and their schemas. They have no interleaving or failure for a model checker to
  explore, and a model of them would repeat them line by line.

## 8. Plan

Done so far: store and fork choice, execution of the canonical chain, skeleton,
fetchers and synchronisers, state and the EVM's checkpoints. Next, in order:

1. *Proofs*: `JobsAccounted` of the fetcher; `Backed` of the skeleton.
2. *TxPool*: pending and queued lists by sender, promotion and demotion that await
   the account state, eviction at the limits. Property: the counts are the contents.
3. *DBManager*: `get`, which fills the cache after an await, against `batch`.
4. *Lock* (`utils/src/lock.ts`) as a module of its own, shown to implement a mutex.
5. *Kademlia buckets and pings*, *pending payloads*.
6. More of VMExecution: finalized blocks, receipts, `chainStatus` against
   `newPayload`'s use of it, and the skeleton composed with it.
