# Verification of the 2x2 node

TLA+ modules for the parts of the 2x2 node (`src/src`, a descendant of Bitcoin
Core 0.13 with proof of stake) that are hard to test: how blocks are
downloaded, how the active chain is chosen, how blocks are applied to cached
coins and taken back, how scripts are checked in parallel, how the memory pool
follows the chain, and how all of it reaches the disk; and for the index of
unspent outputs of the wallet server (`wallet/x2x-server`). Each module is a
translation of the C++ or Java code; TLC checks it on small instances and TLAPS
proves the safety properties of all but the memory pool for every instance.
`PROJECT.json` gives, for every definition, the source lines it stands for.

## The system

| Part | Source | State | What changes it |
|---|---|---|---|
| Block download | `main.cpp` 201-740, 5494-6340, 6744-7193 | `mapBlocksInFlight`, `CNodeState`, counters | inv, headers, block messages; `SendMessages` per peer; connect, disconnect; timeouts |
| Block index, chain selection | `main.cpp` 2952-4215 | `mapBlockIndex`, `setBlockIndexCandidates`, `mapBlocksUnlinked`, `chainActive` | `ProcessNewBlock` from any thread, `ActivateBestChain`, the RPCs invalidateblock and reconsiderblock, pruning |
| Coin caches | `coins.cpp`, `coins.h`, `txdb.cpp` | two caches over LevelDB, flags DIRTY and FRESH | `ConnectBlock`, `DisconnectBlock`, mempool lookups, flushes |
| State on disk | `main.cpp` 2407-2428, 2781-2877, 4287-4498, `init.cpp` | block and undo files, index database, coins database | `FlushStateToDisk`, `AcceptBlock`, `ConnectTip`, crash, restart |
| Block validation | `main.cpp` 2309-2765 | the coins, undo data | `ConnectTip`, `DisconnectTip`, `VerifyDB` |
| Subsidy, difficulty | `main.cpp` 1781-1880, `pow.cpp` | none | |
| Proof of stake, staker | `pos.cpp`, `miner.cpp`, `main.cpp` 3811-3900 | stake cache | the staker thread |
| Memory pool, orphans | `txmempool.cpp`, `main.cpp` 803-902, 1235-1637 | entries with totals over ancestors and descendants; orphan maps | tx messages, blocks, reorganisations, limits |
| Peers | `net.cpp`, `addrman.cpp`, `main.cpp` 262-355, 2003-2020 | connections, addresses, ban scores | socket and message threads |
| Helpers with threads | `checkqueue.h`, `scheduler.cpp` | queues | worker threads |
| Wallet of the node | `wallet/` | keys, transactions | RPC, notifications |
| Wallet API server | `wallet/x2x-server` | index of unspent outputs, persisted snapshot | background sync, requests |

Almost all of the node's state is guarded by one lock, `cs_main`. What makes it
hard is where the lock is released in the middle of something
(`ActivateBestChain` between its steps, `TRY_LOCK` in `SendMessages`), where
state is cached across such a point (`pindexMostWork`,
`pindexLastCommonBlock`, `nStallingSince`), where several stores have to agree
after a crash (block files, index, coins), and where counters and flags are
maintained by hand beside the data they summarise (blocks in flight, FRESH and
DIRTY, the totals of the memory pool). The script check queue and the wallet
server have locks of their own and are concurrent throughout. The hazards in
`PROJECT.json` list these places line by line.

## Modules

| Module | Models | Checked by | Proofs |
|---|---|---|---|
| `BlockDownload` | block download | `MCBlockDownload` | `BlockDownloadProofs` |
| `ChainState` | index and chain selection | `MCChainState` (four runs) | `ChainStateProofs` (any use), `BestChainProofs` (what needs a restriction) |
| `Coins` | coins, cache entries, the operations on one cache | with `BlockCoins` | with `CoinsCache` |
| `CoinsCache` | the database and the two caches of a running node | with `BlockCoins` | `BlockCoinsProofs` |
| `CoinsMap` | what the caches promise: three maps (database, tip, view) with commit, discard, persist | as a property of `BlockCoins` | refinement, in `BlockCoinsProofs` |
| `BlockCoins` | blocks connected, disconnected and verified on the caches of `CoinsCache`, which it extends | `MCBlockCoins` | `BlockCoinsProofs` (the caches, where a call can be), `ConnectProofs` (the coins on the way up), `ReplayProofs` (on the way down, and the theorems) |
| `FlushState` | files, index and coins database, crashes, restart | `MCFlushState` | `QueueFlushProofs` |
| `CheckQueue` | master and workers of the script check queue | `CheckQueue.cfg` | `QueueFlushProofs` |
| `Mempool` | the memory pool through blocks and reorganisations | `MCMempool` (two runs) | |
| `ChainIndexer` | the index of the wallet server, its threads and its file | `MCChainIndexer` (two runs) | `ChainIndexerProofs` |

The modules meet where one leaves something open that another decides.
`ChainState` chooses which block to connect or disconnect and takes its
validity as given; `BlockCoins` says what connecting and disconnecting any such
block does to the coins; `FlushState` says when the result is on disk, with the
coins as the set of blocks applied; `Mempool` takes the coins of a chain as
`BlockCoins` shows them to be (`CoinsAreReplay`) and follows the same steps;
`CheckQueue` is what `ConnectBlock` waits for with `cs_main` held.

An operator whose comment calls it a mutated form, or that stands right before
the definition it alters, is a plausible mistake in the code; each is used to
confirm that some property notices it. The models never use them.

### BlockDownload

`dl` holds what `MarkBlockAsReceived` and `MarkBlockAsInFlight` maintain:
`inFlight` (the peer of each block, or `NoPeer`), the list of each peer
(`queued`, and `validated` for the entries whose header is known), and the
counters that the code keeps beside the lists. `availVars` are the best known
block, the unknown announced block and the common block of each peer,
`chainVars` the headers, the stored blocks and the tip. Blocks are the heights
of one chain: what is tested here is the bookkeeping, not the choice of a
chain. A message handler that requests several blocks does it block by block
(`HeadersRequest`, `SendRequest`) while it holds `cs_main` (`fetch` is not
`NoFetch`); nothing else moves in between. `SendMessages` takes as inputs
whether the two timeouts have elapsed and whether the best header is recent. It
begins with the ban: a peer with `fShouldBan` that is not whitelisted is marked
for disconnection before anything else, whether it owes a block or not. Which
message costs how many points is left out; `Misbehaving` lets a peer of
`MisbehavingPeers` reach `-banscore` at any moment.

### ChainState

Whether a block can be accepted or connected is a constant of the tree
(`CheckBad`, `ConnectBad`). `validity`, `haveData`, `failedValid` and
`failedChild` are the parts of `nStatus`; `linked` is `nChainTx != 0`. Each
thread has the local variables of `ActivateBestChain` (`th`). One iteration of
its loop is several actions under `cs_main`: `LoopTop`, `FindMostWorkChain` or
`DropCandidate`, `ActivateBestChainStep`, one `DisconnectTip` or `ConnectTip`
at a time, `EndStep`, after which the lock is free and other threads can move.
`outer` marks the staker, which calls `ProcessNewBlock` with the lock already
held, so that it is not released between steps. `AbortNode` sets `aborted`.

### Coins, CoinsCache, CoinsMap

The coins of a transaction are the set of its unspent outputs and a height. A
cache entry is coins with flags. `CoinsCache` has the database, the cache
`pcoinsTip` and the short-lived cache in which a block is prepared; lookups
pull entries into the caches exactly as `FetchCoins` and `ModifyCoins` do.
`ModifyNewCoins` marks an entry FRESH without a look at the view below, and
nothing in `coins.cpp` checks it; `CoinsCache` states what the callers have to
see to instead: an entry that is erased for the flag (`VanishesSafely`), and
every FRESH entry of a view that is flushed (`FreshView`), has nothing below.
`BlocksUseCoins` proves that they do. `CoinsMap` knows neither
entries nor flags. The refinement mapping is the meaning of a lookup: an entry
without outputs is the same as no coins. The variable `op`, which both modules
have, names the last operation with its arguments, so that one operation
cannot implement another.

### BlockCoins

Every action is one operation of `CoinsCache` together with the progress of the
call that makes it, `job`: `ConnectTip` opens a view, then `CheckKernel`,
`CheckBIP30`, `CheckInput`, `SpendInput` and `CreateOutputs` go through the
block one input at a time, and `Connected` flushes the view or `Refused`
throws it away; `DisconnectTip`, `RemoveOutputs`, `RestoreInput` and
`Disconnected` go back through it with the undo data of the block. Undo data
is, for each input, the height that only the last output of a transaction
carries. `VerifyDB` (level 4) disconnects and reconnects in a view of its own.
In between the memory pool reads and uncaches, the coins are flushed and the
process dies. The reference is `CoinsAt`, which computes the coins of a block
from the transactions of its chain alone. Blocks are those that `AcceptBlock`
stored, so a coinbase starts with the height of its block (`main.cpp:3798`) and
does not come again at another height; `BIP34Height` is -1 on all networks, so
that the check of BIP30 is made for every block. Scripts, fees and values are left
out, except the reward, since `GetProofOfWorkSubsidy` goes by the height of the
active chain and not of the block. Maturity is checked twice, and differently.
The kernel of a proof-of-stake block has to be `nCoinbaseMaturity` deep
(`main.cpp:2533`, `GetConsensus()`). `CheckTxInputs` (2126) is inside `namespace
Consensus`, where `Params()` makes a new, zeroed `Consensus::Params`: it asks
for a depth of 0, which `CheckInput` states, and refuses no spend of a coinbase
or coinstake, even of the block's own. A kernel whose coins have no output left
is refused for its time, or reads `vout` past its end (`pos.cpp:82`); the model
refuses it, and the death of the process is `Restart`.

### FlushState

The coins are represented by the set of blocks whose changes they contain, the
data of a block by "none", "written" or "synced". `FlushStateToDisk` is three
actions, `FlushFiles`, `FlushIndex`, `FlushCoins`, with `stage` in between, so
that a crash can happen after each. `target` is the block for which
`UpdateTip` is still to be called when the flush was started by `ConnectTip` or
`DisconnectTip`. `PowerFailure` loses any subset of what was written and not
synced and any suffix of the unsynced batches of the coins database
(`versions`); the index is written with `WriteBatchSync` and loses nothing.
`FlushFails` and `WriteBlockFails` are the failing writes; `mishaps` records
that the power has failed, or that a failing write has lost what was to be
written (lack of disk space, which is found before anything is touched, is not
one of these). The properties are conditional on it: `CoinsMatchBest` and
`DataSafe` survive power failures but say nothing after a lost write;
`UndoSafe` and `AlwaysRestarts` say nothing after either. `Restart` is `LoadBlockIndexDB` with
`VerifyDB` at level 3.

### CheckQueue

An action is what a thread does from taking the mutex of the queue to releasing
it: `Add`, then `Enter`, `Finish` and `Wake`, which all go through `LoopFrom`,
the body of `Loop` from `while (queue.empty())` to the next release. A thread is
"waiting" on its condition variable until it is notified, wakes for no reason
or is interrupted, as `interrupt_all` does at shutdown; a wait that throws
leaves `nIdle` and `nTotal` as they are, ends a worker, and takes the master
into the destructor, which calls `Wait` again.

### Mempool

The pool is one record: the entries, the links and the totals over ancestors
and descendants that the code updates incrementally. `addUnchecked`,
`RemoveStaged`, `removeRecursive`, `removeConflicts`, `removeForBlock` and
`UpdateTransactionsFromBlock` are functions from pools to pools; the actions
are the calls of `main.cpp`, with `work` for what a call has still to do before
it releases `cs_main`. All transactions have one size, so sizes and signature
operations are the counts; of the fees only the deltas of prioritisetransaction
are there. Which entry is too old or has the lowest score is left open, and so
is whether policy refuses a transaction. Acceptance does not refuse a spend of
an immature coinbase, for the reason given for `CheckInput`; only
`removeForReorg` goes by the real maturity (`Mature`, `txmempool.cpp:554`), so
immature spends are in the pool until a reorganisation removes them.
`removeConflicts` reads the hash of an
entry it has just erased (`txmempool.cpp:583`); the model lets the fee delta be
cleared or not (`forgotten`).

### ChainIndexer

A step is what a thread of the wallet server does under `indexLock` or between
two calls of the node: the background sync (`ReadTip`, `BeginBatch`,
`IndexBlock`), a request that compares the index with the node output by output
(`CheckOutput`, `RemoveSpent`, `Answer`), the scan and the import from the
explorer it may schedule, and `persistState`, which takes its snapshot, its
file lock and its write in three steps (`SnapshotState`, `LockFile`,
`WriteStateToDisk`). The node and the explorer are external and seen through
their answers. `denied` is history: outputs for which an answer was missing or
negative although no block spends them.

## Runs

State counts are distinct states.

| Run | Instance | Shows |
|---|---|---|
| `block_download` | two peers, three heights, one block in transit, window 1, one peer that may be banned; 101,826 states | the counters match the lists; only live peers have blocks in flight; a block is requested from one peer at a time; the transit limit holds over all paths; the common block is linked; a peer is disconnected only if it owes a block or is to be banned; no block stays in flight for ever; a preferred peer that answers is enough for the chain to arrive |
| `chain_sync` | one thread, seven blocks on two branches, one that fails `ConnectBlock`, invalidateblock, three prunable blocks; 1,322,698 states | when no call is active the best valid chain present is active and the candidates are complete; failure flags have a cause; `mapBlocksUnlinked` is exact; a step that meets no invalid block improves the tip |
| `chain_threads` | two threads, one of which may be the staker, seven blocks, one that fails `CheckBlock` and one that fails `ConnectBlock`; 103,256 states | linking is exact under every interleaving; the candidates are never empty and none is worse than the tip; the active chain stays valid; every call returns |
| `chain_operator` | two threads, five blocks, one invalid, invalidateblock and reconsiderblock on two of them, two prunable; 2,508,247 states | what survives every race with the operator: linked blocks have linked ancestors, sequence numbers are unique |
| `chain_race` | two threads, a chain of three blocks | violated, see below |
| `block_coins` | eleven blocks with seven tips: transactions that are tried again, spent and unspent, a proof-of-stake block, a coinbase spent in its own block, blocks refused early and late; 46,362 states | FRESH means unknown below; the coins are those of the chain, in memory and on disk; undo data fits; `VerifyDB` reconnects what it disconnected; the caches implement the maps |
| `flush_crash` | three blocks in a fork over two files, verification depth 1, no disk space and failing block writes; 1,976,345 states | as long as no failing write has lost data, coins, index and block data agree whenever the process dies or the power fails; as long as the power has not failed either, the node starts again |
| `check_queue` | a master, two workers, four checks, batches of two; 398,192 states | the verdict is that of exactly the block's checks; the queue is idle between blocks; `Wait` returns |
| `mempool` | eleven transactions, two branches; 24,400 states | inputs, links and totals are right at every step, in the middle of a reorganisation too; between calls the lock times of everything in the pool allow it into the next block |
| `mempool_immature` | the same | violated, see below |
| `chain_index` | two outputs, two blocks, the background thread, one request thread, one worker, two requests, one fault; 7,673,687 states | no output is lost unless the node once denied it |
| `index_sync` | one output, one request, no faults | violated, see below |

Why the bounds are enough: two peers and a window of one already make one peer
stall another and let a block arrive from the peer that was not asked, and banning
one of them takes its blocks in flight away at any moment; two
branches of which the second overtakes the first, with a failing block at its
end, make a reorganisation fail half way; two threads are what a stale
`pindexMostWork` needs; two files are what undo data in an older file needs.
`MaxSequenceId` only bounds the re-download of pruned blocks. In `block_coins`
transactions interact through the chain alone, and the tree has each case that
the code tells apart: spent in part, spent completely in one transaction or in
two, tried again when it is spent and when it is not. In `check_queue` a batch of two leaves work
for others, and two workers let one finish last while the other is interrupted.
In `mempool` a diamond of ancestors (d depends on a directly and through b)
lies across two blocks, so that totals can be counted twice or not at all; the
limits are just below what the transactions reach. In `chain_index` one fault
and two requests are enough for an older snapshot to replace a newer file and
for a restart from it. The properties that are proved do not depend on the
bounds at all. The failures "index" and "coins" of `FlushState` are in no run;
`CrashSafe` covers them, but after them most of what it states is no longer
claimed.

Deadlock is checked except in `chain_sync` and `chain_operator`, where the node
may abort, and in `FlushState`, where a node that does not start stays down.

### Fairness

- `BlockDownload`: the message handler visits peers round robin, so
  `SendMessages` runs again and again for each; with a block in flight the
  download timeout elapses, since `nDownloadingSince` only moves when the first
  block of the list arrives. `SendMessages` gives up when it cannot get
  `cs_main` (`TRY_LOCK`), and the lock is taken and released in between, hence
  strong fairness; that a `TRY_LOCK` tried for ever succeeds in the end is an
  assumption about the scheduler. The socket thread deletes disconnected peers.
  That one preferred peer answers requests (`AnsweringPeers`) is an assumption
  about the network, which `ChainArrives` needs; since all properties of the run
  are checked under one specification, `InFlightResolved` is checked with peer
  `b` under no such assumption and with peer `a` under it.
- `ChainState`: a thread inside a step keeps running (weak fairness), and a
  thread that waits for `cs_main` gets it if it is free again and again (strong
  fairness: other threads keep taking it). Nobody has to send blocks.
- `CheckQueue`: every thread runs and every check ends (weak fairness of each
  thread's steps; a thread that was notified gets the mutex). Nobody has to
  notify, wake spuriously or interrupt.
- `ChainIndexer`: every thread of the server goes on and the node answers (weak
  fairness); failures and new requests are never required. `SyncContinues` is
  violated under exactly these assumptions.
- The other modules are checked for safety only.

### Where code and comments disagree

- `chain_race`: `ActivateBestChain` keeps `pindexMostWork` across the release
  of `cs_main` and looks for a better chain only when it is NULL
  (`main.cpp:3258`). When another thread has connected a better chain in
  between, the loop goes back to its cached choice and returns with it, while
  the comment at 3239 promises "an activated best chain". From reading the code,
  a later call repairs it, since the better chain is still a candidate; no run
  states this.
- `mempool_immature`: "If prev is coinbase or coinstake, check that it's
  matured" (`main.cpp:2124`), but the check is against a zeroed structure (see
  `BlockCoins` above), so that a transaction that spends an immature coinbase
  is accepted; `removeForReorg` may then remove it by the real maturity.
- `index_sync`: "the full sync continues in the background"
  (`wallet/docs/DEVELOPER.md:105`). `FileChannel.lock` throws an unchecked
  exception when another thread of the process holds the lock of the index
  file (`ChainIndexer.java:1054`); the background thread does not catch it and
  ends.

Met while modelling, without a run of their own. What TLC reaches is marked
with the instance that shows it.

- `removeForReorg` is to remove "transactions spending a coinbase or coinstake
  which are now immature" (`txmempool.cpp:537`), but it looks only at entries
  with `fSpendsCoinbase`, which `AcceptToMemoryPoolWorker` sets for coinbases
  alone (`main.cpp:1383`).
- `ResetBlockFailureFlags` clears the flags of the ancestors (`main.cpp:3389`)
  and does not make them candidates, against the comment in `CheckBlockIndex`
  (4837): `CandidatesComplete` is violated with one thread and two blocks once
  `ReconsiderBlocks` is not empty.
- It also leaves BLOCK_FAILED_CHILD on the ancestor's other descendants
  (`main.cpp:3388`), against "The failed mask cannot be set for blocks without
  invalid parents" (4833): `FailedHasCause`, in the instance of
  `chain_operator` with one thread.
- A block stored under a parent that is marked failed enters neither
  `mapBlocksUnlinked` nor the linked blocks (`main.cpp:3473`); when the parent
  is reconsidered and its data then arrives, the block is not linked, against
  the assertion that `nChainTx` is set exactly when all ancestors were
  processed (4822): `LinkedExactly`, in the same instance. This is why
  `chain_operator` checks `LinkedSound`.
- With pruning, invalidateblock and two threads, a candidate that was pruned and
  has the work of the tip can be downloaded again while it is in
  `setBlockIndexCandidates`; its new sequence number makes it worse than the
  tip, against "If this block sorts worse than the current tip [...] it cannot
  be in setBlockIndexCandidates" (`main.cpp:4848`). The proof of
  `CandidatesSound` led to it; TLC reaches it with two threads, and not with
  one. This is why `CandidatesSound` is checked and proved without pruning.
- When invalidateblock is called on a block that waits in `mapBlocksUnlinked`,
  children that arrive later are not queued (`main.cpp:3473`) while
  grandchildren are; these stay in `mapBlocksUnlinked` with all their ancestors
  stored, against the assertions of `CheckBlockIndex` on that map:
  `UnlinkedSound`, with a chain of four blocks and `InvalidateBlocks = {2}`. The
  blocks that `chain_sync` invalidates do not lead there. Found in the same
  way.
- Two effects of a reorganisation deeper than `MIN_BLOCKS_TO_KEEP`, which
  `chain_sync` avoids by its choice of prunable blocks. With the tree of
  `chain_sync` and `PrunableBlocks = {2, 5, 6}`, invalidateblock takes the tip back
  to a pruned block; when that block is downloaded again it gets a new, larger
  sequence number (`main.cpp:3459`), and a block of equal work is better than
  the tip without being a candidate. With an eighth block 7 on the second
  branch that fails `ConnectBlock`, the reorganisation fails there, the old
  branch loses a file before the next step, and the candidate set ends empty.
- "First make sure all block and undo data is flushed to disk"
  (`main.cpp:2828`), but `FlushBlockFile` syncs only the last file and its undo
  file. After a power failure a restart may find a block it cannot disconnect:
  `UndoSafe` without its condition on `mishaps`, with two blocks in two files.
- A failed write of the coins leaves the cache empty and its best block in
  place (`coins.cpp:214`); the flush of `Shutdown` then stores a best block
  whose coins are not in the database, against `coins.h:361`:
  `CoinsMatchBest` without its condition, with the failure "coins".
- `VerifyDB` at level 4 reconnects blocks with the subsidy of the height after
  the tip (`main.cpp:1783`). Where the subsidy falls (after the premine at
  height 1, and at 110010, 1576800 and 4993200) it reports an unconnectable
  block in a valid chain, against `main.h:491` "Verify consistency of the block
  and coin databases". The instance of `block_coins` has this case;
  `VerifyReconnects` states that it is the only one.
- "The parent view does not have this entry (or it is pruned)" (`coins.h:321`)
  is not so of FRESH while `VerifyDB` connects blocks again: its view is over
  `pcoinsTip`, which has their transactions. Nothing comes of it, because that
  view is never flushed and an entry in it is erased only where the tip has
  nothing left of the transaction. `FreshIsNew` excludes this phase; without
  the exclusion `block_coins` violates it.
- `PrioritiseTransaction` does not update the ancestor fees of the descendants,
  while `CTxMemPool::check` asserts them (`txmempool.cpp`, 710ff): a parent
  prioritised after its child has come. `TotalsExact` covers the other totals.
- An output that the node denies once, because a transaction of the memory pool
  that is later dropped spends it or because the explorer was ahead, leaves
  the index for good, beside a comment that calls an empty answer of a full
  index authoritative (`ChainIndexer.java:215`); the same holds for a
  transaction that `expandTxidsIfNeeded` skips. `IndexComplete` excludes these
  with `denied`.
- Read in the source and not modelled: `ChainIndexer` advances by height only
  and does not notice a reorganisation; the stake cache is used without looking
  at the active chain (`pos.cpp:209`); `GetNextTargetRequired` dereferences
  `pindexLast` before it tests it for NULL (`pow.cpp`).

## Proofs

TLAPS checks the following for every value of the constants that satisfies the
named assumptions of the modules.

| Theorem | States |
|---|---|
| `CountersAlwaysMatch`, `OnlyLivePeers`, `DownloadsAreSafe`, `RequestsAreNew`, `CommonBlockIsLinked` | the safety invariants of block download, for any peers, heights and limits |
| `BlocksAreNotReassigned`, `DisconnectsForCause` | its action properties: no step hands a block over, and `SendMessages` disconnects no peer that neither owes a block nor is to be banned, for any misbehaving peers |
| `IndexIsSound`, `SequenceIdsAreUnique` | type correctness, linking and unique sequence numbers, for any tree, threads and operator |
| `ActiveChainStaysValid` | without invalidateblock, whenever no call is active, no block of the active chain is marked failed, whatever threads raced before |
| `FailuresHaveCauses` | without reconsiderblock, failure flags have a cause, for any threads |
| `CandidatesStaySound` | without pruning, no candidate is worse than the tip, for any threads and operator |
| `WaitingBlocksMissSomething` | without invalidateblock, `mapBlocksUnlinked` holds nothing that could be linked, for any threads |
| `LinkedWhenComplete`, `CandidatesNeverEmpty` | without invalidateblock and pruning, linking is exact and the candidates are never empty, for any threads |
| `WaitingBlocksAreQueued` | without reconsiderblock and pruning, a stored block that is not linked waits in `mapBlocksUnlinked`, for any threads |
| `BestChainWins`, `CandidatesAreComplete`, `ActiveChainValidAgain`, `EveryStepImproves` | with one thread, without reconsiderblock and pruning: after every call the best valid chain is active and the candidates are complete, invalidateblock included, and every step that meets no invalid block improves the tip |
| `ScriptsOnTopOfScripts` | without invalidateblock, a block with valid scripts stands on blocks with valid scripts (`main.cpp:4829`) |
| `FlagsAreRight` | DIRTY means what it says in both caches and FRESH in `pcoinsTip`, for any transactions, outputs and heights and callers as above |
| `CachesImplementMaps` | `CoinsCache` implements `CoinsMap` |
| `BlocksUseCoins` | every step of `BlockCoins` is a step of `CoinsCache`, for any blocks, transactions and schedules: no wrong FRESH flag does harm |
| `BlocksKeepFlags`, `BlocksSeeMaps` | so `FreshIsNew` and the refinement of `CoinsMap` hold of connecting, disconnecting and verifying blocks |
| `CoinsAreAlwaysReplay` | the coins in memory and on disk are those that the transactions of the best block's chain leave, for any tree, transactions, refusals, reorganisations, flushes and crashes |
| `UndoAlwaysFits` | `DisconnectBlock` never finds a block unclean; undo data kept from an earlier connection is that of the present one |
| `VerifyAlwaysReconnects` | `VerifyDB` connects again what it disconnected, the reward aside, and ends with the coins of the tip |
| `ChainIsSound` | no transaction comes twice in the best block's chain, and what is spent was created earlier in it |
| `UndoIsComplete` | undo data covers exactly the inputs of its block, and the best block has undo data after any restarts |
| `CrashSafe`, `CoinsAreOfBestBlock`, `BlocksCanBeUndone`, `NodeRestarts` | what `flush_crash` checks, for any tree, number of files, verification depth and set of failing writes |
| `QueueIsIdle`, `WaitTellsTheTruth`, `CountersNeverWrap` | the assertion of `CCheckQueueControl` holds, `Wait` returns the verdict of its own block and no counter wraps, for any workers, checks and batch size, late starts, spurious wakeups and interruptions included |
| `NoOutputIsLost` | the wallet server's index is complete, for any threads, outputs, blocks, faults and batch size |

The restrictions in the theorems of `BestChainProofs` are those under which the
properties hold. Each is stated as an assumption on a constant
(`ReconsiderBlocks = {}`, `PrunableBlocks = {}`, `InvalidateBlocks = {}`,
`Threads = {s}`), and what happens without it is described above: `chain_race`
for several threads, the list after it for the other three. The first three are
ways to run the node (nobody calls the RPC, -prune is off). One thread means
that calls of `ActivateBestChain` do not overlap.

`BlocksAreNotReassigned` is close to `RequestedOnce` and is left to the proof.
`DownloadsAreSafe` and `OnlyLivePeers` also contain what no run lists: a peer
marked as stalling owes a block (`StallerOwesBlock`), and the assertions at the
end of `FinalizeNode` hold (`LastPeerGone`); `FlagsAreRight` contains that a
clean entry is a copy of what is below (`CleanIsCopy`).

Assumptions: `TreeAssumption` of `ChainState` and of `FlushState` say that
`Prev`, `Anc` and `Height` describe a tree with root `Genesis` (ancestors are
given as a function with their recurrence);
`InputsAssumption` says that bad and invalidated blocks are not the genesis
block and that the bounds are natural numbers. `BlockDownload` and `Coins` assume that the markers
(`NoPeer`, `NoCoins`, `NoEntry`) are not elements of the sets they stand beside,
that `Peers` is finite, that limits are natural numbers, and that heights of
blocks with transactions are positive. `BlockAssumption` says that blocks are a
tree with the chains as a function given by its recurrence, that the first
transaction of a block other than the genesis block is its coinbase and only
coinbases have no inputs (`CheckBlock`, `CheckTransaction`), that blocks with
the same coinbase have the same height (`ContextualCheckBlock`), that
`nCoinbaseMaturity` is a natural number, and that the
schedules reach far enough. `CheckQueue` assumes finitely many
threads and checks, and batches of at least one. `ChainIndexer` assumes that an
output is not spent before it is created, that batches have at least one block
and that the background thread is neither a request nor a worker.

The inductive invariants:

- *BlockDownload.* The counters are only right if the lists are exact: a block
  is in the list of the peer that `mapBlocksInFlight` names, and in no other; and
  the limit only holds because a loop in progress (`FetchInv`) never has more
  left to request than the limit allows.
  With that, each counter is the cardinality of a finite set and each step
  changes it by one element.
- *ChainState.* `ThreadInv` says what a thread may carry over a release of
  `cs_main`: `pindexMostWork` is linked, though possibly no longer a candidate,
  valid or best. `UnlinkedProcessed` is needed for the recursive part of
  `ReceivedBlockTransactions`: the waiting blocks that it links were processed. For
  `ActiveChainStaysValid`, `FailureInv` says that each failure stems from a
  block that breaks a rule and that none of these is in the active chain; a
  stale `pindexMostWork` does no harm to this because `ConnectTip` checks every
  block it connects.
- *ChainState, unrestricted threads.* `CauseInv`, `NotWorse` and `UnlinkedInv`
  strengthen `FailedHasCause`, `CandidatesSound` and `UnlinkedSound` to states in
  the middle of a call. For `CandidatesNeverEmpty` it is not enough to
  count candidates, because `FindMostWorkChain` deletes them one by one and a
  thread with an outdated target prunes them against a tip that another thread
  has moved. `GoodInv` says that there is always a reference (`RefOf`): a
  candidate that can be connected and is no worse than the tip, with every
  valid linked block at least as good as itself among the candidates. Such a
  block is not deleted, and when the tip overtakes it and it is pruned, the new
  tip takes its place.
- *ChainState, one thread.* `SoloInv` adds, by the place the thread is at
  (`SoloOn`), that the target is the best candidate from the moment it is chosen
  until it is reached or given up, that it is better than the old tip, and that
  the tip is the best candidate when the thread is idle. With the reference
  this makes the tip the best valid block. invalidateblock is included: while
  it disconnects blocks there may be no reference, and `Reinstated` has to
  bring it back in one step.
- *Induction on the tree.* That a set of blocks with a bound has a best, a
  lowest or a first member is proved from the well-foundedness of `<` on the
  naturals (`LeastNumber`, `LowestBlock`): the least counterexample takes the
  place of induction.
- *CoinsCache.* `EntryOK` and `CopyOK`, for one transaction at a time, relate
  database, tip entry and view entry: a FRESH entry of the tip is not in the
  database, a clean entry is a copy of what is below. With the obligations of
  the callers this is both the invariant and what makes every step a step of
  `CoinsMap`.
- *BlockCoins.* `CoinsCache` allows any output to be spent and restored, but
  only outputs, heights and transactions that there are. That `DisconnectBlock`
  restores such heights is known only from what `ConnectBlock` stored, maybe
  before a restart: `VtxundoType` says which places of the block are in
  `blockundo` at each step, `UndoType` that stored undo data has them all, and
  `OnTip` that every block from the best one down has undo data and that
  `VerifyDB` stays on that chain. The invariant of the caches is needed beside
  it, because the heights come from the coins that were spent.
- *BlockCoins, the coins.* `ReplayInv` follows the replay of the chain
  transaction by transaction. A point of a block is a transaction and a number
  of its inputs; at it certain transactions have been made (`MadeTo`) and
  certain outputs are gone (`GoneTo`), and `Replay` says that a map holds what
  these leave. Database and tip hold the replay of their best blocks, and the
  view that of the point its call has come to. The points are the same on the
  way up and on the way down, which is why `DisconnectBlock` takes back exactly
  what `ConnectBlock` did; that an output restored without a height finds its
  transaction still there is `UndoRight`, which fixes the height of each input
  from the chain alone, so undo data is unique and may be kept. For `VerifyDB`
  the checks of `ConnectBlock` are restated about the chain instead of the
  coins (`BlockGood`); stored undo data is the witness that a block has passed
  them once, and the replay in the view makes them pass again. That a
  transaction is never made twice (`Sound`) needs the heights in coinbases: any
  other transaction that came again would have inputs that are gone. From it
  follows that the FRESH flag is right in every view that is flushed.
  `ReplayIsCoinsAt` connects the sets with the reference `CoinsAt`.
- *FlushState.* `DiskOK` is what a restart relies on (index entries on disk
  have synced data; every version of the coins refers to blocks the index on
  disk has), `MemOK` what a flush relies on (what is not on disk is dirty;
  unsynced block data is in the last file; at stage "coins" the index on disk
  has everything). `DiskOK` alone is not inductive: that `FlushCoins` keeps it
  follows from `MemOK`, and `MemOK` at a restart follows from `DiskOK`. Both
  hold as long as no write has lost data; `UndoOK` as long as the power has not
  failed either.
- *CheckQueue.* An interrupted wait leaves a thread in `nTotal` and in `nIdle`
  for ever, so neither counts anything; `CountersRight` says that their
  difference is the number of threads that run checks, and that `nTodo` is the
  number of checks in the queue or with a thread, each in one place (`Apart`).
  `StatusRight` says what `fAllOk` knows: as long as it is true every check that
  is done was good, and when it is false one of this block is bad; a thread
  that was told of a failure when it took its batch has it from this block.
  `LoopKeeps` is the one lemma about the body of `Loop`, from which the three
  ways of getting into it follow.
- *ChainIndexer.* `IndexComplete` is about the index in memory, and a restart
  replaces that by the file, so the same must hold of the file, of every
  snapshot a thread still carries (`Sound`), each for its own `indexedHeight`,
  and then every older snapshot may win the race for the file. A request
  removes outputs it found spent some steps ago: `Sound` says that those are
  spent by a block or denied. `Follows` says that the background thread never
  begins a batch more than one block after the index, also when it starts over
  after a failure.

`USE SMT, SMTT(20), Zenon` at the head of the larger proof modules only gives the
provers a second try at a leaf; it adds no fact.

Model-checked only:

- Liveness (`InFlightResolved`, `ChainArrives`, `CallsReturn`, `WaitReturns`),
  which the prover does not do.
- The properties of `Mempool` (`InputsAvailable`, `LinksExact`, `TotalsExact`,
  `FinalAlways`). Its operations are folds over blocks and
  closures over links, recursive functions whose values the provers cannot
  unfold, and the totals are sums over such closures.

## Not modelled, and why

- Scripts, signatures, kernel hashes, values and times are arithmetic on bytes;
  whether a block passes those checks is a constant of the tree. What it does
  to the coins, and whether its inputs are there, is in `BlockCoins`.
- The order in which `setBlockIndexCandidates` is iterated when the key of an
  element changes in place (a pruned block that is downloaded again) is
  undefined behaviour of `std::set`; the model has a set.
- `CheckStake` reads `mapBlockIndex` before it takes `cs_main`; the model reads
  it with the lock.
- Pruning is in `ChainState` and not in `FlushState`; -reindex, the transaction
  index and `LoadExternalBlockFile` are in neither.
- After `AbortNode` the model of `ChainState` stops, while in the code other
  threads leave their loops at the next look at `ShutdownRequested`.
- Of the memory pool: the rolling minimum fee and the fee and standardness
  policy, which only decide which transactions are refused.
- Subsidy and difficulty are functions of a height and of times, which a table
  test covers; orphan transactions, the points of the ban score, the address manager and the
  scheduler are small structures under one lock each.
- Wallet of the node, RPC, user interface, its translations (`qt/locale`, which
  are data) and vendored libraries: see the components in `PROJECT.json`.

## Plan

1. Proofs: `LinksExact` and `InputsAvailable` of `Mempool`.
2. `FlushState` with pruned files, and a refinement to an abstract store that
   is either the state before or after a block.
3. `OrphanPool`: the two maps agree, the limit holds, an orphan is gone soon
   after it expires.
4. `Scheduler`, `AddrMan`, the staker with its cache.
