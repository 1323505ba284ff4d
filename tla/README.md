# A TLA+ verification of xchain-utxo-tracker

The tracker follows a Bitcoin-like coin node (BTC, LTC, DOGE), indexes the unspent outputs of its
chain in LevelDB, mirrors the node's mempool in a second store, and answers balance and UTXO
queries.  This directory models its core, checks it with TLC and proves most of its safety properties with TLAPS.
Source paths below are relative to `src/src/`.

## The system

| Part | State | Operations | Interacts with |
|---|---|---|---|
| Confirmed store (`store/level_up_db/`) | LevelDB records: O/H unspent outputs, K/M spent outputs per block, W outputs created per block, N blocks of the undo window, B block records, S/Z first-seen scripts, T/X/Y transactions, the tip pointer, P cleanup list, Q watermark; one open write batch; a process-wide output cache | stage, commit or discard a batch; spend outputs; restore and delete at a rollback; prune | sync loop writes, address reads |
| Undo window (`last_blocks_window.js`) | `lastBlocks`, `pendingKMCleanup`, watermark | add a block, queue aged blocks, clean up, reload | store, walk |
| Sync loop (`sync_loop*.js`) | cursor, cached node tip, prefetch queue, batch counters, `synced`, latches | refresh the tip, fetch, stage, flush, detect forks | node, store, mempool |
| Reorg walk (`reorg_verification.js`, `reorg_node_reads.js`) | rollback budget, blocks deleted, node tip it goes by | compare, roll back, refuse, halt | node, store |
| Mempool mirror (`mempool_refresh.js`) | second store, `mempoolBusy`, `mempoolReconverged`, timer | list, prune, fetch batches; cleanup at a flush; resync after a reorg | node, sync loop |
| Store-commit lock (`store_commit_lock.js`) | readers, writing, waiters | shared reads, exclusive commits | address reads, every commit |
| Address reads (`address_queries.js`) | none; a pager keeps its cursor and the labels of its last page | confirmed rows, mempool rows, spend probes, balances, pages, freshness labels | both stores |
| Halt and lifecycle (`halt_marker.js`, `status_and_stop.js`, `sync_loop.js`, `server/`, `api.js`) | halt marker in the store; stop, abort and halt flags of the one tracker object; the store handle of each launch | halt and resume a halt, stop for an operation, relaunch, drain, shut down | sync loop, API |
| Snapshot and restore (`api/compression.js`, `api/errors.js`, `bootstrap/`) | archives with sidecar and signature, the guard flag | pack, seal, validate, wipe, extract; resume or fail loud | lifecycle, the store's directory |
| Node connector (`chain/blockchain_connector/`) | active endpoint, count of connection failures | fetch one or a batch of blocks, retry, fail over, strip or reassemble AuxPoW blocks | sync loop, mempool, status |
| API and concurrency gate (`api/`, `server/concurrency_gate.js`) | slots in use per gate, the shared node read | admit, hold, release; status with a deadline | all |
| Bulk sync (`bulk_sync/`, `api/bulk_boot.js`) | dump, parsed, merge and key files, manifests beside the sorted files | dump, verify, parse, concatenate, sort, join, derive keys, load; resume after a crash; stop | node; writes an empty store once, before the tracker starts |
| Decoder, coins, config, observability | none that outlives a call | | |

The tracker is one Node.js process: no parallelism, but every `await` lets another callback run.
A bulk sync runs before it, as a process tree of its own whose only memory is its files.  What is
hard about them:

- the node's chain and mempool change between any two calls of one pass;
- the process can die between any two write batches, and restart with another `UNDO_BLOCKS`;
- a batch can be discarded after the in-memory window and cleanup list have counted it;
- an output may be created, spent and needed again within one batch, and the value archived for it
  may come from the batch, the cache or the disk;
- two stores are read by one query and written by one flush;
- a node that restarts reports a low tip that must not be mistaken for a reorganisation;
- readiness flags are set by one activity and dropped by another;
- a tracker is stopped, its directory packed or replaced, and launched again inside one process,
  while passes and awaits of the launch before are still under way;
- a fetch has retries, a failover and a reassembly below two failure streaks, and requests nobody
  awaits any more still count;
- clients hang up while their reads run, and a paged answer is several reads;
- a bulk sync can be cut at any file operation and resumed by another boot, with another node tip
  or another end height, from whatever files it left.

`PROJECT.json` lists these as hazards, each at the line where it bites.

## Modules

| Module | Models |
|---|---|
| `BlockTree` | the blocks a node can serve: parents and heights |
| `Ledger` | outputs created and spent along the tree; the reference ledger `UtxoAfter(t)` |
| `UtxoIndex` | abstract specification: the index holds the whole ledger of one block and moves by batches or to the parent |
| `UtxoStore` | the confirmed store and undo window at the granularity of LevelDB batches |
| `HistoryIndex` | `UtxoStore` with the script and transaction indexes and the window's depth mark staged in its batches |
| `SyncLoop` | the loop and the walk against a moving node, one step per call |
| `MempoolRefresh` | refresh passes, flush cleanup, readiness, concurrent with the loop |
| `StoreCommitLock` | the lock, the reads, pages and commits under it |
| `RestoreArchive` | the archives on the volume and the gates a restore puts them through |
| `Lifecycle` | launches, halt, stop, snapshot, restore, relaunch, signals and crashes of the process |
| `BlockFetch` | prefetch queue, failure streaks, connector with retries, failover and AuxPoW reassembly |
| `RequestGate` | admission and release of requests, and the node read that status requests share |
| `BulkSync` | the boot decision, the phases of a bulk sync, its files and its resume rules |
| `MC*` | small instances for TLC |
| `UtxoStoreProofs`, `SyncLoopProofs`, `MempoolRefreshProofs`, `StoreCommitLockProofs`, `LifecycleProofs`, `BlockFetchProofs`, `RequestGateProofs`, `BulkSyncProofs` | theorems about the modules they are named after (`UtxoStoreProofs`: `HistoryIndex` too), with the inductive invariants and lemmas they rest on |

### UtxoStore

Disk variables are record families; `staged`, `stagedUndo` and `stagedBlocks` are the open
`transactionArray`; the rest is process memory, lost in a `Crash`.  `StageBlock` is `stageBlock`
with its two passes (outputs first, then `removeOutputsWithInputsBatch` in its three phases) and
`addToLastBlocks`; `Flush` is `flushBatch` up to its commit; `CleanupAgedBlocks` follows it as a
separate batch, so a crash may fall between.  `ReorgDetected` and `TipBelowOurs` discard the batch
as their callers do (only the first persists the cleanup list unconditionally and runs the cleanup
after the walk).  `StageRollback`, `CommitRollback` and `FailRollback` are `rollBackTipBlock`: the
window entry is popped before the commit.  When an attempt fails the window is read back from disk,
and when that read fails too its error is swallowed and the next attempt goes on without the tip in
its window (`removeFromLastBlocks` then reads it back, or finds an empty window and halts).  The
walk's decisions are left open here; `SyncLoop` has them.  An O value is reduced to its creation
height, the field that a re-mined transaction changes.  `reload` and `view` are proof variables: the
last attempt left the tip out of the window, and a walk that ended there (the node took the tip back)
left a torn window behind.  Until a restart or a walk reads a window without a gap from disk again,
`WindowFollowsBranch` and the last conjunct of `NoStrandedUndoRecords` are not claimed of it; the
ledger, the undo records and the cause of a halt are.

### HistoryIndex

Extends `UtxoStore`, and every action of it is one of that module's conjoined with what the same
code does to the records that outlive the undo window: S (height a script was first paid at) with Z
(the scripts a block was first to pay), T and X (block of a transaction, written and deleted
together) with Y (the transactions of a block).  `knownScripts` is the process-wide cache that lets
a block skip the read of an S record; it may overflow in the middle of a block, which the staging action chooses.
`KnownAfterDiscard` is what is left of it when a batch is thrown away.  `Seen` and `Mined` are the
reference history along each branch, tied to the block tree by `HistoryAssumption`.
`mark` is the Q record: `RecordUndoWindowWatermark` stages it with the block that deepens the
window, `MarkDiscarded` loses it with the batch, `Clamped` is what a start makes of it under a
smaller `UNDO_BLOCKS`.  `deepest` is a proof variable.

### SyncLoop

The store is reduced to the committed tip and the depth of its window.  `poll` is the top of
`pollSyncLoop`; `attip`, `index`, `settle` and the `walk*` locations are the awaits of a pass.  A
prefetched block is kept with the hash its promise resolves to at the time of the request, so
consuming it later is a stale read.  A request for a batch in which one height is missing is
rejected as a whole.  `Fault` is an unanswered call; failing hash reads at the tip are treated as
the code does, as no reason to roll back.  `lacked` and `entry` are proof variables: the blocks the
node has lacked since the pass began, and the committed tip a walk began on.

### MempoolRefresh

One action per await of `updateMempool`.  The node's chain is a sequence of identified blocks.  It is
disconnected one block at a time, as `reorg_node_reads.js:111` describes, and grows by new blocks or by
the committed ones it had left (`NodeReconnects`), at any moment of a pass.  `CallUpdateMempool` returns at once when the flag is taken.
`WalkEnds` is `resyncMempoolAfterReorg`: it drops the flag and leaves a waiter in `resyncs`, which
`ResyncRuns` releases at any later moment (the code polls every 100 ms, for a minute).  `listed`,
`dropped`, `left`, `unmined`, `sinceSync` and the two ages are proof variables.

### StoreCommitLock

`waiters` are unresolved promises, `resumed` the resolved ones whose continuation is queued: Node.js
runs that queue in order before anything else (`QueueDrained`).  The data is one transaction that
spends an output of the address and creates another, beside a coinbase output that stays.  A read
looks at one confirmed output per await (`ProbeRow`), then at the mempool's (`ProbeMempool`).
`Withheld` is `addServableConfirmedUtxo`: an output whose depth below the node's tip is negative, or a
coinbase below its maturity, is not served.  That tip is `nodeTip`, which the loop refreshes between
its commits without taking the lock (`RefreshNodeTip`), so it may move from one output to the next.
Balances (`ConfirmedBalance`, `PendingBalance`) come from the same awaits and withhold nothing.
A pager reads one row per page and keeps what its client keeps: the cursor, the outputs served, and
the tip and mempool epoch its pages report (`Steady`).  It starts over when they change, as
`nextPageCursor` asks of it.  An output may be in both stores, once the node has left a block that
is still committed here; a paged read then asks the confirmed store (`Twin`).

### RestoreArchive and Lifecycle

An archive is a record of what the gates of `validateBootstrapArchiveOrThrow` and the extraction can
tell apart; a digest is that record.  `Lifecycle` is one process: `launches` counts the calls of
`start()`, `loop[i]` is where launch `i` is between two awaits (opening the store, reading the
marker, loading, polling, closing), and all of them share the flags in `tracker`.  `admin` is the
operation that holds the guard: waiting in `stopParsing`, then measuring, packing and sealing a
snapshot, or validating, wiping and extracting a restore, then `Relaunch`.  A snapshot's archive and
sidecar are written in separate steps, with `Kill` between any two.  `drain` is the shutdown after a
signal with the timer of `createShutdown`.  `pass` is the mempool pass in flight, with the launch
whose store it began on; one whose listing fails leaves the flags alone (`PassUnlisted`).  Whether a wait runs out, a pack fails, an extraction fails or a marker
cannot be read is open.  `seen` is a proof variable.

### BlockFetch

A call is a method of the connector: a plan of RPC legs (`Plan`), one request in flight at a time, a
bounded number of tries for the legs that retry.  The prefetch queue holds batches; clearing it
makes orphans of the calls in flight, whose answers and failures still reach the failover counter.
`blockFetch` and `parse` are the two streaks of `fetch_failures_and_halt.js`.  What the node serves
(blocks it does not have, pruned or never received, blocks whose AuxPoW section cannot be read, txindex
or not) is fixed per behaviour and the same behind every endpoint; the endpoints go down and come back
(`EndpointsChange`).  Faults of endpoints that are up, outages and rollbacks of the cursor are bounded.
At the retry bound the process exits and is started again, with a new connector that begins at the
first endpoint (`Relaunch`).  `lost` is a proof variable: the failures for want of an answer since the
cursor came to its height.

### RequestGate

A request is admitted by the gate its path selects, and its slot belongs to the socket until a held
handler claims it, then to the work: what the handler awaits, and what the JSON-RPC router started
for notifications and nobody awaits.  `Close` is the client hanging up at any moment.  `shared` is
`nodeReadInFlight`; `Deadline` gives up on the node without ending the read.

### BulkSync

A file is the range of heights it covers; a sorted file also has a size, because it is written in
place and a kill can leave any prefix of it.  `pc` is the phase the orchestrator is in and `st` the
stream it handles there.  `Crash` and `StopBulkBoot` can happen at every location; `Fatal` is an
error of the run, after which the API exits and is booted again.  The deployment (`conf`: mainnet,
so that the chain is verified; work directory inside the database directory, the default) is chosen
in `Init`.  `BootBulkSync` is a run the API starts, `OperatorRun` one started by hand with an end
height or `--skip-dump`.  `queue` is `CleanupManager`'s, and every `maybeFree` may or may not find
the disk low.  Blocks below the tip safety are taken as settled, so one height always means the same
block; the re-check of an existing chunk against the node (`existingChunkMatchesChain`) then always
passes.  `cut` is a proof variable: a run went down in its parse phase.

## Runs

| Run | Shows | Instance |
|---|---|---|
| `utxo_store` | exact ledger, first-seen heights and transaction locations of the committed branch; complete undo records and reverse indexes, nothing stranded; unbroken window and justified halts, also when a rollback's commit and reload fail; a mark never above a depth the window had; refinement of `UtxoIndex` | 6 blocks on 2 branches, 5 outputs (two mined at other heights on the other branch, one created and spent in a block), 3 scripts, `UNDO_BLOCKS` 1 and 2 changing at restarts, batches up to 3 |
| `sync_loop` | one branch only, rollbacks only of what the node lacked, halts only for a fork deeper than the window, refusals hold, convergence | 6 blocks on 2 branches, window 2 with a branch of 3, batch 3, prefetch 2, 2 stable reads of 3, 5 node moves, 2 faults |
| `mempool_refresh` | one writer, complete mirror, no visibility gap, flush not locked out | 2 transactions fetched one at a time, 2 blocks built or reconnected, disconnected at any time |
| `store_commit_lock` | consistent reads and balances, pages under one label are one answer unless the node's tip moved, no starvation | one plain read, one pager, 2 writers; a node tip that is unknown, withholds some outputs or serves all; maturity 1 |
| `bulk_sync` | a seed is the exact ledger of one height below the undo window; no input freed early; whole streams reach the join; a complete parse is resumed | 6 heights, chunks of 2, 2 workers, 2 events among crashes, stops and operator runs (at most 1 run), all deployments |
| `lifecycle` | no open handle on a directory that is packed or replaced; a halt survives restarts, relaunches and restores; a store is wiped only for a store; a pause ends; a signal ends the process | 3 launches, own snapshots and 4 published archives (good, of another network, cut off, packed one directory too high), any number of restarts; operations requested only when no launch is starting |
| `block_fetch` | reassembly and desync only for a cause that accounts for them, stale queue entries never consumed, the tip is reached, restarts included | 3 blocks, prefetch 2, 2 endpoints, failover at 2, reassembly at 2, 5 retries, 1 fault, 2 changes of what is up, 1 rollback; a whole node, one with a malformed block (first endpoint down, or no txindex), one that lacks a block |
| `request_gate` | running work within each cap, slots come back | 3 requests for 2 main slots and 1 probe slot, batches of 2 |
| `mempool_ready_after_reorg` (violation) | readiness after a rollback from an older listing | as `mempool_refresh` |
| `lifecycle_overlap` (violation) | a second operation on the directory of an open store | as `lifecycle`, operations requested at any time |
| `lifecycle_failed_stop` (violation) | a stop reported as failed after which nothing runs | as `lifecycle` |
| `lifecycle_stale_pass` (violation) | readiness of a new launch from a pass of the one before | as `lifecycle` |

`TypeOK` is stated in `UtxoStore`, whose run checks it, and in `SyncLoop`, `MempoolRefresh`,
`StoreCommitLock`, `Lifecycle`, `BlockFetch` and `BulkSync`; it is proved of all of them.  In the other
two the types are part of the inductive invariants (`Typed` of `RequestGateProofs`, `HInv` for
`HistoryIndex`).

The bounds are the smallest that let each case happen: a branch longer than the window, a batch
that both creates and spends, a discarded batch that had aged blocks out, a cleanup list replayed
after a restart, a walk that is refused, one that halts, one whose tip is re-read.  Node moves,
faults, blocks built, launches of one process, and crashes and reruns of a bulk sync are bounded
(`MaxMoves`, `MaxFaults`, `MaxOutages`, `MaxRewinds`, `MaxIds`, `MaxLaunch`, `MaxEvents`) and named as
constants.  Retry counts are scaled down but keep their order: failover threshold, reassembly threshold
and `MaxFetchRetries` are 2, 2 and 5 for the code's 3, 5 and 20.  The safety properties of `BlockFetch`
hold for any numbers; `CatchesUp` needs the retries to exceed the other two together, as the code's do:
with 4, a process that begins at a dead endpoint below a malformed block uses its retries up on
both, exits, and begins again, for ever.  A second fault, or a malformed block with endpoints that
change, leaves too many abandoned calls for a run; the theorems cover them.

Distinct states: `utxo_store` 340,191; `sync_loop` 234,552; `mempool_refresh` 1,596,752;
`store_commit_lock` 147,306; `lifecycle` 648,809; `block_fetch` 356,469.

`utxo_store` and `sync_loop` switch deadlock checking off: a halted tracker takes no step by
design, and in `sync_loop` a node that has used up its moves may leave it halted.  The runs of
`BulkSync` switch it off because they end where the tracker starts, or where a boot refuses a
partial target and waits for an operator.  All other runs check it.

Each property of a passing run has a mutant, a changed definition kept next to the original, under
which TLC reports that property.

### Where code and comments disagree

With a run:

1. `resyncMempoolAfterReorg` means to wait out the pass that predates a reorganisation, but that
   pass marks readiness when it ends, and the waiter looks only every 100 ms
   (`mempool_ready_after_reorg`).
2. `parsingStopped` stays true from the launch before until the relaunched loop is entered, after
   the stores were opened, so a second snapshot or restore in between is told at once that parsing
   has stopped (`lifecycle_overlap`; `routes.js:158`, `status_and_stop.js:81`).
3. `stopParsing` can give up while the loop is inside the close of the store, and "a failed stop
   must be a no-op that leaves the tracker running" (`lifecycle_failed_stop`).
4. A mempool pass is not waited for by a stop, and marks the next launch ready although "a
   relaunched loop re-earns readiness" (`lifecycle_stale_pass`).

Stated in a module and refuted by TLC when listed in a cfg, without a run of their own:

5. `ReadyAfterSyncPass`: `XChainUtxoTracker.js:201` promises readiness only after a pass following
   the last rise of `synced`.  `recoverFromTipBelowOurs` drops `synced` alone, and a pass in flight
   re-asserts the flag that `indexNextBlock` dropped.
6. `MarkInStep`: `recordUndoWindowWatermark` remembers a mark as persisted when it is staged; a
   discarded batch loses the put for good.  The mark only feeds diagnostics, so messages are wrong,
   not the index.
7. `StreamsAgreeOnRange`: `parse_worker.js:204` renames the three files of a chunk one after the
   other, and a resume takes any parsed file for a finished parse.  After a crash in the parse phase
   the fresh concatenation therefore accepts streams of different ranges, which `phases.js:136`
   rules out for reused files.  `SeedIsExactLedger` is stated for runs that were not cut there.
8. `ParseIsAResumePoint`: the dumps are removed after the parse, and on mainnet the resumed run
   verifies the chain of the dumps: an empty list, which fails each boot, although `api.js:266`
   promises to resume.  `WholeParseIsResumed` is stated for the other networks.
9. `OnlyMalformedReassembled`: one malformed block rejects its batch, so readable blocks before it
   in the window are retried and reassembled too, against `fetch_failures_and_halt.js:29`.
10. `HaltOnlyWhenSpent`: `reorg_verification.js:339` reloads the window "so the retry budget actually
   retries", and line 328 takes a halt for one that "re-throws identically on every retry (the reloaded
   window is still empty)".  When the commit of a rollback fails on the last block of the window and the
   reload fails too (line 342 swallows it), the next attempt finds an empty window and halts for good,
   although the undo records of the tip are on disk.  `HaltIsJustified` names this exception.
11. `PruneOnlyDropped`: `mempool_refresh.js:44` reads the tips after the listing "so a block mined since
   it shows as a mismatch".  A block connected at the listing and disconnected before the tips are read
   shows as an agreement with a store that never had it, and the prune deletes its transactions although
   they are back in the node's mempool.  `NoVisibilityGap` names this exception.
12. `LabelsTellPagers`: `address_queries.js:284` tells pagers when to start over: when
   `sync.tracker_height` or `sync.committed_hash` moves, and when `mempool_epoch` does.  None of them
   moves with `blockchainInfoLastBlock`, which decides what is withheld: pages on both sides of a
   refresh of the node's tip can be the answer at no single tip.  `PagesAreOneAnswer` shows what is left:
   every output is accounted for once, and the pages are one answer when that tip stood still.
13. `DesyncMeansUnservable`: `fetch_failures_and_halt.js:59` says that at the bound "the node cannot serve
   that block (pruned past our cursor, or a permanent missing-block fault)".  Line 67 "counts EVERY
   failure, transport included", as `constants.js:56` wants it, so a minute of outage is enough; and a
   block missing or malformed further up the same batch fails the ones below it.  `DesyncHasCause` is
   the account of all of these.

Seen while modelling:

- a stop of a bulk sync removes the database directory, and with the default work directory inside it
  nothing is retained, whatever `bulk_boot.js:146` logs (`StopBulkBoot` with `conf.inside`);
- the header of `all-meta.dat` has record size 0, which `validateConcatArtifact` takes for a legacy
  file, so a run's concatenated files are never reused (`RecordSize`), which costs time only;
- the last chunk of an interrupted dump is shorter than a full one; once the tip has grown the next
  dump writes a longer one from the same height beside it (`dump.js:218`), and every later boot fails
  on the overlap, loudly;
- the drain waits for the promise of the first launch only (`startup.js:395`), so after a relaunch it
  closes the stores under a running loop, against `shutdown.js:157`; a `start()` or a refused stop
  sets `keepParsing` again and undoes the signal's `stop()`, and the timer of `createShutdown` is then
  what ends the process (`SignalEnds`);
- an operation that closes the store between the awaits of `persistHaltMarker` loses the marker; a
  halt while `stopParsing` waits leaves a halted tracker whose mempool poller the give-up has armed
  again; a signal in the middle of an extraction exits cleanly and leaves a partial store, which the
  next boot takes as it stands
  (`Boot`);
- faults of requests to an endpoint already left count against its successor
  (`transport_and_mempool.js:146`);
- `start()` replaces the mempool store without moving `mempoolEpoch`, so pages read on both sides of a
  relaunch can carry one label although the mirror was emptied between them
  (`address_queries.js:288`).  `PagesAreOneAnswer` is checked within one launch.

## Fairness

- `SyncLoop`: weak fairness of the loop as a whole, because the loop never stops by itself and the
  process is restarted by its supervisor; strong fairness of the tip refresh, because
  `BLOCKCHAIN_INFO_REFRESH_MS` passes even while blocks are fetched.  Nothing is assumed of the
  node; `Converges` says where the loop ends up once the (bounded) moves and faults stop.
- `MempoolRefresh`: a pass runs to its end (calls time out, retries are counted), a commit
  completes, and the flush, polling every 50 ms, meets the flag free between passes that start
  every 60 s (strong fairness of `FlushTakesBusy`).
- `StoreCommitLock`: started operations complete and continuations run (strong fairness of each
  process once it is not idle, because its turn comes and goes with the microtask queue).  That anyone
  starts an operation, or that the node's tip is refreshed, is not assumed.
- `Lifecycle`: every await of a launch or an operation is answered with a result or an error, and
  the shutdown timer fires.  Operators, supervisor, signals and the mempool pass owe nothing.
- `BlockFetch`: the loop goes on, the supervisor restarts a process that exited at the retry bound, and
  axios' timeout and the retry timers end every wait of what the loop awaits.  Nothing is assumed of
  calls nobody awaits, nor of the endpoints: that some endpoint stays up in the end is a hypothesis of
  `CatchesUp`.
- `RequestGate`: reads end (what `StoreCommitLock` shows of them), timers fire, promises continue.
  Neither the node nor a client is fair.
- `BulkSync`: a phase that was started goes on (weak fairness of `Pipeline`), and a process that is
  down is booted again by its supervisor (weak fairness of `Boot`).  Crashes, stops, operator runs
  and the node's growth are never required.

## Proofs

A run checks one small instance; a theorem holds for every value of the constants that satisfies the
module's assumptions.  Every safety invariant and every action property of a passing run is proved, and
so is the refinement of `UtxoIndex`, by the store and by the sync loop.  None of these properties is inductive as it stands.
Each proof module states the strengthening it uses (`IInv`, and beside it others that build on the
first: `WInv`, `HInv`, `WakeInv`, `SlotIffOwner`, `ReadIsShared`, `TypeInv`); each was checked by TLC
as an invariant of the instance of its run before it was proved.
The layout is the same everywhere: one lemma per action that says it preserves the invariant, a lemma
`NextIInv` over the disjuncts of `Next`, `SpecIInv`, and the theorems.

| Module | Theorem | Property | Extra hypothesis |
|---|---|---|---|
| `UtxoStoreProofs` | `TypeCorrect` | `TypeOK` | |
| | `UtxoSetExact` | `UtxoSetIsLedgerOfTip` | |
| | `UndoComplete` | `UndoRecordsComplete` | |
| | `NothingStranded` | `NoStrandedUndoRecords` | |
| | `WindowUnbroken` | `WindowFollowsBranch` | |
| | `HaltJustified` | `HaltIsJustified` | |
| | `StoreRefinesIndex` | `ImplementsUtxoIndex` | |
| | `HistoryExtendsStore` | `HSpec => Spec` | |
| | `FirstSeenIsExact` | `FirstSeenExact` | |
| | `TxIndexIsExact` | `TxIndexExact` | |
| | `ReverseIndexes` | `ReverseIndexesComplete` | |
| | `MarkReached` | `MarkWasReached` | |
| `SyncLoopProofs` | `TypeCorrect` | `TypeOK` | |
| | `CursorOnTip` | `CursorExtendsTip` | |
| | `RollbackJustified` | `RollbackOnlyLacked` | |
| | `HaltPastWindow` | `HaltOnlyPastWindow` | |
| | `RefusalFreezes` | `RefusalHolds` | |
| | `LoopRefinesIndex` | `Index!IndexSpec`, stated with the proof | |
| `MempoolRefreshProofs` | `TypeCorrect` | `TypeOK` | |
| | `OneWriter` | `OneMempoolWriter` | |
| | `PassMirrorsListing` | `ReconvergedMirrorsListing` | |
| | `NoGap` | `NoVisibilityGap` | |
| `StoreCommitLockProofs` | `TypeCorrect` | `TypeOK` | |
| | `ReadsConsistent` | `ReadsAreConsistent` | |
| | `PagesAnswer` | `PagesAreOneAnswer` | |
| | `NoLostWakeup` | `SomeoneWakes`, stated with the proof | |
| `LifecycleProofs` | `TypeCorrect` | `TypeOK` | |
| | `WipeIsSafe` | `WipedOnlyForAStore` | `~AllowUnverified`, `PublishedSealed` |
| | `StoreReleased` | `StoreIsReleased` | `OperatorWaits` |
| | `HaltReported` | `HaltIsReported` | `OperatorWaits` |
| `BulkSyncProofs` | `TypeCorrect` | `TypeOK` | |
| | `SeedExact` | `SeedIsExactLedger` | |
| | `InputsKept` | `InputsNotFreedEarly` | |
| | `JoinReadsWhole` | `JoinReadsWholeStreams` | |
| | `SeedBelowWindow` | `SeedEndsBelowUndoWindow` | |
| `BlockFetchProofs` | `TypeCorrect` | `TypeOK` | |
| | `ReassemblyCaused` | `ReassemblyHasCause` | |
| | `NextBlockFetched` | `FetchesTheNextBlock` | |
| | `DesyncJustified` | `DesyncHasCause` | |
| `RequestGateProofs` | `CapHolds` | `RunningWithinCap` | |
| | `NoSlotLeaks` | `SlotsAreOwned`, stated with the proof | |
| | `StatusSharesARead` | `OneNodeRead`, stated with the proof | |

The properties stated with their proofs have no run of their own.  `SomeoneWakes` and `SlotsAreOwned`
are what the liveness of the lock and of the gate rests on: a waiter always has somebody left to wake
it, and a slot always has an owner left to give it back.  What TLC's `CommitsHappen`, `ReadsHappen`
and `SlotsComeBack` add is that those somebodies get to run.

### Assumptions and hypotheses

`TreeAssumption`: finitely many blocks, each one above its parent.  `LedgerAssumption`: what
consensus guarantees, that an outpoint is created once per branch and only existing outputs are
spent, and `Born` and `Live` are the ledger along each branch.  `HistoryAssumption` defines the
reference history the same way.  `BulkAssumption`: the same of the settled chain, that a block
creates finitely many outputs, and that `Absent` is not a value it stands in for.  The others give
constants their types; retry counts, batch sizes, depths and limits are any positive numbers.

`OperatorWaits` is the condition of the `lifecycle` run; without it `StoreIsReleased` is false, which
`lifecycle_overlap` shows.  `~AllowUnverified` is the code's default (`BOOTSTRAP_RESTORE_ALLOW_UNVERIFIED=1` is the
operator's waiver), and `PublishedSealed` says that a publisher writes the sidecar of an archive it
has finished, as `finishSnapshot` does: a digest cannot protect against an archive that was already
incomplete when it was computed.  The instance of the run satisfies both.

### The inductive invariants

`UtxoStoreProofs`.  A commit is right only if the batch is, and the batch only if what it read was.
`IInv` says what the batch, the cache and the window mean: the disk overlaid with the staged entries
is the ledger of the cursor; staged undo records are what the staged blocks took from their parents; a
cached value of an output that lives on the cursor's branch has that branch's height; staged blocks
are a path from the tip to the cursor; the block being rolled back is in the persisted window; nothing
is left of blocks outside it.  Lemmas state what `UtxoAfter` is across one block and that a rollback's
batch inverts it; that a live output was born at or below the tip's height is proved by induction
over the tree (`LiveIsBorn`).  `WInv` builds on it for the window: unless it is torn, the N records on
disk are a run of the branch without a gap, so the window, sorted by height at a restart or at the entry
of a walk, is one too; a walk's window holds all the disk has, or all but the tip that an attempt popped
and no reload brought back; and what a walk may still roll back is what is left of the window it counted.
The last holds of a torn window as well, which is why `HaltIsJustified` needs no exception for it.

For `HistoryIndex`, in the same module: every step of `HNext` is a step of `Next`, so `IInv` carries over.  `HInv` adds
that the staged history over the disk is the history of the cursor, that staged blocks have their Z
records staged, and that every cached script has been paid on the branch the process works on, which is
what lets `writeOutputs` skip the read.  For the mark: the tracker's copy may exceed what was reached,
but then its persisted copy says the same and it is not staged again.

`SyncLoopProofs`.  `Branch` is a recursive function; `BranchStep` shows that it is well defined, by
comparison with `Ancestry`, the intersection of all parent-closed sets.  The invariant keeps, besides
the cursor on the tip, that `lacked` covers what the node lacks now and, in a walk, every block above
the height the walk takes for the node's tip, and that the persisted window covers the rollbacks a walk
has left: window and rollbacks made add up to what the budget was counted from, and the tip is a block
of the branch the walk began on, as far below its end as there were rollbacks.  With the node above a
tip it lacks, no block of that branch that it still has is within the budget (`HaltPastWindow`).
`LoopRefinesIndex` reads `utxos` of `UtxoIndex` as the ledger of the committed tip, which
is what `UtxoSetExact` shows the store to hold; what it adds is the moves: a flush stays on one branch
(`BranchDescends`), a rollback goes to the parent, and no other step touches the tip.

`MempoolRefreshProofs`.  `OneMempoolWriter` needs that a committing flush holds the flag.
`NoVisibilityGap` rests on the comparison of the tips after the listing: a transaction the listing lacks
has been dropped, was in a block disconnected since (`unmined`), or is in a block that is still on the
node's chain; if the tips then agree, that block is committed here (`OnBranch`), and up to the prune the
walk only takes back blocks the node has left in the meantime, which makes their transactions unmined.

`StoreCommitLockProofs`.  `readers` counts the reads between their two turns, at most one writer holds
the lock, and a writer past the drain has no reader beside it (`Exclusion`); every process is at one
place of one list (`Queued`), without which a woken waiter could pass the lock twice.  Then what a
read has seen is what the stores still answer, and what it has looked at is served, withheld or
spent, by the node's present tip unless that moved (`Snapshot`); pages are related across commits by the
label they carry (`Pages`).  `WakeInv` is about progress: the write side is held by a writer
past its entry, what stands in `waiters` is blocked by a reason that still holds, and who is blocked
is listed, so a wakeup cannot be lost between two microtasks.

`LifecycleProofs`.  `ArchiveIInv` follows an archive from the snapshot that writes it to the restore
that wipes the store for it: a sidecar that holds a digest was made from a complete archive.  `IInv`
follows the launches: only the newest one may run, it owns the only handle, and outside a start the
flags that `stopParsing` reads tell the truth.  That the flags do not during a start is exactly what
`lifecycle_overlap` shows.  `TypeInv` needs none of this and no hypothesis: that an operation let in
leaves a launch for its end, and that an archive being sealed was begun.

`BlockFetchProofs`.  The queue's batches are in order and within the window, a batch that failed on
what it read has a malformed block among its heights and one the node refused a missing one
(`RejectedForCause`), and what the loop awaits is the block above the cursor.  The two streaks are
always kept for the same height (`StreaksTogether`): a parse streak above 0 then has a malformed block
in the window as its cause, stops at the threshold, and anything but a reassembly is awaited only below
it.  For the desync, `OutagesCounted` is an account: at a height that is not hopeless, each failure the
parse streak does not count was an outage since the cursor came there.  A rollback leaves a streak of
a height above the cursor, which no failure below it continues.

`BulkSyncProofs`.  `StreamsInStep` relates the chunks of the three streams while no parse was cut;
`PhaseInputs` says which files each phase finds; `QueueDone` that only files without a reader left are
queued for removal; `ManifestsNest` why a manifest can be trusted: parsed files are only ever added,
so the manifest, the source of the sorted file and what is parsed now are ranges each within the
next, and if the first equals the last all agree.  `Target` carries the seed.

`RequestGateProofs`.  The property speaks of work, the middleware counts slots; the invariant ties
them: a gate's counter is the number of requests that hold one of its slots, and a request with work
under way holds the slot it was admitted on.  `SlotIffOwner` is the converse, that nobody else holds
one; `ReadIsShared` ties the number of node reads to `nodeReadInFlight`.

### Induction

The induction theorems of the library take an operator as parameter, which the provers cannot
instantiate.  Where induction is needed it is done with sets: a non-empty set of naturals has a least
element (`WFMin` with `NatLessThanWellFounded`), hence so has the set of heights at which a statement
fails.  `TreeInduction` in `UtxoStoreProofs` and in `SyncLoopProofs`, and `LeastOf` in
`BulkSyncProofs`, are this argument.

Three definitions were changed to be reasoned about, without changing behaviours: files of `merge/` are
named by pairs (`AllFile(s)`, `SortedFile(s)`) instead of concatenated strings, the bound on birth
heights left `LedgerAssumption` for the lemma mentioned above, and `Abandoned` of `BlockFetch` picks the
unsettled batches by their positions (`Unsettled`).

### Only model-checked

- Liveness: `Converges`, `FlushCompletes`, `CommitsHappen`, `ReadsHappen`, `WholeParseIsResumed`,
  `PausedResumes`, `SignalEnds`, `CatchesUp`, `SlotsComeBack`.  Fairness and `ENABLED` are outside the
  prover's reach.
- The properties of the violation runs, and the refuted ones listed above, are false.

## Not modelled

The wording and thresholds of the status verdicts, rate limits, parameter parsing and the ceiling on
unpaged reads.  Of the lifecycle: the HTTP server's own close and the settling of
observability at a shutdown; tar, pigz and the signature scheme are what the gates can find.  Of the
bulk sync: the k-way merge inside the external sort, the window records among the derived keys, a
reorganisation below the tip safety, parse workers that go on after a sibling failed, and
`--allow-undo-window`, which switches the check of an explicit end height off.  Input records, the
lookups by script and the prefix search are not in `HistoryIndex`.  Byte codecs, decoding, coin
tables, configuration, logging and metrics carry no state the properties speak of; where they matter
(a block the strip cannot read, failed or rejected calls, `UNDO_BLOCKS`) they enter as nondeterminism
or constants.  In `SyncLoop` the exit after repeated fetch failures and after ten failed rollbacks is
a `Crash`, and a fetch succeeds or fails; `BlockFetch` has what is below it, against a fixed chain that
all endpoints serve alike.

## Plan

Done: all modules above, and the theorems listed under Proofs.  Next, in this order:

1. `SeedDerivation`: the join with duplicate outputs, first-seen heights and the window's records a
   bulk sync derives, against what the tracker would have written block by block; `ExternalSort`:
   runs, heap and k-way merge against a stable sort.
2. Freshness and status verdicts against reference definitions.
3. `BulkSync` without settled blocks: chunks re-checked against a node that reorganises.
4. `BlockFetch` with endpoints that differ in what they serve (one pruned, one with txindex).
