--------------------------- MODULE MempoolRefresh ---------------------------
(***************************************************************************)
(* The mempool mirror and its readiness flag.  A refresh pass runs         *)
(* concurrently with the sync loop: it lists the node's mempool, compares  *)
(* the tips, prunes the store, then fetches what is missing batch by       *)
(* batch, with an await between any two of these.  The loop meanwhile      *)
(* commits blocks (and removes their transactions from the mirror), rolls  *)
(* blocks back, and raises and drops `synced'.                             *)
(*                                                                         *)
(* Only transactions are modelled: a mempool record set (outputs, inputs,  *)
(* transaction) is written and deleted as one per transaction.  Commits    *)
(* are atomic to readers: they run under the store-commit lock.            *)
(***************************************************************************)
EXTENDS Naturals, Sequences, FiniteSets

CONSTANTS
    Tx,               \* transactions
    FetchSize,        \* MEMPOOL_BATCH_SIZE
    SyncedThreshold,  \* SYNCED_THRESHOLD
    MaxIds            \* bound on the blocks the node ever connects

ASSUME MempoolAssumption ==
    /\ IsFiniteSet(Tx)
    /\ FetchSize \in Nat \ {0} /\ SyncedThreshold \in Nat /\ MaxIds \in Nat

VARIABLES
    \* The node
    pool,       \* its mempool
    chain,      \* its blocks above a common base: [id, txs]
    ids,        \* blocks connected so far
    \* The sync loop
    committed,  \* the confirmed store's blocks
    batch,      \* blocks staged for the next commit
    lpc,        \* "run", "wantbusy", "commit" or "walk"
    synced,
    \* The mirror
    mempool,            \* transactions in mempoolDb
    mempoolReconverged,
    mempoolInterval,    \* the timer is set
    mempoolBusy,
    \* The pass in flight
    ppc,        \* "idle", "list", "tips", "prune", "fetch" or "mark"
    rawMempool, \* the listing, after the prune only what is still missing
    mayDelete,
    resyncs,    \* resyncMempoolAfterReorg passes waiting for the busy flag
    \* Proof variables
    listed,     \* the listing of the pass in flight
    left,       \* transactions that left the node's mempool after it
    dropped,    \* transactions the node did not hold at it or after it, and
    unmined,    \* those of the blocks disconnected after it, until the prune
    sinceSync,  \* readiness rests on a pass completed since synced last rose
    listAge,    \* what came after the listing of the pass in flight: nothing
                \* ("fresh"), a block the node disconnected ("reorged"), and
                \* then a rollback of the store ("walked")
    markAge     \* the same for the listing readiness rests on, if it does

node   == <<pool, chain, ids>>
loop   == <<committed, batch, lpc, synced>>
mirror == <<mempool, mempoolReconverged, mempoolInterval, mempoolBusy>>
pass   == <<ppc, rawMempool, mayDelete, resyncs>>
listing == <<listed, left, dropped, unmined, listAge>>
ghosts == <<listing, sinceSync, markAge>>
vars   == <<node, loop, mirror, pass, ghosts>>

TxsOf(c) == UNION {c[i].txs : i \in DOMAIN c}
IsPrefixOf(c, d) == Len(c) <= Len(d) /\ SubSeq(d, 1, Len(c)) = c

\* The two chains have their first i blocks in common.
Shared(c, d, i) == i \in DOMAIN c \cap DOMAIN d /\ \A j \in 1 .. i : c[j] = d[j]
TxsLeftBehind(c, d) == UNION {c[i].txs : i \in {k \in DOMAIN c : ~Shared(c, d, k)}}
NewBlock(n, S) == [id |-> n, txs |-> S]

\* What an address read can find of a transaction.
Visible(t) == t \in mempool \/ t \in TxsOf(committed)

MempoolReady == synced /\ mempoolReconverged

Init ==
    /\ pool = {} /\ chain = <<>> /\ ids = 0
    /\ committed = <<>> /\ batch = <<>> /\ lpc = "run" /\ synced = FALSE
    /\ mempool = {} /\ mempoolReconverged = FALSE /\ mempoolInterval = FALSE
    /\ mempoolBusy = FALSE
    /\ ppc = "idle" /\ rawMempool = {} /\ mayDelete = FALSE /\ resyncs = 0
    /\ listed = {} /\ dropped = {} /\ left = {} /\ unmined = {} /\ sinceSync = FALSE
    /\ listAge = "fresh" /\ markAge = "fresh"

-----------------------------------------------------------------------------
(***************************************************************************)
(* The node: transactions arrive, leave and are mined.  A reorganisation,  *)
(* or invalidateblock, disconnects its tip one block at a time, returning  *)
(* the transactions to its mempool; then other blocks are connected, or    *)
(* the same again.                                                         *)
(***************************************************************************)
Reorged(age) == IF age = "fresh" THEN "reorged" ELSE age
Walked(age)  == IF age = "reorged" THEN "walked" ELSE age

NodeStep(p, c, n) ==
    /\ pool' = p /\ chain' = c /\ ids' = n
    /\ left' = IF ppc \in {"idle", "list"} THEN left ELSE left \cup (pool \ p)
    /\ IF ppc \in {"tips", "prune"}
       THEN /\ dropped' = dropped \cup ((pool \cup TxsOf(chain)) \ (p \cup TxsOf(c)))
            /\ unmined' = unmined \cup TxsLeftBehind(chain, c)
       ELSE UNCHANGED <<dropped, unmined>>
    /\ IF IsPrefixOf(chain, c) THEN UNCHANGED <<listAge, markAge>>
       ELSE /\ listAge' = IF ppc \in {"idle", "list"} THEN listAge ELSE Reorged(listAge)
            /\ markAge' = IF mempoolReconverged THEN Reorged(markAge) ELSE markAge
    /\ UNCHANGED <<loop, mirror, pass, listed, sinceSync>>

NodeAccepts == \E t \in Tx \ (pool \cup TxsOf(chain)) : NodeStep(pool \cup {t}, chain, ids)
NodeEvicts  == \E t \in pool : NodeStep(pool \ {t}, chain, ids)

NodeMines ==
    /\ ids < MaxIds
    /\ \E S \in SUBSET pool :
         NodeStep(pool \ S, Append(chain, NewBlock(ids + 1, S)), ids + 1)

NodeDisconnects ==
    /\ chain # <<>>
    /\ NodeStep(pool \cup chain[Len(chain)].txs, SubSeq(chain, 1, Len(chain) - 1), ids)

\* The disconnected block matters when it is one the store has committed.
NodeReconnects ==
    /\ ids < MaxIds /\ Len(chain) < Len(committed) /\ IsPrefixOf(chain, committed)
    /\ LET b == committed[Len(chain) + 1]
       IN  NodeStep(pool \ b.txs, Append(chain, b), ids + 1)

-----------------------------------------------------------------------------
(***************************************************************************)
(* updateMempool, one action per await.                                    *)
(***************************************************************************)

\* updateMempool is called: it runs unless a pass or a flush holds the flag.
CallUpdateMempool ==
    /\ mempoolBusy' = TRUE
    /\ ppc' = IF mempoolBusy THEN ppc ELSE "list"

TimerTick ==
    /\ mempoolInterval /\ ~mempoolBusy
    /\ CallUpdateMempool
    /\ UNCHANGED <<node, loop, mempool, mempoolReconverged, mempoolInterval, rawMempool,
                   mayDelete, resyncs, ghosts>>

\* Readiness is withdrawn, and with it what the proof variables say of its pass.
Withdraw == mempoolReconverged' = FALSE /\ sinceSync' = FALSE /\ markAge' = "fresh"

\* The pass ends: the busy flag is always released.
EndPass ==
    /\ mempoolBusy' = FALSE /\ ppc' = "idle" /\ rawMempool' = {} /\ mayDelete' = FALSE
    /\ listed' = {} /\ dropped' = {} /\ left' = {} /\ unmined' = {} /\ listAge' = "fresh"

\* getRawMempool fails: readiness is left as it was.
ListFails ==
    /\ ppc = "list"
    /\ EndPass
    /\ UNCHANGED <<node, loop, mempool, mempoolReconverged, mempoolInterval, resyncs,
                   sinceSync, markAge>>

List ==
    /\ ppc = "list"
    /\ rawMempool' = pool /\ ppc' = "tips"
    /\ listed' = pool /\ left' = {} /\ unmined' = {} /\ dropped' = Tx \ (pool \cup TxsOf(chain))
    /\ listAge' = "fresh"
    /\ UNCHANGED <<node, loop, mirror, mayDelete, resyncs, sinceSync, markAge>>

\* Mutant: the prune trusts the listing whatever the tips are.
TipsAgreeAlways == TRUE

\* committedTipIsNodeTip: the same block, so the listing lacks no transaction
\* that sits in a block this tracker has not committed.
TipsAgree == committed = chain

\* A failed read keeps every transaction.
ReadTips ==
    /\ ppc = "tips"
    /\ mayDelete' \in {TipsAgree, FALSE}
    /\ ppc' = "prune"
    /\ UNCHANGED <<node, loop, mirror, rawMempool, resyncs, ghosts>>

\* pruneMempoolStore: delete what the listing lacks, keep in it what is missing.
Prune ==
    /\ ppc = "prune"
    /\ mempool' = IF mayDelete THEN mempool \cap rawMempool ELSE mempool
    /\ rawMempool' = rawMempool \ mempool
    /\ IF rawMempool' = {} THEN UNCHANGED <<mempoolReconverged, sinceSync, markAge>> ELSE Withdraw
    /\ ppc' = IF rawMempool' = {} THEN "mark" ELSE "fetch"
    /\ mayDelete' = FALSE /\ dropped' = {} /\ unmined' = {}
    /\ UNCHANGED <<node, loop, mempoolInterval, mempoolBusy, resyncs,
                   listed, left, listAge>>

\* Mutant: off by one, a last batch of one transaction is skipped.
LastOneSkipped(b) == Cardinality(rawMempool \ b) <= 1

\* Every batch has been committed.
NoneMissing(b) == rawMempool \ b = {}

\* One batch fetched and committed.  The node has no raw transaction for one it
\* has dropped, and for one it has mined only with a transaction index.
FetchBatch ==
    /\ ppc = "fetch"
    /\ \E b \in SUBSET rawMempool :
         /\ Cardinality(b) = FetchSize \/ (b = rawMempool /\ Cardinality(b) < FetchSize)
         /\ \E indexed \in SUBSET (b \cap TxsOf(chain)) :
              mempool' = mempool \cup (b \cap pool) \cup indexed
         /\ rawMempool' = rawMempool \ b
         /\ ppc' = IF NoneMissing(b) THEN "mark" ELSE "fetch"
    /\ UNCHANGED <<node, loop, mempoolReconverged, mempoolInterval, mempoolBusy, mayDelete,
                   resyncs, ghosts>>

MarkMempoolReconverged ==
    /\ ppc = "mark"
    /\ mempoolReconverged' = TRUE
    /\ EndPass
    /\ sinceSync' = TRUE
    /\ markAge' = listAge
    /\ UNCHANGED <<node, loop, mempool, mempoolInterval, resyncs>>

\* A failure after the listing, the fetches' retries exhausted included.
WithdrawMempoolReadiness ==
    /\ ppc \in {"prune", "fetch"}
    /\ Withdraw
    /\ EndPass
    /\ UNCHANGED <<node, loop, mempool, mempoolInterval, resyncs>>

-----------------------------------------------------------------------------
(***************************************************************************)
(* The sync loop, as far as it concerns the mirror.                        *)
(***************************************************************************)

\* pollAtChainTip: raise the flag; the first time, start the poller.  The tips'
\* heights agree; the hashes too, unless the re-check could not ask the node.
AtChainTip ==
    /\ lpc = "run" /\ Len(committed) = Len(chain)
    /\ synced' = TRUE
    /\ sinceSync' = (synced /\ sinceSync)
    /\ IF mempoolInterval THEN UNCHANGED <<mempoolInterval, mempoolBusy, ppc>>
       ELSE mempoolInterval' = TRUE /\ CallUpdateMempool
    /\ UNCHANGED <<node, committed, batch, lpc, mempool, mempoolReconverged, rawMempool,
                   mayDelete, resyncs, listing, markAge>>

\* indexNextBlock too far behind the node: the poller is torn down.
FallBehind ==
    /\ lpc = "run" /\ IsPrefixOf(committed, chain)
    /\ Len(chain) - Len(committed) > SyncedThreshold
    /\ synced' = FALSE /\ Withdraw /\ mempoolInterval' = FALSE
    /\ UNCHANGED <<node, committed, batch, lpc, mempool, mempoolBusy, pass, listing>>

\* refreshNodeTip with an answer that cannot be parsed.
NodeUnparseable ==
    /\ lpc = "run"
    /\ synced' = FALSE /\ Withdraw
    /\ UNCHANGED <<node, committed, batch, lpc, mempool, mempoolInterval, mempoolBusy, pass, listing>>

\* recoverFromTipBelowOurs, waiting for a node that is below the store.
NodeBelow ==
    /\ lpc = "run" /\ Len(chain) < Len(committed)
    /\ synced' = FALSE
    /\ UNCHANGED <<node, committed, batch, lpc, mirror, pass, ghosts>>

\* A batch of blocks is ready to commit.
FlushStarts ==
    /\ lpc = "run" /\ IsPrefixOf(committed, chain) /\ committed # chain
    /\ \E n \in Len(committed) + 1 .. Len(chain) : batch' = SubSeq(chain, Len(committed) + 1, n)
    /\ lpc' = "wantbusy"
    /\ UNCHANGED <<node, committed, synced, mirror, pass, ghosts>>

\* Mutants: the flush does not wait for the pass in flight; it waits for the
\* poller to be torn down as well.
FlushMayTake == TRUE
FlushAwaitsPoller == ~mempoolBusy /\ ~mempoolInterval

\* commitWithMempoolCleanup polls the flag until it is free.
BusyFree == ~mempoolBusy

FlushTakesBusy ==
    /\ lpc = "wantbusy" /\ BusyFree
    /\ mempoolBusy' = TRUE
    /\ lpc' = "commit"
    /\ UNCHANGED <<node, committed, batch, synced, mempool, mempoolReconverged,
                   mempoolInterval, pass, ghosts>>

FlushCommits ==
    /\ lpc = "commit"
    /\ committed' = committed \o batch
    /\ mempool' = mempool \ TxsOf(batch)
    /\ batch' = <<>> /\ mempoolBusy' = FALSE /\ lpc' = "run"
    /\ UNCHANGED <<node, synced, mempoolReconverged, mempoolInterval, pass, ghosts>>

\* The node left the committed branch: the walk rolls back block by block.
WalkStarts ==
    /\ lpc = "run" /\ ~IsPrefixOf(committed, chain)
    /\ synced' = FALSE
    /\ lpc' = "walk"
    /\ UNCHANGED <<node, committed, batch, mirror, pass, ghosts>>

WalkRollsBack ==
    /\ lpc = "walk" /\ ~IsPrefixOf(committed, chain)
    /\ committed' = SubSeq(committed, 1, Len(committed) - 1)
    /\ listAge' = Walked(listAge) /\ markAge' = Walked(markAge)
    /\ UNCHANGED <<node, batch, lpc, synced, mirror, pass, listed, dropped, left, unmined, sinceSync>>

\* resyncMempoolAfterReorg: nothing before the poller has started.
WalkEnds ==
    /\ lpc = "walk" /\ IsPrefixOf(committed, chain)
    /\ lpc' = "run"
    /\ IF mempoolInterval
       THEN Withdraw /\ resyncs' = resyncs + 1
       ELSE UNCHANGED <<mempoolReconverged, sinceSync, markAge, resyncs>>
    /\ UNCHANGED <<node, committed, batch, synced, mempool, mempoolInterval, mempoolBusy, ppc,
                   rawMempool, mayDelete, listing>>

\* Its pass starts when the flag is free, or the 60 seconds of waiting are over.
ResyncRuns ==
    /\ resyncs > 0
    /\ Withdraw
    /\ CallUpdateMempool
    /\ resyncs' = resyncs - 1
    /\ UNCHANGED <<node, loop, mempool, mempoolInterval, rawMempool, mayDelete, listing>>

-----------------------------------------------------------------------------
NodeNext == NodeAccepts \/ NodeEvicts \/ NodeMines \/ NodeDisconnects \/ NodeReconnects
PassNext ==
    \/ List \/ ListFails \/ ReadTips \/ Prune \/ FetchBatch
    \/ MarkMempoolReconverged \/ WithdrawMempoolReadiness
LoopNext ==
    \/ AtChainTip \/ FallBehind \/ NodeUnparseable \/ NodeBelow
    \/ FlushStarts \/ FlushTakesBusy \/ FlushCommits
    \/ WalkStarts \/ WalkRollsBack \/ WalkEnds
Next == NodeNext \/ PassNext \/ LoopNext \/ TimerTick \/ ResyncRuns

(***************************************************************************)
(* A pass always reaches its end (every call to the node answers or times  *)
(* out, retries are counted), a commit completes, and the flush, which     *)
(* polls the flag every 50 ms, gets it although the timer starts passes    *)
(* every 60 s.                                                             *)
(***************************************************************************)
Spec ==
    /\ Init /\ [][Next]_vars
    /\ WF_vars(PassNext) /\ WF_vars(FlushCommits) /\ SF_vars(FlushTakesBusy)

-----------------------------------------------------------------------------
\* Types; a pass leaves nothing of its listing behind.
TypeOK ==
    /\ pool \subseteq Tx /\ chain \in Seq([id : 1 .. MaxIds, txs : SUBSET Tx]) /\ ids \in 0 .. MaxIds
    /\ committed \in Seq([id : 1 .. MaxIds, txs : SUBSET Tx])
    /\ batch \in Seq([id : 1 .. MaxIds, txs : SUBSET Tx])
    /\ lpc \in {"run", "wantbusy", "commit", "walk"} /\ synced \in BOOLEAN
    /\ mempool \subseteq Tx /\ mempoolReconverged \in BOOLEAN
    /\ mempoolInterval \in BOOLEAN /\ mempoolBusy \in BOOLEAN
    /\ ppc \in {"idle", "list", "tips", "prune", "fetch", "mark"}
    /\ rawMempool \subseteq Tx /\ mayDelete \in BOOLEAN /\ resyncs \in Nat
    /\ ppc = "idle" => rawMempool = {} /\ mayDelete = FALSE

(***************************************************************************)
(* The busy flag is a mutex: a pass and a flush never both have a          *)
(* transaction open on mempoolDb, which has a single transaction array.    *)
(***************************************************************************)
OneMempoolWriter ==
    /\ ppc # "idle" => mempoolBusy /\ lpc # "commit"
    /\ mempoolBusy => ppc # "idle" \/ lpc = "commit"

(***************************************************************************)
(* A transaction that reads can see stays visible until the node drops it  *)
(* or its block is rolled back: neither a prune whose listing predates a   *)
(* block, nor the cleanup after a commit, opens a gap in which the output  *)
(* it spent is served as unspent.  The exception is a transaction that was *)
(* in a block when the mempool was listed and is back in the mempool since,*)
(* its block disconnected.                                                 *)
(***************************************************************************)
NoVisibilityGap ==
    [][\A t \in Tx : Visible(t) /\ ~Visible(t)' =>
         t \in dropped \cup unmined \/ Len(committed') < Len(committed)]_vars

(***************************************************************************)
(* committedTipIsNodeTip: "Allow the prune to delete only when the node's  *)
(* tip is the block this tracker committed: a tx missing from the listing  *)
(* may sit in a block not yet committed here, and deleting it early serves *)
(* its spent outpoint as unspent", and updateMempool: "Read the tips after *)
(* the listing, so a block mined since it shows as a mismatch".  TLC       *)
(* refutes it: a block connected at the listing and disconnected before    *)
(* the tips are read shows as an agreement.                                *)
(***************************************************************************)
PruneOnlyDropped ==
    [][\A t \in Tx : Visible(t) /\ ~Visible(t)' =>
         t \in dropped \/ Len(committed') < Len(committed)]_vars

(***************************************************************************)
(* A pass that reports success has mirrored its whole listing, except what *)
(* left the node's mempool meanwhile: retries and batch boundaries lose    *)
(* nothing.                                                                *)
(***************************************************************************)
ReconvergedMirrorsListing == ppc = "mark" => listed \subseteq mempool \cup left

\* A flush is never locked out of the mempool by passes that keep starting.
FlushCompletes == lpc = "wantbusy" ~> lpc = "run"

(***************************************************************************)
(* initSyncState: the flag is "True only after the first successful        *)
(* mempool reconverge following a synced=true transition".  TLC refutes it.*)
(***************************************************************************)
ReadyAfterSyncPass == MempoolReady => sinceSync

(***************************************************************************)
(* resyncMempoolAfterReorg: "a pass already in flight predates the reorg,  *)
(* so wait it out and run a fresh one", or reads are offered "a prevout    *)
(* the node already spends, under mempool_ready true".  So once the store  *)
(* has been rolled back for a reorganisation, readiness rests on a listing *)
(* made after it.                                                          *)
(***************************************************************************)
ReadyAfterReorgPass == MempoolReady => markAge # "walked"
=============================================================================
