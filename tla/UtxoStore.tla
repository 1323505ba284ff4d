------------------------------ MODULE UtxoStore ------------------------------
(***************************************************************************)
(* The confirmed UTXO index and its undo window, at the granularity of     *)
(* LevelDB write batches: what is on disk, what an open batch has staged,  *)
(* what the process caches, and what a crash leaves behind.                *)
(*                                                                         *)
(* An output's O and H records are written, archived (K and M), restored   *)
(* and deleted together, so `outputs' stands for O and H, and `undo' for K *)
(* and M.  An O value is reduced to the creation height it carries, the    *)
(* one field that differs when a reorg mines the same transaction again.   *)
(***************************************************************************)
EXTENDS Ledger, Sequences

CONSTANTS
    UndoSettings,  \* values UNDO_BLOCKS may have at a start of the process
    BatchBlocks    \* DB_TRANSACTION_BLOCKS_QUANTITY

ASSUME WindowAssumption ==
    /\ UndoSettings \subseteq Nat \ {0}
    /\ BatchBlocks \in Nat \ {0}

VARIABLES
    \* On disk
    outputs,       \* O/H: outpoint -> creation height
    undo,          \* K/M: block -> outpoint it spent -> creation height
    created,       \* W: block -> outpoints it created
    stored,        \* N: blocks of the undo window
    blocks,        \* B: block records
    tip,           \* LAST_BLOCK_HASH and LAST_BLOCK_HEIGHT
    pendingKey,    \* P: aged-out blocks awaiting cleanup ({}: no key)
    \* The open batch (db.transactionArray)
    staged,        \* outpoint -> staged O/H write: a height, Del or Keep
    stagedUndo,    \* staged K/M puts
    stagedBlocks,  \* blocks of the batch; their W puts are their creations
    \* The process
    cursor,            \* sync.lastProcessedBlockHash
    lastBlocks,        \* the undo window, oldest first
    pendingKMCleanup,  \* aged-out blocks, as a set: the code removes duplicates
    outputCache,       \* LevelUpStore.outputCache
    undoBlocks,        \* the UNDO_BLOCKS setting of this process
    budget,            \* rollbacks the current walk may make
    blocksDeleted,     \* rollbacks it has made
    afterWalk,         \* where the walk's caller goes when it returns
    pc,
    \* History variables: the code keeps neither
    reload,            \* the walk's last reload of lastBlocks: "ok" or "failed"
    view               \* "torn" once a walk left the window without the tip

disk   == <<outputs, undo, created, stored, blocks, tip, pendingKey>>
batch  == <<staged, stagedUndo, stagedBlocks>>
walk   == <<budget, blocksDeleted, afterWalk, reload, view>>
window == <<lastBlocks, pendingKMCleanup, undoBlocks>>
vars   == <<disk, batch, cursor, window, outputCache, walk, pc>>

\* A staged entry that is not a put: a delete, or nothing staged for the key.
Del  == -2
Keep == -3

NoOutputs  == [o \in Out |-> NoRec]
NothingStaged == [o \in Out |-> Keep]
NoUndo == [b \in Block |-> NoOutputs]

Elements(s)  == {s[i] : i \in DOMAIN s}
NoRepeats(s) == \A i, j \in DOMAIN s : s[i] = s[j] => i = j

\* Mutant: a staged delete is written as a value.
OverlayWritesDeletes(m, s) == [o \in Out |-> IF s[o] = Keep THEN m[o] ELSE s[o]]

\* Keys of the map m overwritten by the puts and deletes staged in s.
Overlay(m, s) ==
    [o \in Out |-> IF s[o] = Keep THEN m[o] ELSE IF s[o] = Del THEN NoRec ELSE s[o]]

\* The records of m kept, those of n added or replaced.
Merge(m, n) == [o \in Out |-> IF n[o] # NoRec THEN n[o] ELSE m[o]]

\* loadLastBlocksSortedByHeight: the N records, in order of height.
SortedByHeight(S) ==
    {s \in [1 .. Cardinality(S) -> S] :
        /\ Elements(s) = S
        /\ NoRepeats(s)
        /\ \A i, j \in DOMAIN s : i < j => Height[s[i]] <= Height[s[j]]}

\* A set of blocks with no gap below t: each is t or has a child in the set.
RunsUpTo(S, t) == \A b \in S : b = t \/ \E c \in S : Parent[c] = b

\* A window read back from disk is whole again unless the disk has a gap.
ReloadedView == IF RunsUpTo(stored, tip) THEN "whole" ELSE view

-----------------------------------------------------------------------------
Init ==
    /\ outputs = NoOutputs /\ undo = NoUndo /\ created = [b \in Block |-> {}]
    /\ stored = {} /\ blocks = {} /\ tip = Root /\ pendingKey = {}
    /\ staged = NothingStaged /\ stagedUndo = NoUndo /\ stagedBlocks = {}
    /\ cursor = Root /\ lastBlocks = <<>> /\ pendingKMCleanup = {}
    /\ outputCache = NoOutputs
    /\ undoBlocks \in UndoSettings
    /\ budget = 0 /\ blocksDeleted = 0 /\ afterWalk = "index"
    /\ reload = "ok" /\ view = "whole"
    /\ pc = "down"

\* start: the caches are empty, the window and the cleanup list come from disk.
Start(setting) ==
    /\ pc = "down"
    /\ undoBlocks' = setting
    /\ lastBlocks' \in SortedByHeight(stored)
    /\ pendingKMCleanup' = pendingKey
    /\ cursor' = tip
    /\ outputCache' = NoOutputs
    /\ view' = ReloadedView
    /\ pc' = "index"
    /\ UNCHANGED <<disk, batch, budget, blocksDeleted, afterWalk, reload>>

(***************************************************************************)
(* The process dies.  Its memory, the open batch included, is gone; what   *)
(* is left of it here is reset so that equal states are equal.             *)
(***************************************************************************)
Crash ==
    /\ pc \notin {"down", "halted"}
    /\ staged' = NothingStaged /\ stagedUndo' = NoUndo /\ stagedBlocks' = {}
    /\ cursor' = tip /\ lastBlocks' = <<>> /\ pendingKMCleanup' = {}
    /\ outputCache' = NoOutputs
    /\ budget' = 0 /\ blocksDeleted' = 0 /\ afterWalk' = "index" /\ reload' = "ok"
    /\ pc' = "down"
    /\ UNCHANGED <<disk, undoBlocks, view>>

-----------------------------------------------------------------------------
(***************************************************************************)
(* Indexing: stage blocks, commit them in one batch, prune aged blocks.    *)
(***************************************************************************)

\* insertOutput and insertOutputHint for every output of the block.
StageCreations(b) ==
    [o \in Out |-> IF o \in Creates[b] THEN Height[b] ELSE staged[o]]

\* The cache after them; `kept' is what survived a cache that reached its limit.
CacheCreations(b, kept) ==
    [o \in Out |-> IF o \notin kept THEN NoRec
                   ELSE IF o \in Creates[b] THEN Height[b] ELSE outputCache[o]]

\* A cache that reaches its limit is replaced by an empty one, which the rest
\* of the block's outputs then fill.
CacheSurvivors(b) == {Out} \cup SUBSET Creates[b]

\* removeOutputsWithInputsBatch, phase 1: where the spent output is found.
SpentInBatch(b, o, puts) == o \in Spends[b] /\ puts[o] \in Nat
SpentOnDisk(b, o, puts)  == o \in Spends[b] /\ puts[o] \notin Nat /\ outputs[o] # NoRec

\* Phase 2: the value archived for an output spent from disk.
SpentValue(o, cache) == IF cache[o] # NoRec THEN cache[o] ELSE outputs[o]

\* Phase 3: a staged put is withdrawn, a record on disk is deleted.
StageSpends(b, puts) ==
    [o \in Out |-> IF SpentInBatch(b, o, puts) THEN Keep
                   ELSE IF SpentOnDisk(b, o, puts) THEN Del ELSE puts[o]]

\* Mutant: an output found in the open batch gets no undo record.
StageUndoDiskOnly(b, puts, cache) ==
    [o \in Out |-> IF SpentOnDisk(b, o, puts) THEN SpentValue(o, cache) ELSE NoRec]

\* The K/M puts: an output spent in the block that created it needs none.
StageUndo(b, puts, cache) ==
    [o \in Out |-> IF SpentInBatch(b, o, puts)
                   THEN IF puts[o] < Height[b] THEN puts[o] ELSE NoRec
                   ELSE IF SpentOnDisk(b, o, puts) THEN SpentValue(o, cache) ELSE NoRec]

\* addToLastBlocks: push the block, shift what exceeds the window.
Excess(s) == IF Len(s) > undoBlocks THEN Len(s) - undoBlocks ELSE 0

\* Mutant: one aged block is queued, however many leave the window.
AddToLastBlocksQueuesOne(b) ==
    LET s == Append(lastBlocks, b)
    IN  /\ lastBlocks' = SubSeq(s, Excess(s) + 1, Len(s))
        /\ pendingKMCleanup' = pendingKMCleanup \cup IF Excess(s) = 0 THEN {} ELSE {s[1]}

AddToLastBlocks(b) ==
    LET s == Append(lastBlocks, b)
    IN  /\ lastBlocks' = SubSeq(s, Excess(s) + 1, Len(s))
        /\ pendingKMCleanup' = pendingKMCleanup \cup {s[i] : i \in 1 .. Excess(s)}

StageBlock(b) ==
    /\ pc = "index"
    /\ Parent[b] = cursor
    /\ Cardinality(stagedBlocks) < BatchBlocks
    /\ \E kept \in CacheSurvivors(b) :
         LET puts  == StageCreations(b)
             cache == CacheCreations(b, kept)
         IN  /\ staged' = StageSpends(b, puts)
             /\ stagedUndo' = [stagedUndo EXCEPT ![b] = StageUndo(b, puts, cache)]
             /\ outputCache' = [o \in Out |-> IF SpentOnDisk(b, o, puts)
                                              THEN NoRec ELSE cache[o]]
    /\ stagedBlocks' = stagedBlocks \cup {b}
    /\ AddToLastBlocks(b)
    /\ cursor' = b
    /\ UNCHANGED <<disk, undoBlocks, walk, pc>>

\* flushBatch up to its commit, one atomic LevelDB batch.
Flush ==
    /\ pc = "index"
    /\ stagedBlocks # {}
    /\ outputs' = Overlay(outputs, staged)
    /\ undo' = [b \in Block |-> Merge(undo[b], stagedUndo[b])]
    /\ created' = [b \in Block |-> IF b \in stagedBlocks THEN created[b] \cup Creates[b]
                                                         ELSE created[b]]
    /\ stored' = stored \cup stagedBlocks
    /\ blocks' = blocks \cup stagedBlocks
    /\ tip' = cursor
    /\ pendingKey' = IF pendingKMCleanup # {} THEN pendingKMCleanup ELSE pendingKey
    /\ staged' = NothingStaged /\ stagedUndo' = NoUndo /\ stagedBlocks' = {}
    /\ pc' = "cleanup"
    /\ UNCHANGED <<cursor, window, outputCache, walk>>

\* Blocks cleanupAgedBlocks prunes: never one that is back in the live window.
ToClean == pendingKMCleanup \ Elements(lastBlocks)

CleanupAgedBlocks ==
    /\ pc = "cleanup"
    /\ undo' = [b \in Block |-> IF b \in ToClean THEN NoOutputs ELSE undo[b]]
    /\ created' = [b \in Block |-> IF b \in ToClean THEN {} ELSE created[b]]
    /\ stored' = stored \ ToClean
    /\ pendingKey' = IF pendingKMCleanup # {} THEN {} ELSE pendingKey
    /\ pendingKMCleanup' = {}
    /\ pc' = "index"
    /\ UNCHANGED <<outputs, blocks, tip, batch, cursor, lastBlocks, undoBlocks, outputCache, walk>>

-----------------------------------------------------------------------------
(***************************************************************************)
(* Reorg: discard the open batch, reload the window from disk, then roll   *)
(* committed blocks back one batch at a time.  Whether the tip block is    *)
(* still on the node's chain is the node's answer, so a walk may end, roll *)
(* one block back or be refused as far as this module is concerned.        *)
(***************************************************************************)

\* Mutant: the last block of the window is not used.
RollbackBudgetOneShort(depth) == IF depth < undoBlocks THEN depth ELSE undoBlocks - 1

\* Rollbacks a walk entered with a window of this depth may make.
RollbackBudget(depth) == IF depth < undoBlocks THEN depth ELSE undoBlocks

\* endTransaction(false), the standalone P put, the window reload and the
\* budget, which the walk fixes at its entry.
DiscardAndWalk(persist, after) ==
    /\ pc = "index"
    /\ staged' = NothingStaged /\ stagedUndo' = NoUndo /\ stagedBlocks' = {}
    /\ pendingKey' = IF persist /\ pendingKMCleanup # {} THEN pendingKMCleanup ELSE pendingKey
    /\ lastBlocks' \in SortedByHeight(stored)
    /\ budget' = RollbackBudget(Len(lastBlocks'))
    /\ blocksDeleted' = 0
    /\ afterWalk' = after
    /\ reload' = "ok" /\ view' = ReloadedView
    /\ pc' = "walk"
    /\ UNCHANGED <<outputs, undo, created, stored, blocks, tip, cursor,
                   pendingKMCleanup, undoBlocks, outputCache>>

\* rollBackOnPrevHashMismatch and rollBackSameHeightTipSwap.
ReorgDetected == DiscardAndWalk(TRUE, "cleanup")

\* recoverFromTipBelowOurs, which leaves the cleanup list to the next flush.
TipBelowOurs == DiscardAndWalk(stagedBlocks # {}, "index")

\* rollBackTipBlock up to its commit: the tip leaves the in-memory window.
\* removeFromLastBlocks reloads a window that lacks the tip.
StageRollback ==
    /\ pc = "walk"
    /\ blocksDeleted < budget
    /\ lastBlocks # <<>>
    /\ \E w \in IF tip \in Elements(lastBlocks) THEN {lastBlocks} ELSE SortedByHeight(stored) :
         /\ w # <<>> /\ w[Len(w)] = tip
         /\ lastBlocks' = SubSeq(w, 1, Len(w) - 1)
    /\ reload' = "ok"
    /\ pc' = "rollback"
    /\ UNCHANGED <<disk, batch, cursor, pendingKMCleanup, undoBlocks, outputCache,
                   budget, blocksDeleted, afterWalk, view>>

\* Mutant: what the block created is restored into, and not deleted.
RestoredOnly(b) == [o \in Out |-> Merge(outputs, undo[b])[o]]

\* The rollback's batch: restore what the block spent, then delete what it
\* created, then its records; the tip pointer moves to the block's parent.
Restored(b) ==
    [o \in Out |-> IF o \in created[b] THEN NoRec ELSE Merge(outputs, undo[b])[o]]

CommitRollback ==
    /\ pc = "rollback"
    /\ outputs' = Restored(tip)
    /\ undo' = [undo EXCEPT ![tip] = NoOutputs]
    /\ created' = [created EXCEPT ![tip] = {}]
    /\ stored' = stored \ {tip}
    /\ blocks' = blocks \ {tip}
    /\ tip' = Parent[tip]
    /\ blocksDeleted' = blocksDeleted + 1
    /\ pc' = "walk"
    /\ UNCHANGED <<pendingKey, batch, cursor, window, outputCache, budget, afterWalk, reload, view>>

\* Mutant: the in-memory window is kept as the failed rollback left it.
FailRollbackKeepsWindow ==
    /\ pc = "rollback"
    /\ pc' = "walk"
    /\ UNCHANGED <<disk, batch, cursor, window, outputCache, walk>>

(***************************************************************************)
(* An attempt fails, before the pop (pc = "walk") or at its commit: the    *)
(* batch is discarded and the window read back from disk.  That reload may *)
(* fail too, and its error is swallowed: the window then stays as it is,   *)
(* after a pop without the tip.                                            *)
(***************************************************************************)
FailRollback ==
    /\ \/ pc = "rollback"
       \/ pc = "walk" /\ tip \in Block /\ blocksDeleted < budget
    /\ \/ lastBlocks' \in SortedByHeight(stored) /\ reload' = "ok"
       \/ lastBlocks' = lastBlocks /\ reload' = IF pc = "rollback" THEN "failed" ELSE reload
    /\ pc' = "walk"
    /\ UNCHANGED <<disk, batch, cursor, pendingKMCleanup, undoBlocks, outputCache,
                   budget, blocksDeleted, afterWalk, view>>

\* refuseRollbackPastWindow and removeFromLastBlocks: the tip has to go, and
\* the walk may not undo it, or finds no window, or no record of the tip in
\* memory or on disk.  The halt is durable.
HaltForResync ==
    /\ pc = "walk"
    /\ tip \in Block
    /\ \/ blocksDeleted >= budget
       \/ lastBlocks = <<>>
       \/ tip \notin Elements(lastBlocks) \cup stored
    /\ pc' = "halted"
    /\ UNCHANGED <<disk, batch, cursor, window, outputCache, walk>>

\* The tip is the node's block, or the node's tip is too far below to walk to.
\* Without a committed tip the walk throws instead, which is a Crash.
EndWalk ==
    /\ pc = "walk"
    /\ tip \in Block
    /\ cursor' = tip
    /\ pc' = afterWalk
    /\ view' = IF reload = "failed" THEN "torn" ELSE view
    /\ reload' = "ok"
    /\ UNCHANGED <<disk, batch, window, outputCache, budget, blocksDeleted, afterWalk>>

-----------------------------------------------------------------------------
Next ==
    \/ \E setting \in UndoSettings : Start(setting)
    \/ Crash
    \/ \E b \in Block : StageBlock(b)
    \/ Flush
    \/ CleanupAgedBlocks
    \/ ReorgDetected
    \/ TipBelowOurs
    \/ StageRollback
    \/ CommitRollback
    \/ FailRollback
    \/ HaltForResync
    \/ EndWalk

Spec == Init /\ [][Next]_vars

-----------------------------------------------------------------------------
\* Types of the records, the batch, the window and the walk.
TypeOK ==
    /\ outputs \in [Out -> Stored]
    /\ undo \in [Block -> [Out -> Stored]]
    /\ created \in [Block -> SUBSET Out]
    /\ stored \subseteq Block /\ blocks \subseteq Block /\ tip \in Tip
    /\ pendingKey \subseteq Block
    /\ staged \in [Out -> Nat \cup {Del, Keep}]
    /\ stagedUndo \in [Block -> [Out -> Stored]]
    /\ stagedBlocks \subseteq Block
    /\ cursor \in Tip
    /\ lastBlocks \in Seq(Block)
    /\ pendingKMCleanup \subseteq Block
    /\ outputCache \in [Out -> Stored]
    /\ undoBlocks \in UndoSettings
    /\ budget \in Nat /\ blocksDeleted \in Nat
    /\ afterWalk \in {"index", "cleanup"}
    /\ reload \in {"ok", "failed"} /\ view \in {"whole", "torn"}
    /\ pc \in {"down", "index", "cleanup", "walk", "rollback", "halted"}

(***************************************************************************)
(* What a query reads is exactly the ledger of the committed tip: no       *)
(* phantom, no lost output, no output with another branch's height.        *)
(* setLastBlockHeight calls this the guarantee get_sync_status and         *)
(* is_quiescent rely on.                                                   *)
(***************************************************************************)
UtxoSetIsLedgerOfTip == outputs = UtxoAfter(tip)

(***************************************************************************)
(* Every block of the persisted undo window can be rolled back: its K/M    *)
(* records are what it took from its parent's ledger (with the values the  *)
(* parent had, whichever of the batch, the cache or the disk they were     *)
(* read from) and its W records are what it created.                       *)
(***************************************************************************)
UndoRecordsComplete ==
    \A b \in stored : undo[b] = SpentFromParent(b) /\ created[b] = Creates[b]

(***************************************************************************)
(* No undo record outlives its N record, and no N record is forgotten: it  *)
(* belongs to the live window or is queued for cleanupAgedBlocks.  The     *)
(* comments call the opposite "stranding those blocks' undo records".  A   *)
(* torn window has forgotten one: see WindowFollowsBranch.                 *)
(***************************************************************************)
NoStrandedUndoRecords ==
    /\ \A b \in Block \ stored : undo[b] = NoOutputs /\ created[b] = {}
    /\ pc \in {"index", "cleanup"} /\ view = "whole" =>
          stored \subseteq Elements(lastBlocks) \cup pendingKMCleanup

(***************************************************************************)
(* The in-memory window is an unbroken run of the branch ending in the     *)
(* block the next step works on: the cursor while indexing, the committed  *)
(* tip during a walk, the tip's parent while the tip is being rolled back  *)
(* and after an attempt whose commit and reload both failed, where the     *)
(* next attempt reads the tip back.  removeFromLastBlocks throws on        *)
(* anything else.  Not claimed of a torn window: one a walk left without   *)
(* the tip because the node took the tip back before the next attempt, or  *)
(* a later one read from a disk on which that left a gap.                  *)
(***************************************************************************)
WindowFollowsBranch ==
    LET n == Len(lastBlocks)
        last == CASE pc = "walk" /\ reload = "ok" -> tip
                  [] pc = "walk" /\ reload = "failed" -> Parent[tip]
                  [] pc = "rollback" -> Parent[tip]
                  [] OTHER -> cursor
    IN  pc \in {"index", "cleanup", "walk", "rollback"} /\ view = "whole" /\ n > 0 =>
          /\ lastBlocks[n] = last
          /\ \A i \in 1 .. n - 1 : Parent[lastBlocks[i + 1]] = lastBlocks[i]

(***************************************************************************)
(* The tracker declares the store unrecoverable only when the tip's undo   *)
(* records are gone or the walk already rolled back as many blocks as the  *)
(* UNDO_BLOCKS setting allows, with one exception: on the last block of    *)
(* the window, after an attempt whose commit and reload both failed.       *)
(***************************************************************************)
HaltIsJustified ==
    pc = "halted" =>
        \/ tip \notin stored
        \/ blocksDeleted = undoBlocks
        \/ reload = "failed" /\ lastBlocks = <<>> /\ stored = {tip}

(***************************************************************************)
(* rollBackTipBlock's comments have it without the exception: the window   *)
(* is reloaded "so the retry budget actually retries", and what halts      *)
(* "re-throws identically on every retry (the reloaded window is still     *)
(* empty)".  TLC refutes it: see the README.                               *)
(***************************************************************************)
HaltOnlyWhenSpent ==
    pc = "halted" => tip \notin stored \/ blocksDeleted = undoBlocks

-----------------------------------------------------------------------------
(***************************************************************************)
(* The store implements UtxoIndex: readers see whole ledgers only, and a   *)
(* commit moves them forward along the branch or back to the parent.       *)
(***************************************************************************)
Index == INSTANCE UtxoIndex WITH indexedTip <- tip, utxos <- outputs

ImplementsUtxoIndex == Index!IndexSpec
=============================================================================
