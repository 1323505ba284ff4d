---------------------------- MODULE HistoryIndex ----------------------------
(***************************************************************************)
(* The records of the confirmed store that outlive the undo window: the    *)
(* height a script was first paid at (S) and the block that mined a        *)
(* transaction (T and X, written and deleted together), with the per-block *)
(* records a rollback finds them by (Z and Y), and the undo-window         *)
(* watermark (Q), the deepest undo window the store has held.  They are    *)
(* staged, committed and rolled back in the batches of UtxoStore; what is  *)
(* added to them is the process-wide cache of scripts known to have an S   *)
(* record, and the tracker's two copies of the watermark.                  *)
(***************************************************************************)
EXTENDS UtxoStore

CONSTANTS
    Script,   \* script hashes
    Tx,       \* transaction ids
    PaysTo,   \* the script each outpoint pays to
    TxOf,     \* the transaction each outpoint belongs to
    Seen,     \* Seen[t][s]: height s was first paid at on the branch ending in t
    Mined     \* Mined[t][x]: block of that branch with x, Root for none

Pays(b)  == {PaysTo[o] : o \in Creates[b]}
TxsIn(b) == {TxOf[o] : o \in Creates[b]}

\* The history along a branch; every transaction has an output.
ASSUME HistoryAssumption ==
    /\ PaysTo \in [Out -> Script] /\ TxOf \in [Out -> Tx]
    /\ Seen[Root] = [s \in Script |-> NoRec]
    /\ Mined[Root] = [x \in Tx |-> Root]
    /\ \A b \in Block :
         /\ Seen[b] = [s \in Script |-> IF Seen[Parent[b]][s] = NoRec /\ s \in Pays(b)
                                        THEN Height[b] ELSE Seen[Parent[b]][s]]
         /\ Mined[b] = [x \in Tx |-> IF x \in TxsIn(b) THEN b ELSE Mined[Parent[b]][x]]
         /\ \A x \in TxsIn(b) : Mined[Parent[b]][x] = Root

VARIABLES
    \* On disk
    firstSeen,     \* S: script -> height
    seenIn,        \* Z: block -> scripts whose S record it wrote
    txBlock,       \* T and X: transaction -> block
    txRecovery,    \* Y: block -> its transactions
    mark,          \* Q, 0 for a missing key
    \* The open batch
    stagedSeen,    \* S puts
    stagedSeenIn,  \* Z puts
    stagedTx,      \* T and X puts; the Y puts are the transactions of the batch
    stagedMark,    \* the Q put, NoPut for none
    \* The process
    knownScripts,  \* LevelUpStore.knownScripts
    undoWindowWatermark,
    undoWindowWatermarkPersisted,  \* 0 for null
    \* Proof variable
    deepest        \* length of the deepest window ever committed

history == <<firstSeen, seenIn, txBlock, txRecovery>>
hbatch  == <<stagedSeen, stagedSeenIn, stagedTx>>
marks   == <<mark, stagedMark, undoWindowWatermark, undoWindowWatermarkPersisted, deepest>>
hvars   == <<vars, history, hbatch, knownScripts, marks>>

NoScripts == [s \in Script |-> NoRec]
NoTxs     == [x \in Tx |-> Root]
PerBlock  == [b \in Block |-> {}]

NoPut     == 0

NoHistoryStaged == stagedSeen' = NoScripts /\ stagedSeenIn' = PerBlock /\ stagedTx' = NoTxs

HInit ==
    /\ Init
    /\ firstSeen = NoScripts /\ seenIn = PerBlock /\ txBlock = NoTxs /\ txRecovery = PerBlock
    /\ stagedSeen = NoScripts /\ stagedSeenIn = PerBlock /\ stagedTx = NoTxs
    /\ knownScripts = {}
    /\ mark = 0 /\ stagedMark = NoPut /\ deepest = 0
    /\ undoWindowWatermark = 0 /\ undoWindowWatermarkPersisted = 0

\* loadUndoWindowWatermark: the mark of an earlier, larger setting is clamped.
Clamped(setting) == IF mark < setting THEN mark ELSE setting

\* createDatabase calls resetCaches.
HStart(setting) ==
    /\ Start(setting)
    /\ knownScripts' = {}
    /\ undoWindowWatermarkPersisted' = mark
    /\ undoWindowWatermark' = Clamped(setting)
    /\ UNCHANGED <<history, hbatch, mark, stagedMark, deepest>>

HCrash ==
    /\ Crash
    /\ NoHistoryStaged
    /\ knownScripts' = {}
    /\ stagedMark' = NoPut /\ undoWindowWatermark' = 0 /\ undoWindowWatermarkPersisted' = 0
    /\ UNCHANGED <<history, mark, deepest>>

\* insertOutputScriptBlock: the scripts of b it does not find in the cache (as
\* far as that is `trusted'), in the batch or on disk.
NewScripts(b, trusted) ==
    {s \in Pays(b) \ trusted : stagedSeen[s] = NoRec /\ firstSeen[s] = NoRec}

(***************************************************************************)
(* A cache above its limit is replaced by an empty one: `before' are the   *)
(* scripts of the block looked up before that happens.                     *)
(***************************************************************************)
StageHistory(b, trusted) ==
    LET new == NewScripts(b, trusted)
    IN  /\ stagedSeen' = [s \in Script |-> IF s \in new THEN Height[b] ELSE stagedSeen[s]]
        /\ stagedSeenIn' = [stagedSeenIn EXCEPT ![b] = @ \cup new]
        /\ stagedTx' = [x \in Tx |-> IF x \in TxsIn(b) THEN b ELSE stagedTx[x]]

\* Mutant: the mark is written through instead of staged.
WriteThrough(m) == mark' = m /\ UNCHANGED stagedMark

\* addTransaction("put", Q_UNDO_WATERMARK_KEY, ...).
StageMark(m) == stagedMark' = m /\ UNCHANGED mark

\* recordUndoWindowWatermark, after addToLastBlocks.
RecordUndoWindowWatermark ==
    /\ undoWindowWatermark' = IF Len(lastBlocks') > undoWindowWatermark
                              THEN Len(lastBlocks') ELSE undoWindowWatermark
    /\ undoWindowWatermarkPersisted' = undoWindowWatermark'
    /\ IF undoWindowWatermarkPersisted = undoWindowWatermark'
       THEN UNCHANGED <<mark, stagedMark>> ELSE StageMark(undoWindowWatermark')
    /\ UNCHANGED deepest

HStageBlock(b) ==
    /\ StageBlock(b)
    /\ \/ StageHistory(b, knownScripts) /\ knownScripts' = knownScripts \cup Pays(b)
       \/ \E before \in SUBSET Pays(b) :
            StageHistory(b, knownScripts \cap before) /\ knownScripts' = Pays(b) \ before
    /\ RecordUndoWindowWatermark
    /\ UNCHANGED history

HFlush ==
    /\ Flush
    /\ firstSeen' = [s \in Script |-> IF stagedSeen[s] # NoRec THEN stagedSeen[s] ELSE firstSeen[s]]
    /\ seenIn' = [b \in Block |-> seenIn[b] \cup stagedSeenIn[b]]
    /\ txBlock' = [x \in Tx |-> IF stagedTx[x] # Root THEN stagedTx[x] ELSE txBlock[x]]
    /\ txRecovery' = [b \in Block |-> IF b \in stagedBlocks THEN txRecovery[b] \cup TxsIn(b)
                                                            ELSE txRecovery[b]]
    /\ NoHistoryStaged
    /\ mark' = IF stagedMark = NoPut THEN mark ELSE stagedMark
    /\ stagedMark' = NoPut
    /\ deepest' = IF Len(lastBlocks) > deepest THEN Len(lastBlocks) ELSE deepest
    /\ UNCHANGED <<knownScripts, undoWindowWatermark, undoWindowWatermarkPersisted>>

\* removeOutputScriptsBlockIndexOnly leaves the S records.
FirstSeenKept == firstSeen

\* pruneAgedBlockRecords: Z and Y go, what they index stays.
HCleanup ==
    /\ CleanupAgedBlocks
    /\ seenIn' = [b \in Block |-> IF b \in ToClean THEN {} ELSE seenIn[b]]
    /\ txRecovery' = [b \in Block |-> IF b \in ToClean THEN {} ELSE txRecovery[b]]
    /\ firstSeen' = FirstSeenKept
    /\ UNCHANGED <<txBlock, hbatch, knownScripts, marks>>

\* Mutant: the cache survives the batch it was filled from.
KnownKept == knownScripts

\* endTransaction(false) empties the cache.
KnownAfterDiscard == {}

\* The Q put goes with the batch; the tracker's copies of the mark stay.
MarkDiscarded ==
    /\ stagedMark' = NoPut
    /\ UNCHANGED <<mark, undoWindowWatermark, undoWindowWatermarkPersisted, deepest>>

HReorgDetected ==
    /\ ReorgDetected
    /\ NoHistoryStaged /\ MarkDiscarded
    /\ knownScripts' = KnownAfterDiscard
    /\ UNCHANGED history

\* Without an open batch nothing is discarded.
HTipBelowOurs ==
    /\ TipBelowOurs
    /\ NoHistoryStaged /\ MarkDiscarded
    /\ knownScripts' = IF stagedBlocks # {} THEN KnownAfterDiscard ELSE knownScripts
    /\ UNCHANGED history

\* removeOutputScriptsInBlock empties the cache when it finds a Z record.
HStageRollback ==
    /\ StageRollback
    /\ knownScripts' = IF seenIn[tip] # {} THEN {} ELSE knownScripts
    /\ UNCHANGED <<history, hbatch, marks>>

\* Mutant: only records without a recovery record are deleted.
RolledBackTxsLegacy(b) == {TxOf[o] : o \in created[b]} \ txRecovery[b]

\* deleteTransactionsInBlock: the transactions of the block's W records, unless
\* their record has since been written by another block.
RolledBackTxs(b) ==
    {x \in {TxOf[o] : o \in created[b]} : x \notin txRecovery[b] \/ txBlock[x] = b}

\* Mutant: the Y records of the block are left behind.
RecoveryLeft(b) == txRecovery

RecoveryRemoved(b) == [txRecovery EXCEPT ![b] = @ \ {TxOf[o] : o \in created[b]}]

HCommitRollback ==
    /\ CommitRollback
    /\ firstSeen' = [s \in Script |-> IF s \in seenIn[tip] THEN NoRec ELSE firstSeen[s]]
    /\ seenIn' = [seenIn EXCEPT ![tip] = {}]
    /\ txBlock' = [x \in Tx |-> IF x \in RolledBackTxs(tip) THEN Root ELSE txBlock[x]]
    /\ txRecovery' = RecoveryRemoved(tip)
    /\ UNCHANGED <<hbatch, knownScripts, marks>>

HFailRollback ==
    /\ FailRollback
    /\ knownScripts' = KnownAfterDiscard
    /\ UNCHANGED <<history, hbatch, marks>>

HEndWalk == EndWalk /\ UNCHANGED <<history, hbatch, knownScripts, marks>>

HHalt == HaltForResync /\ UNCHANGED <<history, hbatch, knownScripts, marks>>

HNext ==
    \/ \E setting \in UndoSettings : HStart(setting)
    \/ HCrash
    \/ \E b \in Block : HStageBlock(b)
    \/ HFlush \/ HCleanup \/ HReorgDetected \/ HTipBelowOurs
    \/ HStageRollback \/ HCommitRollback \/ HFailRollback \/ HEndWalk \/ HHalt

HSpec == HInit /\ [][HNext]_hvars

-----------------------------------------------------------------------------
(***************************************************************************)
(* getFirstSeen answers with the height of the first payment on the branch *)
(* of the committed tip, for every script: insertOutputScriptBlock is      *)
(* never kept from writing an S record by a cache entry whose record was   *)
(* discarded or rolled back ("permanently losing that script's first-seen  *)
(* height"), and a rollback never deletes one of an earlier block.         *)
(***************************************************************************)
FirstSeenExact == firstSeen = Seen[tip]

(***************************************************************************)
(* getTxBlock answers with the block of the committed branch that mined    *)
(* the transaction, and with none for a transaction of a block rolled      *)
(* back, also when it is mined again on another branch.                    *)
(***************************************************************************)
TxIndexExact == txBlock = Mined[tip]

(***************************************************************************)
(* Z and Y hold what a rollback of any block of the window has to delete,  *)
(* and nothing of blocks outside it.                                       *)
(***************************************************************************)
ReverseIndexesComplete ==
    \A b \in Block :
        /\ seenIn[b] = IF b \in stored THEN {s \in Pays(b) : Seen[b][s] = Height[b]} ELSE {}
        /\ txRecovery[b] = IF b \in stored THEN TxsIn(b) ELSE {}

(***************************************************************************)
(* The mark names a depth the committed window really reached: "a crash    *)
(* cannot leave a mark deeper than the window on disk", and neither can a  *)
(* batch that is discarded for a reorg after the mark was staged in it.    *)
(***************************************************************************)
MarkWasReached == mark <= deepest

(***************************************************************************)
(* recordUndoWindowWatermark: "Keep the persisted high-water mark of the   *)
(* undo window in step with the window".  With no batch open the mark on   *)
(* disk is at least the window.  TLC refutes it: see the README.           *)
(***************************************************************************)
MarkInStep == pc = "index" /\ stagedBlocks = {} => mark >= Len(lastBlocks)
=============================================================================
