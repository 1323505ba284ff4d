------------------------------ MODULE SyncLoop ------------------------------
(***************************************************************************)
(* The sync loop against a coin node whose chain moves at any moment: the  *)
(* node connects and disconnects blocks, restarts into initial block       *)
(* download, fails calls; the process crashes and restarts.  Every call to *)
(* the node is one step, so the node may have moved between any two.       *)
(*                                                                         *)
(* The store is reduced to its committed tip and the depth of its undo     *)
(* window: UtxoStore shows that each commit and each rollback moves the    *)
(* whole store from one block's ledger to another's.  A batch is open      *)
(* exactly when the cursor is above the committed tip.                     *)
(***************************************************************************)
EXTENDS BlockTree, Sequences

CONSTANTS
    UndoBlocks,       \* undoBlocks: the nominal reorg window
    BatchBlocks,      \* DB_TRANSACTION_BLOCKS_QUANTITY
    PrefetchSize,     \* PREFETCH_SIZE
    SyncedThreshold,  \* SYNCED_THRESHOLD
    StableReads,      \* TIP_SETTLE_STABLE_READS
    MaxReads,         \* TIP_SETTLE_MAX_READS
    MaxMoves,         \* bound on the changes of the node
    MaxFaults         \* bound on failed calls and crashes

ASSUME SyncAssumption ==
    /\ UndoBlocks \in Nat \ {0} /\ BatchBlocks \in Nat \ {0} /\ PrefetchSize \in Nat \ {0}
    /\ SyncedThreshold \in Nat
    /\ StableReads \in Nat \ {0} /\ MaxReads \in Nat /\ StableReads <= MaxReads
    /\ MaxMoves \in Nat /\ MaxFaults \in Nat

VARIABLES
    \* The node
    nodeTip,   \* the last block of its active chain
    status,    \* "ok", "ibd" (initialblockdownload) or "behind" (not parseable)
    moves, faults,
    \* On disk
    tip,       \* committed tip
    depth,     \* blocks in the persisted undo window
    \* The process
    cursor,    \* sync.lastProcessedBlock...: the last staged block
    info,      \* sync.lastBlockchainInfo is not null
    infoTip,   \* blockchainInfoLastBlock
    prefetch,  \* sync.prefetchQueue, each promise with what it resolves to
    refused,   \* sync.tipBelowCommittedTipRefused
    synced,
    walkTip,   \* walk.tip, NoTip for null
    budget, blocksDeleted,
    caller,    \* who runs the walk: "below" or "reorg"
    settle,    \* the readings of a tip being settled
    pc,
    \* History variables
    entry,     \* the committed tip when the walk began, Root outside a walk
    lacked     \* blocks the node is known to have lacked during this pass

node    == <<nodeTip, status, moves, faults>>
store   == <<tip, depth>>
loop    == <<cursor, info, infoTip, prefetch, refused, synced>>
walking == <<walkTip, budget, blocksDeleted, caller, entry, settle>>
vars    == <<node, store, loop, walking, pc, lacked>>

NoTip    == -1
Rejected == Root    \* what a block of a failed batch request resolves to

Least(m, n) == IF m < n THEN m ELSE n

Branch[t \in Tip] == IF t = Root THEN {} ELSE {t} \cup Branch[Parent[t]]

\* getBlockHash(h): an error when the node's chain has no such height.
NodeHas(h)  == h <= Height[nodeTip]
NodeHash(h) == CHOOSE b \in Branch[nodeTip] : Height[b] = h

InPass == pc \notin {"poll", "down", "halted"}

\* Mutant: a node in initial block download is believed.
UsableInIbd == status # "behind"

\* nodeTipIsParseable and not nodeStillCatchingUp: a tip that may be acted on.
Usable == status = "ok"

NoSettle == [previous |-> NoTip, stable |-> 0, reads |-> 0]

(***************************************************************************)
(* Blocks whose absence from the node's chain means something: another     *)
(* block is at their height, or the node ends below them and is not merely *)
(* catching up.                                                            *)
(***************************************************************************)
Lacks(t, s) ==
    {b \in Block : b \notin Branch[t] /\ (Height[b] <= Height[t] \/ s = "ok")}

-----------------------------------------------------------------------------
Init ==
    /\ nodeTip \in Block /\ status = "ok" /\ moves = 0 /\ faults = 0
    /\ tip = Root /\ depth = 0
    /\ cursor = Root /\ info = FALSE /\ infoTip = NoTip /\ prefetch = <<>>
    /\ refused = FALSE /\ synced = FALSE
    /\ walkTip = NoTip /\ budget = 0 /\ blocksDeleted = 0 /\ caller = "reorg" /\ entry = Root
    /\ settle = NoSettle
    /\ pc = "poll"
    /\ lacked = {}

-----------------------------------------------------------------------------
(***************************************************************************)
(* The node.  A reorganisation disconnects and connects one block at a     *)
(* time, and a call may be answered in between.                            *)
(***************************************************************************)
NodeMoves(t, s) ==
    /\ moves < MaxMoves
    /\ nodeTip' = t /\ status' = s /\ moves' = moves + 1
    /\ lacked' = IF InPass THEN lacked \cup Lacks(t, s) ELSE lacked
    /\ UNCHANGED <<faults, store, loop, walking, pc>>

NodeConnects    == \E b \in Block : Parent[b] = nodeTip /\ NodeMoves(b, status)
NodeDisconnects == nodeTip \in Block /\ Parent[nodeTip] \in Block /\ NodeMoves(Parent[nodeTip], status)
NodeRestarts    == \E t \in Branch[nodeTip] : NodeMoves(t, "ibd")
NodeStatus      == \E s \in {"ok", "behind"} : s # status /\ NodeMoves(nodeTip, s)

\* A call that the node does not answer.
Fault == faults < MaxFaults /\ faults' = faults + 1 /\ UNCHANGED <<nodeTip, status, moves>>

\* What the node lacks counts against a block from the pass's first reading on.
PassBegins == lacked' = Lacks(nodeTip, status)
SamePass   == UNCHANGED lacked
PassEnds   == lacked' = {}

-----------------------------------------------------------------------------
(***************************************************************************)
(* start and the end of the process.                                       *)
(***************************************************************************)
Exit ==
    /\ cursor' = tip /\ info' = FALSE /\ infoTip' = NoTip /\ prefetch' = <<>>
    /\ refused' = FALSE /\ synced' = FALSE
    /\ walkTip' = NoTip /\ budget' = 0 /\ blocksDeleted' = 0 /\ caller' = "reorg" /\ entry' = Root
    /\ settle' = NoSettle
    /\ pc' = "down"

Crash ==
    /\ pc \notin {"down", "halted"}
    /\ Fault
    /\ Exit
    /\ PassEnds
    /\ UNCHANGED store

Start ==
    /\ pc = "down"
    /\ pc' = "poll"
    /\ UNCHANGED <<node, store, loop, walking, lacked>>

-----------------------------------------------------------------------------
(***************************************************************************)
(* pollSyncLoop: refresh the node's tip when there is none, when the       *)
(* cursor has reached it, or when the refresh interval has passed.         *)
(***************************************************************************)
MustRefresh == ~info \/ Height[cursor] >= infoTip

\* A failed getBlockchainInfo leaves the last answer in place.
RefreshFails ==
    /\ pc = "poll"
    /\ Fault
    /\ UNCHANGED <<store, loop, walking, pc, lacked>>

RefreshUnparseable ==
    /\ pc = "poll"
    /\ status = "behind"
    /\ info' = FALSE /\ synced' = FALSE
    /\ UNCHANGED <<node, store, cursor, infoTip, prefetch, refused, walking, pc, lacked>>

\* reconcileRefreshedTip with the node at or above the cursor.
RefreshReached ==
    /\ pc = "poll"
    /\ status # "behind"
    /\ Height[cursor] <= Height[nodeTip]
    /\ info' = TRUE /\ infoTip' = Height[nodeTip]
    /\ refused' = FALSE
    /\ pc' = IF Height[cursor] = Height[nodeTip] THEN "attip" ELSE "index"
    /\ PassBegins
    /\ UNCHANGED <<node, store, cursor, prefetch, synced, walking>>

\* Mutant: a refused walk is tried again at every poll.
WaitsOnIbd == status = "ibd"

\* With the node below the cursor: waitOnCatchingUpNode, waitAfterRefusedTipBelow.
WaitsOnNode == status = "ibd" \/ refused

RefreshBelowWaits ==
    /\ pc = "poll"
    /\ status # "behind"
    /\ Height[cursor] > Height[nodeTip]
    /\ WaitsOnNode
    /\ info' = TRUE /\ infoTip' = Height[nodeTip]
    /\ synced' = FALSE
    /\ UNCHANGED <<node, store, cursor, prefetch, refused, walking, pc, lacked>>

\* Otherwise read the tip again until it is stable.
RefreshBelow ==
    /\ pc = "poll"
    /\ status # "behind"
    /\ Height[cursor] > Height[nodeTip]
    /\ ~WaitsOnNode
    /\ info' = TRUE /\ infoTip' = Height[nodeTip]
    /\ synced' = FALSE
    /\ settle' = [NoSettle EXCEPT !.previous = Height[nodeTip]]
    /\ pc' = "settle"
    /\ PassBegins
    /\ UNCHANGED <<node, store, cursor, prefetch, refused, walkTip, budget, blocksDeleted, caller, entry>>

\* pollAtTipOrIndex without a refresh.
NoRefresh ==
    /\ pc = "poll"
    /\ ~MustRefresh
    /\ pc' = "index"
    /\ PassBegins
    /\ UNCHANGED <<node, store, loop, walking>>

-----------------------------------------------------------------------------
\* Mutant: the last block of a full window is not used.
WalkBudgetOneShort == Least(depth, UndoBlocks - 1)

\* The rollbacks a walk may make: what the persisted window and the setting allow.
WalkBudget == Least(depth, UndoBlocks)

(***************************************************************************)
(* verifyReorg's entry: the open batch is gone, the window is the          *)
(* persisted one, and the number of rollbacks is fixed.                    *)
(***************************************************************************)
Walk(from, by) ==
    /\ walkTip' = from /\ caller' = by /\ entry' = tip
    /\ budget' = WalkBudget /\ blocksDeleted' = 0
    /\ settle' = NoSettle
    /\ pc' = "walk"

\* A fork is seen: readers are told, and the prefetched blocks are dropped.
LeaveBranch == prefetch' = <<>> /\ synced' = FALSE

\* settleNodeTipBelow and settleWalkTip: one more reading of the tip.
Reread ==
    LET same == Height[nodeTip] = settle.previous
    IN  [previous |-> Height[nodeTip],
         stable   |-> IF same THEN settle.stable + 1 ELSE 0,
         reads    |-> settle.reads + 1]

Settled(s)   == s.stable = StableReads
Unsettled(s) == s.stable < StableReads /\ s.reads = MaxReads

SettleReads ==
    /\ pc \in {"settle", "walksettle"}
    /\ Usable
    /\ ~Settled(Reread) /\ ~Unsettled(Reread)
    /\ settle' = Reread
    /\ SamePass
    /\ UNCHANGED <<node, store, loop, walkTip, budget, blocksDeleted, caller, entry, pc>>

\* The reading is abandoned: no answer, a node that is catching up, a tip that
\* keeps moving.
SettleGivesUp ==
    /\ pc = "settle"
    /\ Fault \/ ((~Usable \/ Unsettled(Reread)) /\ UNCHANGED node)
    /\ settle' = NoSettle
    /\ pc' = "poll"
    /\ PassEnds
    /\ UNCHANGED <<store, loop, walkTip, budget, blocksDeleted, caller, entry>>

\* The settled tip is taken, and is no longer below the cursor.
SettleFindsTipBack ==
    /\ pc = "settle"
    /\ Usable /\ Settled(Reread)
    /\ infoTip' = Height[nodeTip]
    /\ Height[nodeTip] >= Height[cursor]
    /\ settle' = NoSettle
    /\ pc' = "poll"
    /\ PassEnds
    /\ UNCHANGED <<node, store, cursor, info, prefetch, refused, synced, walkTip, budget,
                   blocksDeleted, caller, entry>>

\* recoverFromTipBelowOurs once settled: the open batch is discarded, and the
\* committed tip is below the node's tip too, or rolled back to it.
SettleBelow ==
    /\ pc = "settle"
    /\ Usable /\ Settled(Reread)
    /\ Height[nodeTip] < Height[cursor]
    /\ tip \in Block
    /\ infoTip' = Height[nodeTip]
    /\ IF Height[tip] > Height[nodeTip]
       THEN /\ Walk(Height[nodeTip], "below")
            /\ SamePass
            /\ UNCHANGED cursor
       ELSE /\ cursor' = tip
            /\ settle' = NoSettle
            /\ pc' = "poll"
            /\ PassEnds
            /\ UNCHANGED <<walkTip, budget, blocksDeleted, caller, entry>>
    /\ UNCHANGED <<node, store, info, prefetch, refused, synced>>

\* With nothing committed getLastBlock finds no block and the loop throws.
SettleBelowEmpty ==
    /\ pc = "settle"
    /\ Usable /\ Settled(Reread)
    /\ Height[nodeTip] < Height[cursor]
    /\ tip = Root
    /\ Exit
    /\ PassEnds
    /\ UNCHANGED <<node, store>>

-----------------------------------------------------------------------------
(***************************************************************************)
(* pollAtChainTip: the cursor's height is the node's.  The hash is checked *)
(* first; a hash that cannot be read is no reason to roll back.            *)
(***************************************************************************)
Commit(b) ==
    /\ tip' = b
    /\ depth' = Least(depth + Height[b] - Height[tip], UndoBlocks)

\* Mutant: reaching the node's height is taken for being on its chain.
NeverSwapped == FALSE

Swapped == Height[cursor] > 0 /\ NodeHas(Height[cursor]) /\ NodeHash(Height[cursor]) # cursor

AtTipFlush ==
    /\ pc = "attip"
    /\ cursor # tip
    /\ (~Swapped /\ UNCHANGED node) \/ Fault
    /\ Commit(cursor)
    /\ pc' = "poll"
    /\ PassEnds
    /\ UNCHANGED <<loop, walking>>

AtTipSynced ==
    /\ pc = "attip"
    /\ cursor = tip
    /\ (~Swapped /\ UNCHANGED node) \/ Fault
    /\ synced' = TRUE
    /\ pc' = "poll"
    /\ PassEnds
    /\ UNCHANGED <<store, cursor, info, infoTip, prefetch, refused, walking>>

\* rollBackSameHeightTipSwap up to verifyReorg.
AtTipSwapped ==
    /\ pc = "attip"
    /\ Swapped
    /\ LeaveBranch
    /\ Walk(NoTip, "reorg")
    /\ SamePass
    /\ UNCHANGED <<node, store, cursor, info, infoTip, refused>>

-----------------------------------------------------------------------------
(***************************************************************************)
(* indexNextBlock.  fillPrefetchQueue asks for the heights after the       *)
(* queue's last in one batch, which is rejected when the node has no block *)
(* at one of them; the queue is kept across passes, so what it holds may   *)
(* be older than the node's chain.                                         *)
(***************************************************************************)
NextHeight == Height[cursor] + 1

PrefetchRoom == PrefetchSize - Len(prefetch)

Filled(answered) ==
    LET last == IF prefetch = <<>> THEN Height[cursor] ELSE prefetch[Len(prefetch)].height
        more == Least(PrefetchRoom, infoTip - last)
    IN  IF more <= 0 THEN prefetch
        ELSE prefetch \o [i \in 1 .. more |->
                [height |-> last + i,
                 block  |-> IF answered /\ NodeHas(last + more) THEN NodeHash(last + i)
                                                                ELSE Rejected]]

\* fetchNextBlock: the head of the queue, or a direct request when the queue is
\* of other heights, which empties it.
FromQueue(q) == q # <<>> /\ q[1].height = NextHeight

Fetched(q, answered) ==
    IF FromQueue(q) THEN q[1].block
    ELSE IF answered /\ NodeHas(NextHeight) THEN NodeHash(NextHeight) ELSE Rejected

\* Mutant: the prev-hash check is skipped.
ConnectsAlways(b) == TRUE

\* The fetched block's prevHash is the block staged last.
Connects(b) == NextHeight = 0 \/ Parent[b] = cursor

StillSynced == synced /\ infoTip - Height[cursor] <= SyncedThreshold

Fetch(answered) ==
    /\ pc = "index"
    /\ IF answered THEN UNCHANGED node ELSE Fault

FetchFails(answered) ==
    /\ Fetch(answered)
    /\ Fetched(Filled(answered), answered) = Rejected
    /\ synced' = StillSynced
    /\ prefetch' = <<>>
    /\ pc' = "poll"
    /\ PassEnds
    /\ UNCHANGED <<store, cursor, info, infoTip, refused, walking>>

\* rollBackOnPrevHashMismatch up to verifyReorg.
FetchMismatched(answered) ==
    LET b == Fetched(Filled(answered), answered)
    IN  /\ Fetch(answered)
        /\ b # Rejected
        /\ ~Connects(b)
        /\ LeaveBranch
        /\ Walk(NoTip, "reorg")
        /\ SamePass
        /\ UNCHANGED <<store, cursor, info, infoTip, refused>>

\* flushTrigger: at the tip, a full batch, or (at any time) heap pressure.
MustFlush(b) == Height[b] = infoTip \/ Height[b] - Height[tip] = BatchBlocks

FetchStaged(answered) ==
    LET q == Filled(answered)
        b == Fetched(q, answered)
    IN  /\ Fetch(answered)
        /\ b # Rejected
        /\ Connects(b)
        /\ synced' = StillSynced
        /\ prefetch' = IF FromQueue(q) THEN Tail(q) ELSE <<>>
        /\ cursor' = b
        /\ Commit(b) \/ (~MustFlush(b) /\ UNCHANGED store)
        /\ pc' = "poll"
        /\ PassEnds
        /\ UNCHANGED <<info, infoTip, refused, walking>>

-----------------------------------------------------------------------------
(***************************************************************************)
(* verifyReorg: one committed block at a time.                             *)
(***************************************************************************)
AboveNodeTip == walkTip # NoTip /\ Height[tip] > walkTip

\* With nothing committed getBlock throws.
WalkEmpty ==
    /\ pc = "walk"
    /\ tip = Root
    /\ Exit
    /\ PassEnds
    /\ UNCHANGED <<node, store>>

\* Both callers resume at the committed tip and read the node's tip again.
EndWalk ==
    /\ cursor' = tip /\ info' = FALSE
    /\ walkTip' = NoTip /\ budget' = 0 /\ blocksDeleted' = 0 /\ caller' = "reorg" /\ entry' = Root
    /\ settle' = NoSettle
    /\ pc' = "poll"
    /\ PassEnds

\* refuseAboveTipWalkPastBudget: nothing is rolled back that could not be
\* rolled back entirely.
PastBudget == blocksDeleted + (Height[tip] - walkTip) > budget

WalkRefuses ==
    /\ pc = "walk"
    /\ AboveNodeTip /\ PastBudget
    /\ refused' = (refused \/ caller = "below")
    /\ EndWalk
    /\ UNCHANGED <<node, store, infoTip, prefetch, synced>>

RollBackTipBlock ==
    /\ tip' = Parent[tip] /\ depth' = depth - 1
    /\ blocksDeleted' = blocksDeleted + 1
    /\ SamePass
    /\ UNCHANGED <<node, loop, walkTip, budget, caller, entry, settle, pc>>

WalkAboveTip ==
    /\ pc = "walk" /\ tip \in Block
    /\ AboveNodeTip /\ ~PastBudget
    /\ RollBackTipBlock

\* The node's hash at the committed height is another block's.
Diverged == NodeHas(Height[tip]) /\ NodeHash(Height[tip]) # tip

WalkDiverged ==
    /\ pc = "walk" /\ tip \in Block
    /\ ~AboveNodeTip /\ Diverged
    /\ blocksDeleted < budget
    /\ RollBackTipBlock

\* refuseRollbackPastWindow.
UnrecoverableReorg == ~AboveNodeTip /\ Diverged /\ blocksDeleted >= budget

\* The durable halt.
WalkHalts ==
    /\ pc = "walk" /\ tip \in Block
    /\ UnrecoverableReorg
    /\ pc' = "halted"
    /\ synced' = FALSE
    /\ PassEnds
    /\ UNCHANGED <<node, store, cursor, info, infoTip, prefetch, refused, walking>>

WalkAgrees ==
    /\ pc = "walk" /\ tip \in Block
    /\ ~AboveNodeTip /\ NodeHas(Height[tip]) /\ ~Diverged
    /\ refused' = (refused /\ caller = "reorg")
    /\ EndWalk
    /\ UNCHANGED <<node, store, infoTip, prefetch, synced>>

\* nodeBlockHashOrRetry: no hash, so the tip the walk goes by is read again.
WalkHashMissing ==
    /\ pc = "walk" /\ tip \in Block
    /\ ~AboveNodeTip
    /\ (~NodeHas(Height[tip]) /\ UNCHANGED node) \/ Fault
    /\ pc' = "walkread"
    /\ SamePass
    /\ UNCHANGED <<store, loop, walking>>

\* refreshWalkTip: an answer that cannot be used leaves the tip as it was, a
\* higher one is taken, a lower or first one has to settle.
WalkReadUnusable ==
    /\ pc = "walkread"
    /\ Fault \/ (~Usable /\ UNCHANGED node)
    /\ pc' = "walk"
    /\ SamePass
    /\ UNCHANGED <<store, loop, walking>>

WalkReadTip ==
    /\ pc = "walkread"
    /\ Usable
    /\ IF walkTip = NoTip \/ Height[nodeTip] < walkTip
       THEN /\ settle' = [NoSettle EXCEPT !.previous = Height[nodeTip]]
            /\ pc' = "walksettle"
            /\ UNCHANGED walkTip
       ELSE /\ walkTip' = Height[nodeTip]
            /\ pc' = "walk"
            /\ UNCHANGED settle
    /\ SamePass
    /\ UNCHANGED <<node, store, loop, budget, blocksDeleted, caller, entry>>

WalkSettleGivesUp ==
    /\ pc = "walksettle"
    /\ Fault \/ ((~Usable \/ Unsettled(Reread)) /\ UNCHANGED node)
    /\ settle' = NoSettle
    /\ pc' = "walk"
    /\ SamePass
    /\ UNCHANGED <<store, loop, walkTip, budget, blocksDeleted, caller, entry>>

WalkSettles ==
    /\ pc = "walksettle"
    /\ Usable /\ Settled(Reread)
    /\ walkTip' = Height[nodeTip]
    /\ settle' = NoSettle
    /\ pc' = "walk"
    /\ SamePass
    /\ UNCHANGED <<node, store, loop, budget, blocksDeleted, caller, entry>>

-----------------------------------------------------------------------------
NodeNext == NodeConnects \/ NodeDisconnects \/ NodeRestarts \/ NodeStatus

Refresh == RefreshUnparseable \/ RefreshReached \/ RefreshBelowWaits \/ RefreshBelow

WalkNext ==
    \/ WalkEmpty \/ WalkRefuses \/ WalkAboveTip \/ WalkDiverged \/ WalkHalts \/ WalkAgrees
    \/ WalkHashMissing \/ WalkReadUnusable \/ WalkReadTip \/ WalkSettleGivesUp \/ WalkSettles

LoopNext ==
    \/ Start \/ Refresh \/ NoRefresh
    \/ SettleReads \/ SettleGivesUp \/ SettleFindsTipBack \/ SettleBelow \/ SettleBelowEmpty
    \/ AtTipFlush \/ AtTipSynced \/ AtTipSwapped
    \/ \E answered \in BOOLEAN :
          FetchFails(answered) \/ FetchMismatched(answered) \/ FetchStaged(answered)
    \/ WalkNext

Next == NodeNext \/ Crash \/ RefreshFails \/ LoopNext

(***************************************************************************)
(* The loop runs for ever and its supervisor restarts it, so one of its    *)
(* steps is taken whenever one can be; the refresh interval passes, so the *)
(* node's tip is read again and again even while blocks are being fetched. *)
(* Nothing is assumed of the node or of failures except that they are      *)
(* bounded: what is checked is where the loop ends up once they stop.      *)
(***************************************************************************)
Spec == Init /\ [][Next]_vars /\ WF_vars(LoopNext) /\ SF_vars(Refresh)

-----------------------------------------------------------------------------
\* Types; the prefetch queue stays shorter than its limit once its head is taken,
\* and a walk never exceeds its budget.
TypeOK ==
    /\ nodeTip \in Block /\ status \in {"ok", "ibd", "behind"}
    /\ moves \in 0 .. MaxMoves /\ faults \in 0 .. MaxFaults
    /\ tip \in Tip /\ depth \in 0 .. UndoBlocks
    /\ cursor \in Tip /\ info \in BOOLEAN /\ infoTip \in {NoTip} \cup Nat
    /\ prefetch \in Seq([height : Nat, block : Tip]) /\ Len(prefetch) < PrefetchSize
    /\ refused \in BOOLEAN /\ synced \in BOOLEAN
    /\ walkTip \in {NoTip} \cup Nat /\ budget \in 0 .. UndoBlocks /\ blocksDeleted \in 0 .. budget
    /\ caller \in {"below", "reorg"} /\ entry \in Tip
    /\ settle \in [previous : {NoTip} \cup Nat, stable : 0 .. StableReads, reads : 0 .. MaxReads]
    /\ pc \in {"down", "poll", "attip", "index", "settle", "walk", "walkread", "walksettle", "halted"}
    /\ lacked \subseteq Block

(***************************************************************************)
(* Outside a walk the cursor is on top of the committed tip: whatever the  *)
(* node answers, and however old the prefetched blocks are, a commit never *)
(* joins two branches.  The prev-hash check of indexNextBlock is what      *)
(* ensures it; the at-tip flush relies on it.                              *)
(***************************************************************************)
CursorExtendsTip ==
    pc \in {"poll", "attip", "index", "settle"} => tip = Root \/ tip \in Branch[cursor]

(***************************************************************************)
(* A committed block is rolled back only if, since the pass that rolls it  *)
(* back began, the node had another block at its height, or ended below it *)
(* without being in initial block download: a node that is catching up or  *)
(* does not answer never costs the store a block.                          *)
(***************************************************************************)
RollbackOnlyLacked ==
    [][tip' # tip /\ tip \in Block /\ tip' = Parent[tip] => tip \in lacked]_vars

(***************************************************************************)
(* The durable halt, which costs a rebuild of the index, is entered only   *)
(* for a fork the undo window cannot cross: the node has left our branch,  *)
(* and every block it still shares with the branch the walk began on is    *)
(* further below than the window held at the walk's entry, however the     *)
(* node moved during the walk.  A node that is only below us on our own    *)
(* branch is refused instead ("the index is intact and no rebuild is       *)
(* needed").                                                               *)
(***************************************************************************)
HaltOnlyPastWindow ==
    [][pc # "halted" /\ pc' = "halted" =>
         /\ nodeTip \notin Branch[entry]
         /\ \A b \in Branch[entry] \cap Branch[nodeTip] :
               Height[entry] - Height[b] > Least(depth + blocksDeleted, UndoBlocks)]_vars

(***************************************************************************)
(* While a refusal stands nothing is committed or rolled back: the index   *)
(* waits for the node to pass it.                                          *)
(***************************************************************************)
RefusalHolds == [][refused /\ refused' => tip' = tip]_vars

(***************************************************************************)
(* Once the node stays put and answers, the loop ends up synced on the     *)
(* node's own tip, or in one of the states it can say it is stuck in:      *)
(* halted, waiting for a node that cannot be parsed, or waiting for a node *)
(* below the index that is catching up or too far below to follow.  No     *)
(* order of moves, stale prefetches, failures and crashes leaves it        *)
(* committed to an orphaned block or circling in a walk.                   *)
(***************************************************************************)
Stuck ==
    \/ pc = "halted"
    \/ status = "behind"
    \/ (Height[nodeTip] < Height[cursor] /\ status = "ibd")
    \/ (Height[nodeTip] < Height[tip] /\ refused)

Converges == <>[](Stuck \/ (synced /\ tip = nodeTip /\ cursor = nodeTip))
=============================================================================
