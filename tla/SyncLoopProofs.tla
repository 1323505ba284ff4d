--------------------------- MODULE SyncLoopProofs ---------------------------
(***************************************************************************)
(* Proofs about SyncLoop for every block tree, node and setting: type      *)
(* correctness, that a commit never joins two branches, that a block is    *)
(* rolled back only if the node lacked it, that the durable halt is        *)
(* entered only on a fork, and that a refusal freezes the store.  The      *)
(* module first shows that the recursive function Branch is well defined   *)
(* and what it yields, by induction over the block tree.                   *)
(***************************************************************************)
EXTENDS SyncLoop, Ledger, SequenceTheorems, WellFoundedInduction, TLAPS

(***************************************************************************)
(* The strengthening.                                                      *)
(***************************************************************************)
InWalk == pc \in {"walk", "walkread", "walksettle"}

\* The readings of a tip, and those that have neither settled nor given up: no
\* other is ever kept.
Reading    == [previous : {NoTip} \cup Nat, stable : 0 .. StableReads, reads : 0 .. MaxReads]
SettleOpen == settle \in Reading /\ settle.stable < StableReads /\ settle.reads < MaxReads

\* The cursor is on top of the committed tip, also of a process yet to start.
OnTip == ~InWalk /\ pc # "halted" => tip = Root \/ tip \in Branch[cursor]

\* A walk goes down the branch it began on, one block for each rollback, and
\* the persisted window covers the rollbacks it has left.
BudgetCovered ==
    InWalk => /\ budget = Least(depth + blocksDeleted, UndoBlocks)
              /\ Height[entry] = Height[tip] + blocksDeleted
              /\ tip = Root \/ tip \in Branch[entry]

\* A refusal stands only between passes, and only until the node is read again.
RefusedWaits == refused => pc = "poll" /\ MustRefresh

\* During a pass `lacked' holds what the node lacks now, and all blocks above
\* the height the walk takes for the node's tip.
LackedNow     == InPass => Lacks(nodeTip, status) \subseteq lacked
WalkTipLacked == InWalk /\ walkTip # NoTip => \A b \in Block : Height[b] > walkTip => b \in lacked

\* TypeOK in three parts: the flags, the prefetch queue, and the rest.
Flags == info \in BOOLEAN /\ refused \in BOOLEAN /\ synced \in BOOLEAN

Queue == {q \in Seq([height : Nat, block : Tip]) : Len(q) < PrefetchSize}

Places ==
    /\ nodeTip \in Block /\ status \in {"ok", "ibd", "behind"}
    /\ moves \in 0 .. MaxMoves /\ faults \in 0 .. MaxFaults
    /\ tip \in Tip /\ depth \in 0 .. UndoBlocks
    /\ cursor \in Tip /\ infoTip \in {NoTip} \cup Nat
    /\ walkTip \in {NoTip} \cup Nat /\ budget \in 0 .. UndoBlocks /\ blocksDeleted \in 0 .. budget
    /\ caller \in {"below", "reorg"} /\ entry \in Tip
    /\ pc \in {"down", "poll", "attip", "index", "settle", "walk", "walkread", "walksettle", "halted"}
    /\ lacked \subseteq Block

IInv ==
    /\ TypeOK /\ SettleOpen /\ OnTip /\ BudgetCovered /\ RefusedWaits /\ LackedNow /\ WalkTipLacked

-----------------------------------------------------------------------------
\* The sets of tips that hold the parent of each of their blocks.
ParentClosed(S) == \A b \in S \cap Block : Parent[b] \in S

\* The blocks of the branch that ends in t: those in every such set with t.
Ancestry == [t \in Tip |-> {b \in Block : \A S \in SUBSET Tip : t \in S /\ ParentClosed(S) => b \in S}]

LEMMA AncestryStep ==
    Ancestry = [t \in Tip |-> IF t = Root THEN {} ELSE {t} \cup Ancestry[Parent[t]]]
  <1> USE TreeAssumption DEF Tip
  <1>1. Ancestry[Root] = {}
    <2>1. {Root} \in SUBSET Tip /\ ParentClosed({Root})
      BY DEF ParentClosed
    <2> QED
      BY <2>1 DEF Ancestry
  <1>2. ASSUME NEW b \in Block PROVE Ancestry[b] = {b} \cup Ancestry[Parent[b]]
    <2>0. Parent[b] \in Tip /\ b \in Tip
      OBVIOUS
    <2>1. ASSUME NEW c \in Ancestry[b], c # b PROVE c \in Ancestry[Parent[b]]
      <3> SUFFICES ASSUME NEW S \in SUBSET Tip, Parent[b] \in S, ParentClosed(S) PROVE c \in S
        BY <2>0, <2>1 DEF Ancestry
      <3>1. S \cup {b} \in SUBSET Tip /\ ParentClosed(S \cup {b})
        BY <2>0 DEF ParentClosed
      <3> QED
        BY <2>0, <2>1, <3>1 DEF Ancestry
    <2>2. ASSUME NEW c \in Ancestry[Parent[b]] PROVE c \in Ancestry[b]
      <3> SUFFICES ASSUME NEW S \in SUBSET Tip, b \in S, ParentClosed(S) PROVE c \in S
        BY <2>0, <2>2 DEF Ancestry
      <3>1. Parent[b] \in S
        BY DEF ParentClosed
      <3> QED
        BY <2>0, <2>2, <3>1 DEF Ancestry
    <2>3. b \in Ancestry[b]
      BY <2>0 DEF Ancestry
    <2> QED
      BY <2>1, <2>2, <2>3
  <1>3. \A t \in Tip : Ancestry[t] = IF t = Root THEN {} ELSE {t} \cup Ancestry[Parent[t]]
    BY <1>1, <1>2
  <1>4. Ancestry = [t \in Tip |-> Ancestry[t]]
    BY DEF Ancestry
  <1> HIDE DEF Ancestry
  <1> QED
    BY <1>3, <1>4

\* The recursive function is well defined: some function satisfies its equation.
LEMMA BranchStep ==
    Branch = [t \in Tip |-> IF t = Root THEN {} ELSE {t} \cup Branch[Parent[t]]]
  <1> DEFINE Eq(f) == f = [t \in Tip |-> IF t = Root THEN {} ELSE {t} \cup f[Parent[t]]]
  <1>1. \E f : Eq(f)
    BY AncestryStep
  <1>2. Branch = CHOOSE f : Eq(f)
    BY DEF Branch
  <1> HIDE DEF Eq
  <1>3. Eq(Branch)
    BY <1>1, <1>2
  <1> QED
    BY <1>3 DEF Eq

\* The order of the naturals, as a well-founded set of pairs.
LessThan == {p \in Nat \X Nat : p[1] < p[2]}

(***************************************************************************)
(* Induction over the block tree: a set that holds the root, and every     *)
(* block whose parent it holds, holds every tip.  Otherwise a block of     *)
(* least height would be missing, and its parent with it.                  *)
(***************************************************************************)
LEMMA TreeInduction ==
    ASSUME NEW S, Root \in S, \A b \in Block : Parent[b] \in S => b \in S
    PROVE  Tip \subseteq S
  <1> DEFINE missing == {Height[b] : b \in Block \ S}
  <1>1. \A b \in Block : Height[b] \in Nat /\ Height[b] = Height[Parent[b]] + 1 /\ Parent[b] \in Tip
    BY TreeAssumption
  <1>2. SUFFICES ASSUME NEW c \in Block \ S PROVE FALSE
    BY DEF Tip
  <1>3. missing \subseteq Nat /\ missing # {}
    BY <1>1, <1>2
  <1>4. IsWellFoundedOn(LessThan, Nat)
    <2>1. OpToRel(<, Nat) = LessThan
      BY DEF OpToRel, LessThan
    <2> QED
      BY <2>1, NatLessThanWellFounded
  <1>5. PICK n \in missing : \A m \in missing : ~(<<m, n>> \in LessThan)
    <2> HIDE DEF missing
    <2> QED
      BY <1>3, <1>4, WFMin
  <1>6. PICK b \in Block \ S : Height[b] = n
    BY <1>5
  <1>7. Parent[b] \notin S /\ Parent[b] \in Block
    BY <1>1, <1>6 DEF Tip
  <1>8. <<Height[Parent[b]], n>> \notin LessThan
    BY <1>5, <1>7
  <1>9. Height[Parent[b]] \in Nat /\ n \in Nat /\ n = Height[Parent[b]] + 1
    BY <1>1, <1>6, <1>7
  <1> QED
    BY <1>8, <1>9 DEF LessThan

\* What the tree says of one block.
LEMMA BlockFacts ==
    ASSUME NEW b \in Block
    PROVE  /\ b \in Tip /\ b # Root /\ Parent[b] \in Tip
           /\ Height[b] \in Nat /\ Height[b] = Height[Parent[b]] + 1
           /\ Branch[b] = {b} \cup Branch[Parent[b]]
  <1>1. /\ b \in Tip /\ b # Root /\ Parent[b] \in Tip
        /\ Height[b] \in Nat /\ Height[b] = Height[Parent[b]] + 1
    BY TreeAssumption DEF Tip
  <1>2. Branch[b] = IF b = Root THEN {} ELSE {b} \cup Branch[Parent[b]]
    BY <1>1, BranchStep
  <1> QED
    BY <1>1, <1>2

LEMMA RootFacts == Root \in Tip /\ Height[Root] = -1 /\ Branch[Root] = {}
  <1>1. Root \in Tip /\ Height[Root] = -1
    BY TreeAssumption DEF Tip
  <1>2. Branch[Root] = IF Root = Root THEN {} ELSE {Root} \cup Branch[Parent[Root]]
    BY <1>1, BranchStep
  <1> QED
    BY <1>1, <1>2

LEMMA TipFacts ==
    ASSUME NEW t \in Tip
    PROVE  Height[t] \in Int /\ Height[t] >= -1 /\ (Height[t] = -1 <=> t = Root)
  BY TreeAssumption DEF Tip

\* A branch holds blocks up to its end's height, one for each height.
LEMMA BranchHeights ==
    ASSUME NEW t \in Tip
    PROVE  /\ Branch[t] \subseteq Block
           /\ \A b \in Branch[t] : Height[b] <= Height[t]
           /\ \A h \in Nat : h <= Height[t] => \E b \in Branch[t] : Height[b] = h
           /\ \A b, c \in Branch[t] : Height[b] = Height[c] => b = c
  <1> DEFINE S == {u \in Tip :
                     /\ Branch[u] \subseteq Block
                     /\ \A b \in Branch[u] : Height[b] <= Height[u]
                     /\ \A h \in Nat : h <= Height[u] => \E b \in Branch[u] : Height[b] = h
                     /\ \A b, c \in Branch[u] : Height[b] = Height[c] => b = c}
  <1>1. Root \in S
    BY RootFacts
  <1>2. ASSUME NEW d \in Block, Parent[d] \in S PROVE d \in S
    <2>1. /\ d \in Tip /\ Height[d] \in Nat /\ Height[d] = Height[Parent[d]] + 1
          /\ Branch[d] = {d} \cup Branch[Parent[d]] /\ Parent[d] \in Tip
      BY BlockFacts
    <2>2. Height[Parent[d]] \in Int
      BY <2>1, TipFacts
    <2>3. /\ Branch[Parent[d]] \subseteq Block
          /\ \A b \in Branch[Parent[d]] : Height[b] <= Height[Parent[d]]
          /\ \A h \in Nat : h <= Height[Parent[d]] => \E b \in Branch[Parent[d]] : Height[b] = h
          /\ \A b, c \in Branch[Parent[d]] : Height[b] = Height[c] => b = c
      BY <1>2
    <2>4. \A b \in Branch[Parent[d]] : Height[b] \in Nat /\ Height[b] < Height[d]
      BY <2>1, <2>2, <2>3, BlockFacts
    <2>5. Branch[d] \subseteq Block
      BY <2>1, <2>3
    <2>6. \A b \in Branch[d] : Height[b] <= Height[d]
      BY <2>1, <2>4
    <2>7. ASSUME NEW h \in Nat, h <= Height[d] PROVE \E b \in Branch[d] : Height[b] = h
      <3>1. CASE h = Height[d]
        BY <2>1, <3>1
      <3>2. CASE h # Height[d]
        <4>1. h <= Height[Parent[d]]
          BY <2>1, <2>2, <2>7, <3>2
        <4> QED
          BY <2>1, <2>3, <4>1
      <3> QED
        BY <3>1, <3>2
    <2>8. \A b, c \in Branch[d] : Height[b] = Height[c] => b = c
      BY <2>1, <2>3, <2>4
    <2> QED
      BY <2>1, <2>5, <2>6, <2>7, <2>8
  <1>3. Tip \subseteq S
    <2> HIDE DEF S
    <2> QED
      BY <1>1, <1>2, TreeInduction
  <1> QED
    BY <1>3

\* A branch holds the parent of each of its blocks, down to the root.
LEMMA BranchParents ==
    ASSUME NEW t \in Tip
    PROVE  \A b \in Branch[t] : Parent[b] \in Branch[t] \cup {Root}
  <1> DEFINE S == {u \in Tip : \A b \in Branch[u] : Parent[b] \in Branch[u] \cup {Root}}
  <1>1. Root \in S
    BY RootFacts
  <1>2. ASSUME NEW d \in Block, Parent[d] \in S PROVE d \in S
    <2>1. d \in Tip /\ Branch[d] = {d} \cup Branch[Parent[d]] /\ Parent[d] \in Tip
      BY BlockFacts
    <2>2. Parent[d] \in Branch[Parent[d]] \cup {Root}
      BY <2>1, BlockFacts DEF Tip
    <2> QED
      BY <1>2, <2>1, <2>2
  <1>3. Tip \subseteq S
    <2> HIDE DEF S
    <2> QED
      BY <1>1, <1>2, TreeInduction
  <1> QED
    BY <1>3

\* The branch of a block of a branch is the part of it up to that block.
LEMMA BranchBelow ==
    ASSUME NEW t \in Tip, NEW b \in Branch[t]
    PROVE  /\ Branch[b] \subseteq Branch[t]
           /\ \A c \in Branch[t] : Height[c] <= Height[b] => c \in Branch[b]
  <1> DEFINE S == {u \in Tip : \A c \in Branch[u] : Branch[c] \subseteq Branch[u]}
  <1>1. Root \in S
    BY RootFacts
  <1>2. ASSUME NEW d \in Block, Parent[d] \in S PROVE d \in S
    <2>1. d \in Tip /\ Branch[d] = {d} \cup Branch[Parent[d]]
      BY BlockFacts
    <2> QED
      BY <1>2, <2>1
  <1>3. Tip \subseteq S
    <2> HIDE DEF S
    <2> QED
      BY <1>1, <1>2, TreeInduction
  <1>4. Branch[b] \subseteq Branch[t]
    BY <1>3
  <1>5. ASSUME NEW c \in Branch[t], Height[c] <= Height[b] PROVE c \in Branch[b]
    <2>1. b \in Block /\ c \in Block /\ b \in Tip
      BY BranchHeights DEF Tip
    <2>2. Height[c] \in Nat
      BY <2>1, BlockFacts
    <2>3. PICK e \in Branch[b] : Height[e] = Height[c]
      BY <1>5, <2>1, <2>2, BranchHeights
    <2>4. e \in Branch[t]
      BY <1>4, <2>3
    <2>5. e = c
      BY <2>3, <2>4, BranchHeights
    <2> QED
      BY <2>3, <2>5
  <1> QED
    BY <1>4, <1>5

\* getBlockHash answers with the block of the node's branch at that height.
LEMMA NodeHashFacts ==
    ASSUME nodeTip \in Block, NEW h \in Nat, NodeHas(h)
    PROVE  /\ NodeHash(h) \in Branch[nodeTip] /\ NodeHash(h) \in Block /\ Height[NodeHash(h)] = h
           /\ \A b \in Branch[nodeTip] : Height[b] = h => b = NodeHash(h)
  <1>1. nodeTip \in Tip
    BY DEF Tip
  <1>2. \E b \in Branch[nodeTip] : Height[b] = h
    BY <1>1, BranchHeights DEF NodeHas
  <1>3. NodeHash(h) \in Branch[nodeTip] /\ Height[NodeHash(h)] = h
    BY <1>2 DEF NodeHash
  <1> QED
    BY <1>1, <1>3, BranchHeights

\* Blocks the node can be said to lack: any above its settled tip, and the
\* committed tip when the node names another block at its height.
LEMMA LacksFacts ==
    ASSUME nodeTip \in Block, NEW b \in Block
    PROVE  /\ Height[b] > Height[nodeTip] => b \in Lacks(nodeTip, "ok")
           /\ Height[b] <= Height[nodeTip] /\ NodeHash(Height[b]) # b =>
                b \notin Branch[nodeTip] /\ b \in Lacks(nodeTip, status)
  <1>1. nodeTip \in Tip /\ Height[nodeTip] \in Nat /\ Height[b] \in Nat
    BY BlockFacts
  <1>2. ASSUME Height[b] > Height[nodeTip] PROVE b \notin Branch[nodeTip]
    <2>1. b \in Branch[nodeTip] => Height[b] <= Height[nodeTip]
      BY <1>1, BranchHeights
    <2> QED
      BY <1>1, <1>2, <2>1
  <1>3. ASSUME Height[b] <= Height[nodeTip], NodeHash(Height[b]) # b PROVE b \notin Branch[nodeTip]
    BY <1>1, <1>3, NodeHashFacts DEF NodeHas
  <1> QED
    BY <1>2, <1>3 DEF Lacks

LEMMA TypeParts == TypeOK <=> Flags /\ Places /\ prefetch \in Queue /\ settle \in Reading
  BY DEF TypeOK, Flags, Places, Queue, Reading

\* The empty queue and the empty reading.
LEMMA EmptyTyped ==
    <<>> \in Queue /\ NoSettle \in Reading /\ NoSettle.stable < StableReads /\ NoSettle.reads < MaxReads
  <1>1. <<>> \in Seq([height : Nat, block : Tip]) /\ Len(<<>>) = 0
    OBVIOUS
  <1>2. <<>> \in Queue
    BY <1>1, SyncAssumption DEF Queue
  <1> QED
    BY <1>2, SyncAssumption DEF Reading, NoSettle

\* A call answered or not leaves the node where it is.
LEMMA NodeStill ==
    ASSUME TypeOK, Fault \/ UNCHANGED node
    PROVE  /\ nodeTip' = nodeTip /\ status' = status
           /\ moves' \in 0 .. MaxMoves /\ faults' \in 0 .. MaxFaults
  <1>1. CASE Fault
    <2>1. faults \in 0 .. MaxFaults /\ MaxFaults \in Nat
      BY SyncAssumption DEF TypeOK
    <2>2. faults < MaxFaults /\ faults' = faults + 1
      BY <1>1 DEF Fault
    <2>3. faults' \in 0 .. MaxFaults
      BY <2>1, <2>2
    <2> QED
      BY <1>1, <2>3 DEF Fault, TypeOK
  <1>2. CASE UNCHANGED node
    BY <1>2 DEF node, TypeOK
  <1> QED
    BY <1>1, <1>2

-----------------------------------------------------------------------------
LEMMA InitIInv == Init => IInv
  <1> SUFFICES ASSUME Init PROVE IInv
    OBVIOUS
  <1>1. TypeOK
    <2>1. Flags
      BY DEF Init, Flags
    <2>2. Places
      BY SyncAssumption, RootFacts DEF Init, Places
    <2> QED
      BY <2>1, <2>2, EmptyTyped, TypeParts DEF Init
  <1>2. SettleOpen
    BY EmptyTyped DEF Init, SettleOpen
  <1>3. OnTip /\ BudgetCovered /\ RefusedWaits /\ LackedNow /\ WalkTipLacked
    BY DEF Init, OnTip, BudgetCovered, RefusedWaits, LackedNow, WalkTipLacked, InPass, InWalk
  <1> QED
    BY <1>1, <1>2, <1>3 DEF IInv

-----------------------------------------------------------------------------
(***************************************************************************)
(* The node moves: only what it lacks grows.                               *)
(***************************************************************************)
LEMMA NodeMovesIInv ==
    ASSUME IInv, NEW t \in Block, NEW s \in {"ok", "ibd", "behind"}, NodeMoves(t, s)
    PROVE  IInv'
  <1> USE DEF NodeMoves, store, loop, walking
  <1>1. TypeOK'
    <2>1. moves \in 0 .. MaxMoves /\ moves < MaxMoves /\ moves' = moves + 1 /\ MaxMoves \in Nat
      BY SyncAssumption DEF IInv, TypeOK
    <2>2. moves' \in 0 .. MaxMoves
      BY <2>1
    <2>3. lacked' \subseteq Block
      BY DEF IInv, TypeOK, Lacks
    <2> QED
      BY <2>2, <2>3 DEF IInv, TypeOK
  <1>2. SettleOpen' /\ OnTip' /\ BudgetCovered' /\ RefusedWaits'
    BY DEF IInv, SettleOpen, OnTip, BudgetCovered, RefusedWaits, MustRefresh, InWalk
  <1>3. LackedNow'
    BY DEF LackedNow, InPass, Lacks
  <1>4. WalkTipLacked'
    BY DEF IInv, WalkTipLacked, InWalk, InPass
  <1> QED
    BY <1>1, <1>2, <1>3, <1>4 DEF IInv

\* NodeNext is a union of such moves.
LEMMA NodeNextIInv ==
    ASSUME IInv, NodeNext
    PROVE  IInv'
  <1>0. nodeTip \in Block /\ status \in {"ok", "ibd", "behind"} /\ nodeTip \in Tip
    BY DEF IInv, TypeOK, Tip
  <1>1. CASE NodeConnects
    BY <1>0, <1>1, NodeMovesIInv DEF NodeConnects
  <1>2. CASE NodeDisconnects
    BY <1>0, <1>2, NodeMovesIInv DEF NodeDisconnects
  <1>3. CASE NodeRestarts
    <2>1. Branch[nodeTip] \subseteq Block
      BY <1>0, BranchHeights
    <2> QED
      BY <1>3, <2>1, NodeMovesIInv DEF NodeRestarts
  <1>4. CASE NodeStatus
    BY <1>0, <1>4, NodeMovesIInv DEF NodeStatus
  <1> QED
    BY <1>1, <1>2, <1>3, <1>4 DEF NodeNext

\* The process is gone: its memory is reset, the store and the node stay.
LEMMA ExitIInv ==
    ASSUME IInv, Exit, PassEnds, UNCHANGED store, Fault \/ UNCHANGED node
    PROVE  IInv'
  <1> USE DEF Exit, PassEnds, store
  <1>1. /\ nodeTip' = nodeTip /\ status' = status /\ moves' \in 0 .. MaxMoves /\ faults' \in 0 .. MaxFaults
    BY NodeStill DEF IInv
  <1>2. tip \in Tip
    BY DEF IInv, TypeOK
  <1>3. TypeOK'
    <2>1. Flags'
      BY DEF Flags
    <2>2. Places'
      BY <1>1, <1>2, SyncAssumption, RootFacts, TypeParts DEF IInv, Places
    <2> QED
      BY <2>1, <2>2, EmptyTyped DEF TypeOK, Flags, Places, Queue, Reading
  <1>4. SettleOpen'
    BY EmptyTyped DEF SettleOpen
  <1>5. OnTip'
    BY <1>2, BlockFacts DEF OnTip, Tip
  <1>6. BudgetCovered' /\ RefusedWaits' /\ LackedNow' /\ WalkTipLacked'
    BY DEF BudgetCovered, RefusedWaits, LackedNow, WalkTipLacked, InWalk, InPass
  <1> QED
    BY <1>3, <1>4, <1>5, <1>6 DEF IInv

-----------------------------------------------------------------------------
\* Readings between passes that start no pass, and the start of the process.
LEMMA IdleIInv ==
    ASSUME IInv, Start \/ RefreshFails \/ RefreshUnparseable \/ RefreshBelowWaits
    PROVE  IInv'
  <1>1. /\ pc \in {"down", "poll"} /\ pc' = "poll"
        /\ Fault \/ UNCHANGED node
        /\ UNCHANGED <<tip, depth, cursor, prefetch, refused, walkTip, budget, blocksDeleted, caller, entry,
                       settle, lacked>>
    BY DEF Start, RefreshFails, RefreshUnparseable, RefreshBelowWaits, store, loop, walking
  <1>2. /\ nodeTip' = nodeTip /\ status' = status /\ moves' \in 0 .. MaxMoves /\ faults' \in 0 .. MaxFaults
    BY <1>1, NodeStill DEF IInv
  <1>3. cursor \in Tip /\ nodeTip \in Block /\ Height[nodeTip] \in Nat /\ Height[cursor] \in Int
    BY BlockFacts, TipFacts DEF IInv, TypeOK
  <1>4. infoTip' \in {NoTip} \cup Nat
    BY <1>3 DEF Start, RefreshFails, RefreshUnparseable, RefreshBelowWaits, loop, IInv, TypeOK
  <1>5. TypeOK'
    <2>1. Flags'
      BY DEF Start, RefreshFails, RefreshUnparseable, RefreshBelowWaits, loop, Flags, IInv, TypeOK
    <2>2. Places'
      BY <1>1, <1>2, <1>4, TypeParts DEF IInv, Places
    <2> QED
      BY <1>1, <2>1, <2>2, TypeParts DEF IInv, TypeOK, Flags, Places, Queue, Reading
  <1>6. SettleOpen' /\ OnTip' /\ BudgetCovered' /\ LackedNow' /\ WalkTipLacked'
    BY <1>1 DEF IInv, SettleOpen, OnTip, BudgetCovered, LackedNow, WalkTipLacked, InWalk, InPass
  <1>7. RefusedWaits'
    <2>1. CASE RefreshUnparseable
      BY <1>1, <2>1 DEF RefreshUnparseable, RefusedWaits, MustRefresh
    <2>2. CASE RefreshBelowWaits
      <3>1. infoTip' = Height[nodeTip] /\ Height[cursor] > Height[nodeTip]
        BY <2>2 DEF RefreshBelowWaits
      <3>2. Height[cursor'] >= infoTip'
        BY <1>1, <1>3, <3>1
      <3> QED
        BY <1>1, <3>2 DEF RefusedWaits, MustRefresh
    <2>3. CASE Start \/ RefreshFails
      BY <1>1, <2>3 DEF Start, RefreshFails, loop, IInv, RefusedWaits, MustRefresh
    <2> QED
      BY <2>1, <2>2, <2>3
  <1> QED
    BY <1>5, <1>6, <1>7 DEF IInv

\* A pass begins: with a reading at or above the cursor, with none, or below.
LEMMA PassBeginsIInv ==
    ASSUME IInv, RefreshReached \/ NoRefresh \/ RefreshBelow
    PROVE  IInv'
  <1>1. /\ pc = "poll" /\ pc' \in {"attip", "index", "settle"} /\ UNCHANGED node /\ PassBegins
        /\ UNCHANGED <<tip, depth, cursor, prefetch, walkTip, budget, blocksDeleted, caller, entry>>
    BY DEF RefreshReached, NoRefresh, RefreshBelow, store, loop, walking
  <1>2. /\ nodeTip' = nodeTip /\ status' = status /\ moves' \in 0 .. MaxMoves /\ faults' \in 0 .. MaxFaults
    BY <1>1, NodeStill DEF IInv
  <1>3. Height[nodeTip] \in Nat
    BY BlockFacts DEF IInv, TypeOK
  <1>4. ~refused'
    BY DEF RefreshReached, NoRefresh, RefreshBelow, WaitsOnNode, loop, IInv, RefusedWaits
  <1>5. infoTip' \in {NoTip} \cup Nat
    BY <1>3 DEF RefreshReached, NoRefresh, RefreshBelow, loop, IInv, TypeOK
  <1>6. SettleOpen'
    <2>1. CASE RefreshReached \/ NoRefresh
      BY <2>1 DEF RefreshReached, NoRefresh, walking, IInv, TypeOK, SettleOpen
    <2>2. CASE RefreshBelow
      <3>1. settle' = [previous |-> Height[nodeTip], stable |-> 0, reads |-> 0]
        BY <2>2 DEF RefreshBelow, NoSettle
      <3> QED
        BY <1>3, <3>1, SyncAssumption DEF SettleOpen, Reading
    <2> QED
      BY <2>1, <2>2
  <1>7. TypeOK'
    <2>1. Flags'
      BY DEF RefreshReached, NoRefresh, RefreshBelow, loop, Flags, IInv, TypeOK
    <2>2. lacked' \subseteq Block
      BY <1>1 DEF PassBegins, Lacks
    <2>3. Places'
      BY <1>1, <1>2, <1>5, <2>2, TypeParts DEF IInv, Places
    <2> QED
      BY <1>1, <1>6, <2>1, <2>3, TypeParts DEF IInv, TypeOK, SettleOpen, Flags, Places, Queue, Reading
  <1>8. OnTip' /\ BudgetCovered' /\ RefusedWaits' /\ WalkTipLacked'
    BY <1>1, <1>4 DEF IInv, OnTip, BudgetCovered, RefusedWaits, WalkTipLacked, InWalk
  <1>9. LackedNow'
    BY <1>1, <1>2 DEF LackedNow, PassBegins, Lacks
  <1> QED
    BY <1>6, <1>7, <1>8, <1>9 DEF IInv

-----------------------------------------------------------------------------
\* A block on top of the committed tip, or the tip itself, is not below it.
LEMMA NotBelowTip ==
    ASSUME NEW t \in Tip, NEW c \in Tip, t = Root \/ t \in Branch[c]
    PROVE  Height[t] <= Height[c]
  BY BranchHeights, TipFacts, RootFacts

\* A pass ends with the store as it is and the cursor where it was, or back at
\* the committed tip.
LEMMA PassEndsIInv ==
    ASSUME IInv,
           pc \in {"settle", "attip", "index"}, pc' = "poll",
           Fault \/ UNCHANGED node, PassEnds,
           UNCHANGED <<tip, depth, refused, walkTip, budget, blocksDeleted, caller, entry>>,
           cursor' \in {cursor, tip}, infoTip' \in {infoTip, Height[nodeTip]},
           Flags', prefetch' \in Queue, settle' \in {settle, NoSettle}
    PROVE  IInv'
  <1>1. /\ nodeTip' = nodeTip /\ status' = status /\ moves' \in 0 .. MaxMoves /\ faults' \in 0 .. MaxFaults
    BY NodeStill DEF IInv
  <1>2. Height[nodeTip] \in Nat /\ tip \in Tip
    BY BlockFacts DEF IInv, TypeOK
  <1>3. SettleOpen'
    BY EmptyTyped DEF IInv, SettleOpen
  <1>4. Places'
    BY <1>1, <1>2, TypeParts DEF IInv, Places, PassEnds
  <1>5. TypeOK'
    BY <1>3, <1>4 DEF TypeOK, SettleOpen, Flags, Places, Queue, Reading
  <1>6. OnTip'
    <2>1. tip = Root \/ tip \in Branch[cursor]
      BY DEF IInv, OnTip, InWalk
    <2>2. tip = Root \/ tip \in Branch[tip]
      BY <1>2, BlockFacts DEF Tip
    <2> QED
      BY <2>1, <2>2 DEF OnTip
  <1>7. ~refused'
    BY DEF IInv, RefusedWaits
  <1>8. BudgetCovered' /\ RefusedWaits' /\ LackedNow' /\ WalkTipLacked'
    BY <1>7 DEF BudgetCovered, RefusedWaits, LackedNow, WalkTipLacked, InWalk, InPass
  <1> QED
    BY <1>3, <1>5, <1>6, <1>8 DEF IInv

LEMMA BackToPollIInv ==
    ASSUME IInv, SettleGivesUp \/ SettleFindsTipBack \/ AtTipSynced \/ \E a \in BOOLEAN : FetchFails(a)
    PROVE  IInv'
  <1>0. prefetch \in Queue /\ Flags
    BY TypeParts DEF IInv
  <1>1. CASE SettleGivesUp
    <2>1. Flags'
      BY <1>0, <1>1 DEF SettleGivesUp, loop, Flags
    <2> QED
      BY <1>0, <1>1, <2>1, PassEndsIInv DEF SettleGivesUp, store, loop
  <1>2. CASE SettleFindsTipBack
    <2>1. Flags'
      BY <1>0, <1>2 DEF SettleFindsTipBack, Flags
    <2> QED
      BY <1>0, <1>2, <2>1, PassEndsIInv DEF SettleFindsTipBack, store
  <1>3. CASE AtTipSynced
    <2>1. Flags'
      BY <1>0, <1>3 DEF AtTipSynced, Flags
    <2> QED
      BY <1>0, <1>3, <2>1, PassEndsIInv DEF AtTipSynced, store, walking
  <1>4. ASSUME NEW a \in BOOLEAN, FetchFails(a) PROVE IInv'
    <2>1. Flags'
      BY <1>0, <1>4 DEF FetchFails, Flags, StillSynced
    <2>2. Fault \/ UNCHANGED node
      BY <1>4 DEF FetchFails, Fetch
    <2> QED
      BY <1>0, <1>4, <2>1, <2>2, PassEndsIInv, EmptyTyped DEF FetchFails, Fetch, store, walking
  <1> QED
    BY <1>1, <1>2, <1>3, <1>4

-----------------------------------------------------------------------------
(***************************************************************************)
(* A commit moves the tip up its own branch.                               *)
(***************************************************************************)
LEMMA CommitIInv ==
    ASSUME IInv,
           pc \in {"attip", "index"}, pc' = "poll",
           Fault \/ UNCHANGED node, PassEnds,
           UNCHANGED <<refused, walkTip, budget, blocksDeleted, caller, entry, infoTip, settle>>,
           cursor' \in Tip, tip = Root \/ tip \in Branch[cursor'],
           Commit(cursor') \/ UNCHANGED store,
           Flags', prefetch' \in Queue
    PROVE  IInv'
  <1>1. /\ nodeTip' = nodeTip /\ status' = status /\ moves' \in 0 .. MaxMoves /\ faults' \in 0 .. MaxFaults
    BY NodeStill DEF IInv
  <1>2. /\ tip \in Tip /\ depth \in 0 .. UndoBlocks /\ Height[tip] \in Int /\ Height[cursor'] \in Int
        /\ UndoBlocks \in Nat /\ Height[tip] <= Height[cursor']
    BY NotBelowTip, TipFacts, SyncAssumption DEF IInv, TypeOK
  <1>3. tip' \in Tip /\ (tip' = Root \/ tip' \in Branch[cursor']) /\ depth' \in 0 .. UndoBlocks
    <2>1. CASE Commit(cursor')
      <3>1. tip' = cursor' /\ depth' = Least(depth + Height[cursor'] - Height[tip], UndoBlocks)
        BY <2>1 DEF Commit
      <3>2. depth' \in 0 .. UndoBlocks
        BY <1>2, <3>1 DEF Least
      <3> QED
        BY <3>1, <3>2, BlockFacts DEF Tip
    <2>2. CASE UNCHANGED store
      BY <1>2, <2>2 DEF store
    <2> QED
      BY <2>1, <2>2
  <1>4. SettleOpen'
    BY DEF IInv, SettleOpen
  <1>5. Places'
    BY <1>1, <1>3, TypeParts DEF IInv, Places, PassEnds
  <1>6. TypeOK'
    BY <1>4, <1>5 DEF TypeOK, SettleOpen, Flags, Places, Queue, Reading
  <1>7. OnTip'
    BY <1>3 DEF OnTip
  <1>8. ~refused'
    BY DEF IInv, RefusedWaits
  <1>9. BudgetCovered' /\ RefusedWaits' /\ LackedNow' /\ WalkTipLacked'
    BY <1>8 DEF BudgetCovered, RefusedWaits, LackedNow, WalkTipLacked, InWalk, InPass
  <1> QED
    BY <1>4, <1>6, <1>7, <1>9 DEF IInv

LEMMA AtTipFlushIInv ==
    ASSUME IInv, AtTipFlush
    PROVE  IInv'
  <1>1. Flags' /\ prefetch' \in Queue
    <2>1. Flags /\ prefetch \in Queue
      BY TypeParts DEF IInv
    <2> QED
      BY <2>1 DEF AtTipFlush, loop, Flags
  <1>2. cursor' = cursor /\ cursor \in Tip
    BY DEF AtTipFlush, loop, IInv, TypeOK
  <1>3. tip = Root \/ tip \in Branch[cursor]
    BY DEF AtTipFlush, IInv, OnTip, InWalk
  <1> QED
    BY <1>1, <1>2, <1>3, CommitIInv DEF AtTipFlush, loop, walking

(***************************************************************************)
(* The prefetch queue: every entry is a block of the tree at a height, or  *)
(* a rejection, and the queue filled is within PREFETCH_SIZE.              *)
(***************************************************************************)
LEMMA FilledTyped ==
    ASSUME TypeOK, NEW a \in BOOLEAN
    PROVE  Filled(a) \in Seq([height : Nat, block : Tip]) /\ Len(Filled(a)) <= PrefetchSize
  <1> DEFINE last == IF prefetch = <<>> THEN Height[cursor] ELSE prefetch[Len(prefetch)].height
  <1> DEFINE more == Least(PrefetchRoom, infoTip - last)
  <1> DEFINE item(i) == [height |-> last + i,
                         block  |-> IF a /\ NodeHas(last + more) THEN NodeHash(last + i) ELSE Rejected]
  <1> DEFINE new == [i \in 1 .. more |-> item(i)]
  <1>1. /\ prefetch \in Seq([height : Nat, block : Tip]) /\ Len(prefetch) < PrefetchSize
        /\ cursor \in Tip /\ nodeTip \in Block /\ infoTip \in Int /\ PrefetchSize \in Nat
    BY SyncAssumption DEF TypeOK, NoTip
  <1>2. Len(prefetch) \in Nat
    BY <1>1
  <1>3. last \in Int /\ last >= -1
    <2>1. CASE prefetch = <<>>
      BY <1>1, <2>1, TipFacts
    <2>2. CASE prefetch # <<>>
      <3>1. Len(prefetch) \in 1 .. Len(prefetch)
        BY <1>1, <2>2
      <3>2. prefetch[Len(prefetch)] \in [height : Nat, block : Tip]
        BY <1>1, <3>1, ElementOfSeq
      <3> QED
        BY <2>2, <3>2
    <2> QED
      BY <2>1, <2>2
  <1>4. Filled(a) = IF more <= 0 THEN prefetch ELSE prefetch \o new
    BY DEF Filled
  <1> HIDE DEF last
  <1>5. more \in Int /\ more <= PrefetchSize - Len(prefetch)
    BY <1>1, <1>2, <1>3 DEF Least, PrefetchRoom
  <1> HIDE DEF more
  <1>6. CASE more <= 0
    BY <1>1, <1>4, <1>6
  <1>7. CASE ~(more <= 0)
    <2>1. more \in Nat
      BY <1>5, <1>7
    <2>2. ASSUME NEW i \in 1 .. more PROVE item(i) \in [height : Nat, block : Tip]
      <3>1. i \in Int /\ 1 <= i /\ i <= more
        BY <2>1
      <3>2. last + i \in Nat /\ last + more \in Nat /\ last + i <= last + more
        BY <1>3, <2>1, <3>1
      <3>3. ASSUME NodeHas(last + more) PROVE NodeHash(last + i) \in Tip
        <4>1. Height[nodeTip] \in Int
          BY <1>1, BlockFacts
        <4>2. last + more <= Height[nodeTip]
          BY <3>3 DEF NodeHas
        <4>3. NodeHas(last + i)
          BY <3>2, <4>1, <4>2 DEF NodeHas
        <4> QED
          BY <1>1, <3>2, <4>3, NodeHashFacts DEF Tip
      <3>4. (IF a /\ NodeHas(last + more) THEN NodeHash(last + i) ELSE Rejected) \in Tip
        BY <3>3, RootFacts DEF Rejected
      <3> QED
        BY <3>2, <3>4
    <2> HIDE DEF item
    <2>3. new \in Seq([height : Nat, block : Tip]) /\ Len(new) = more
      BY <2>1, <2>2
    <2> HIDE DEF new
    <2>4. /\ prefetch \o new \in Seq([height : Nat, block : Tip])
          /\ Len(prefetch \o new) = Len(prefetch) + Len(new)
      BY <1>1, <2>3, ConcatProperties
    <2>5. Len(prefetch) + more <= PrefetchSize
      BY <1>1, <1>2, <1>5
    <2> QED
      BY <1>4, <1>7, <2>3, <2>4, <2>5
  <1> QED
    BY <1>6, <1>7

\* What indexNextBlock fetches is a block of the tree, or a rejection.
LEMMA FetchedTyped ==
    ASSUME TypeOK, NEW a \in BOOLEAN
    PROVE  Fetched(Filled(a), a) \in Tip
  <1> DEFINE q == Filled(a)
  <1>1. q \in Seq([height : Nat, block : Tip])
    BY FilledTyped
  <1>2. cursor \in Tip /\ nodeTip \in Block
    BY DEF TypeOK
  <1>3. NextHeight \in Nat
    BY <1>2, TipFacts DEF NextHeight
  <1>4. Fetched(q, a) = IF FromQueue(q) THEN q[1].block
                        ELSE IF a /\ NodeHas(NextHeight) THEN NodeHash(NextHeight) ELSE Rejected
    BY DEF Fetched
  <1> HIDE DEF q
  <1>5. CASE FromQueue(q)
    <2>1. q # <<>>
      BY <1>5 DEF FromQueue
    <2>2. 1 \in 1 .. Len(q)
      BY <1>1, <2>1
    <2>3. q[1] \in [height : Nat, block : Tip]
      BY <1>1, <2>2, ElementOfSeq
    <2> QED
      BY <1>4, <1>5, <2>3 DEF q
  <1>6. CASE ~FromQueue(q)
    <2>1. NodeHas(NextHeight) => NodeHash(NextHeight) \in Tip
      BY <1>2, <1>3, NodeHashFacts DEF Tip
    <2>2. Rejected \in Tip
      BY RootFacts DEF Rejected
    <2> QED
      BY <1>4, <1>6, <2>1, <2>2 DEF q
  <1> QED
    BY <1>5, <1>6

\* The prev-hash check: the block staged is on top of the cursor, and so of
\* the committed tip.
LEMMA StagedOnTip ==
    ASSUME IInv, NEW a \in BOOLEAN, FetchStaged(a)
    PROVE  cursor' \in Block /\ (tip = Root \/ tip \in Branch[cursor'])
  <1> DEFINE b == Fetched(Filled(a), a)
  <1>1. pc = "index" /\ b # Rejected /\ Connects(b) /\ cursor' = b
    BY DEF FetchStaged, Fetch
  <1>2. b \in Tip
    BY FetchedTyped DEF IInv
  <1> HIDE DEF b
  <1>3. b \in Block
    BY <1>1, <1>2 DEF Tip, Rejected
  <1>4. tip = Root \/ tip \in Branch[cursor]
    BY <1>1 DEF IInv, OnTip, InWalk
  <1>5. CASE NextHeight = 0
    <2>1. cursor \in Tip
      BY DEF IInv, TypeOK
    <2>2. cursor = Root
      BY <1>5, <2>1, TipFacts DEF NextHeight
    <2> QED
      BY <1>1, <1>3, <1>4, <2>2, RootFacts
  <1>6. CASE Parent[b] = cursor
    BY <1>1, <1>3, <1>4, <1>6, BlockFacts
  <1> QED
    BY <1>1, <1>5, <1>6 DEF Connects

LEMMA FetchStagedIInv ==
    ASSUME IInv, NEW a \in BOOLEAN, FetchStaged(a)
    PROVE  IInv'
  <1> DEFINE q == Filled(a)
  <1> DEFINE b == Fetched(q, a)
  <1>1. /\ pc = "index" /\ pc' = "poll" /\ PassEnds /\ b # Rejected /\ Connects(b) /\ cursor' = b
        /\ Fault \/ UNCHANGED node
        /\ Commit(b) \/ UNCHANGED store
        /\ prefetch' = IF FromQueue(q) THEN Tail(q) ELSE <<>>
        /\ UNCHANGED <<infoTip, refused, walkTip, budget, blocksDeleted, caller, entry, settle>>
    BY DEF FetchStaged, Fetch, walking
  <1>2. q \in Seq([height : Nat, block : Tip]) /\ Len(q) <= PrefetchSize /\ b \in Tip
    BY FilledTyped, FetchedTyped DEF IInv
  <1>3. Flags'
    <2>1. Flags
      BY TypeParts DEF IInv
    <2> QED
      BY <2>1 DEF FetchStaged, Flags, StillSynced
  <1> HIDE DEF q, b
  <1>4. prefetch' \in Queue
    <2>1. CASE FromQueue(q)
      <3>1. q # <<>> /\ prefetch' = Tail(q)
        BY <1>1, <2>1 DEF FromQueue
      <3>2. Tail(q) \in Seq([height : Nat, block : Tip]) /\ Len(Tail(q)) = Len(q) - 1 /\ Len(q) \in Nat
        BY <1>2, <3>1
      <3>3. Len(Tail(q)) < PrefetchSize
        BY <1>2, <3>2, SyncAssumption
      <3> QED
        BY <3>1, <3>2, <3>3 DEF Queue
    <2>2. CASE ~FromQueue(q)
      BY <1>1, <2>2, EmptyTyped
    <2> QED
      BY <2>1, <2>2
  <1>5. tip = Root \/ tip \in Branch[b]
    BY <1>1, StagedOnTip
  <1> QED
    BY <1>1, <1>2, <1>3, <1>4, <1>5, CommitIInv

-----------------------------------------------------------------------------
(***************************************************************************)
(* A walk begins: its budget is what the persisted window holds, and the   *)
(* tip it goes by, if it has one, is the node's settled tip.               *)
(***************************************************************************)
LEMMA WalkBeginsIInv ==
    ASSUME IInv, NEW from \in {NoTip} \cup Nat, NEW by \in {"below", "reorg"}, Walk(from, by),
           pc \in {"settle", "attip", "index"},
           from # NoTip => status = "ok" /\ from = Height[nodeTip],
           Fault \/ UNCHANGED node, SamePass, UNCHANGED <<tip, depth, cursor, refused>>,
           infoTip' \in {NoTip} \cup Nat, Flags', prefetch' \in Queue
    PROVE  IInv'
  <1>1. /\ nodeTip' = nodeTip /\ status' = status /\ moves' \in 0 .. MaxMoves /\ faults' \in 0 .. MaxFaults
    BY NodeStill DEF IInv
  <1>2. /\ pc' = "walk" /\ walkTip' = from /\ caller' = by /\ blocksDeleted' = 0 /\ settle' = NoSettle
        /\ budget' = Least(depth, UndoBlocks) /\ lacked' = lacked /\ entry' = tip
    BY DEF Walk, WalkBudget, SamePass
  <1>3. /\ budget' \in 0 .. UndoBlocks /\ blocksDeleted' \in 0 .. budget'
        /\ budget' = Least(depth + blocksDeleted', UndoBlocks)
    <2>1. depth \in 0 .. UndoBlocks /\ UndoBlocks \in Nat
      BY SyncAssumption DEF IInv, TypeOK
    <2> QED
      BY <1>2, <2>1 DEF Least
  <1>11. /\ tip \in Tip /\ Height[tip] = Height[tip] + blocksDeleted'
         /\ tip = Root \/ tip \in Branch[tip]
    <2>1. tip \in Tip
      BY DEF IInv, TypeOK
    <2> QED
      BY <1>2, <2>1, BlockFacts, TipFacts DEF Tip
  <1>4. SettleOpen'
    BY <1>2, EmptyTyped DEF SettleOpen
  <1>5. Places'
    BY <1>1, <1>2, <1>3, <1>11, TypeParts DEF IInv, Places
  <1>6. TypeOK'
    BY <1>4, <1>5 DEF TypeOK, SettleOpen, Flags, Places, Queue, Reading
  <1>7. OnTip' /\ BudgetCovered'
    BY <1>2, <1>3, <1>11 DEF OnTip, BudgetCovered, InWalk
  <1>8. RefusedWaits'
    BY DEF IInv, RefusedWaits
  <1>9. LackedNow'
    BY <1>1, <1>2 DEF IInv, LackedNow, InPass, Lacks
  <1>10. WalkTipLacked'
    <2> SUFFICES ASSUME from # NoTip, NEW b \in Block, Height[b] > from PROVE b \in lacked
      BY <1>2 DEF WalkTipLacked
    <2>1. nodeTip \in Block /\ status = "ok" /\ Height[b] > Height[nodeTip]
      BY DEF IInv, TypeOK
    <2>2. b \in Lacks(nodeTip, "ok")
      BY <2>1, LacksFacts
    <2> QED
      BY <2>1, <2>2 DEF IInv, LackedNow, InPass
  <1> QED
    BY <1>4, <1>6, <1>7, <1>8, <1>9, <1>10 DEF IInv

LEMMA AtTipSwappedIInv ==
    ASSUME IInv, AtTipSwapped
    PROVE  IInv'
  <1>1. Flags'
    <2>1. Flags
      BY TypeParts DEF IInv
    <2> QED
      BY <2>1 DEF AtTipSwapped, LeaveBranch, Flags
  <1>2. infoTip \in {NoTip} \cup Nat
    BY DEF IInv, TypeOK
  <1> QED
    BY <1>1, <1>2, WalkBeginsIInv, EmptyTyped DEF AtTipSwapped, LeaveBranch, store

LEMMA FetchMismatchedIInv ==
    ASSUME IInv, NEW a \in BOOLEAN, FetchMismatched(a)
    PROVE  IInv'
  <1>1. Flags'
    <2>1. Flags
      BY TypeParts DEF IInv
    <2> QED
      BY <2>1 DEF FetchMismatched, LeaveBranch, Flags
  <1>2. infoTip \in {NoTip} \cup Nat
    BY DEF IInv, TypeOK
  <1>3. Fault \/ UNCHANGED node
    BY DEF FetchMismatched, Fetch
  <1> QED
    BY <1>1, <1>2, <1>3, WalkBeginsIInv, EmptyTyped DEF FetchMismatched, Fetch, LeaveBranch, store

LEMMA SettleBelowIInv ==
    ASSUME IInv, SettleBelow
    PROVE  IInv'
  <1>1. /\ pc = "settle" /\ status = "ok" /\ infoTip' = Height[nodeTip] /\ UNCHANGED node
        /\ UNCHANGED <<tip, depth, info, prefetch, refused, synced>>
    BY DEF SettleBelow, Usable, store
  <1>2. Flags' /\ prefetch' \in Queue
    <2>1. Flags /\ prefetch \in Queue
      BY TypeParts DEF IInv
    <2> QED
      BY <1>1, <2>1 DEF Flags
  <1>3. Height[nodeTip] \in Nat
    BY BlockFacts DEF IInv, TypeOK
  <1>4. CASE Height[tip] > Height[nodeTip]
    <2>1. Walk(Height[nodeTip], "below") /\ SamePass /\ UNCHANGED cursor
      BY <1>4 DEF SettleBelow
    <2> QED
      BY <1>1, <1>2, <1>3, <2>1, WalkBeginsIInv
  <1>5. CASE ~(Height[tip] > Height[nodeTip])
    <2>1. /\ cursor' = tip /\ settle' = NoSettle /\ pc' = "poll" /\ PassEnds
          /\ UNCHANGED <<walkTip, budget, blocksDeleted, caller, entry>>
      BY <1>5 DEF SettleBelow
    <2> QED
      BY <1>1, <1>2, <2>1, PassEndsIInv
  <1> QED
    BY <1>4, <1>5

-----------------------------------------------------------------------------
(***************************************************************************)
(* Inside a walk.                                                          *)
(***************************************************************************)

\* A block is rolled back: the walk had a rollback left, and so had the window.
LEMMA RollBackIInv ==
    ASSUME IInv, WalkAboveTip \/ WalkDiverged
    PROVE  IInv'
  <1>1. /\ pc = "walk" /\ tip \in Block /\ tip' = Parent[tip] /\ depth' = depth - 1
        /\ blocksDeleted' = blocksDeleted + 1 /\ lacked' = lacked /\ UNCHANGED node
        /\ UNCHANGED <<cursor, info, infoTip, prefetch, refused, synced, walkTip, budget, caller, entry, settle, pc>>
    BY DEF WalkAboveTip, WalkDiverged, RollBackTipBlock, SamePass, loop
  <1>2. /\ nodeTip' = nodeTip /\ status' = status /\ moves' \in 0 .. MaxMoves /\ faults' \in 0 .. MaxFaults
    BY <1>1, NodeStill DEF IInv
  <1>3. /\ depth \in 0 .. UndoBlocks /\ budget \in 0 .. UndoBlocks /\ blocksDeleted \in 0 .. budget
        /\ UndoBlocks \in Nat /\ budget = Least(depth + blocksDeleted, UndoBlocks)
    BY <1>1, SyncAssumption DEF IInv, TypeOK, BudgetCovered, InWalk
  <1>4. blocksDeleted < budget
    <2>1. CASE WalkDiverged
      BY <2>1 DEF WalkDiverged
    <2>2. CASE WalkAboveTip
      <3>1. /\ walkTip # NoTip /\ Height[tip] > walkTip
            /\ ~(blocksDeleted + (Height[tip] - walkTip) > budget)
        BY <2>2 DEF WalkAboveTip, AboveNodeTip, PastBudget
      <3>2. Height[tip] \in Int /\ walkTip \in Int
        BY <1>1, <3>1, BlockFacts DEF IInv, TypeOK, NoTip
      <3> QED
        BY <1>3, <3>1, <3>2
    <2> QED
      BY <2>1, <2>2
  <1>5. /\ depth' \in 0 .. UndoBlocks /\ blocksDeleted' \in 0 .. budget
        /\ budget = Least(depth' + blocksDeleted', UndoBlocks)
    BY <1>1, <1>3, <1>4 DEF Least
  <1>6. Parent[tip] \in Tip
    BY <1>1, BlockFacts
  <1>12. Height[entry] = Height[Parent[tip]] + blocksDeleted'
    <2>1. Height[entry] = Height[tip] + blocksDeleted
      BY <1>1 DEF IInv, BudgetCovered, InWalk
    <2>2. Height[tip] = Height[Parent[tip]] + 1 /\ Height[Parent[tip]] \in Int
      BY <1>1, <1>6, BlockFacts, TipFacts
    <2> QED
      BY <1>1, <1>3, <2>1, <2>2
  <1>13. Parent[tip] = Root \/ Parent[tip] \in Branch[entry]
    <2>1. entry \in Tip /\ tip \in Branch[entry]
      BY <1>1, BlockFacts DEF IInv, TypeOK, BudgetCovered, InWalk
    <2> QED
      BY <2>1, BranchParents
  <1>7. SettleOpen'
    BY <1>1 DEF IInv, SettleOpen
  <1>8. Places'
    BY <1>1, <1>2, <1>5, <1>6, TypeParts DEF IInv, Places
  <1>9. TypeOK'
    <2>1. Flags'
      BY <1>1 DEF IInv, TypeOK, Flags
    <2> QED
      BY <1>1, <1>7, <1>8, <2>1, TypeParts DEF IInv, TypeOK, SettleOpen, Flags, Places, Queue, Reading
  <1>10. OnTip' /\ BudgetCovered' /\ RefusedWaits'
    BY <1>1, <1>5, <1>12, <1>13 DEF IInv, OnTip, BudgetCovered, RefusedWaits, InWalk
  <1>11. LackedNow' /\ WalkTipLacked'
    BY <1>1, <1>2 DEF IInv, LackedNow, WalkTipLacked, InPass, InWalk, Lacks
  <1> QED
    BY <1>7, <1>9, <1>10, <1>11 DEF IInv

\* A walk returns, or is refused, and the loop resumes at the committed tip.
LEMMA EndWalkIInv ==
    ASSUME IInv, WalkRefuses \/ WalkAgrees
    PROVE  IInv'
  <1>1. /\ EndWalk /\ UNCHANGED node /\ UNCHANGED <<tip, depth, infoTip, prefetch, synced>>
    BY DEF WalkRefuses, WalkAgrees, store
  <1>2. /\ nodeTip' = nodeTip /\ status' = status /\ moves' \in 0 .. MaxMoves /\ faults' \in 0 .. MaxFaults
    BY <1>1, NodeStill DEF IInv
  <1>3. tip \in Tip
    BY DEF IInv, TypeOK
  <1>4. SettleOpen'
    BY <1>1, EmptyTyped DEF EndWalk, SettleOpen
  <1>5. TypeOK'
    <2>1. refused' \in BOOLEAN
      BY DEF WalkRefuses, WalkAgrees
    <2>2. Flags'
      BY <1>1, <2>1 DEF EndWalk, IInv, TypeOK, Flags
    <2>3. Places'
      BY <1>1, <1>2, <1>3, SyncAssumption, RootFacts, TypeParts DEF EndWalk, PassEnds, IInv, Places
    <2> QED
      BY <1>1, <1>4, <2>2, <2>3, TypeParts DEF IInv, TypeOK, SettleOpen, Flags, Places, Queue, Reading
  <1>6. OnTip'
    BY <1>1, <1>3, BlockFacts DEF EndWalk, OnTip, Tip
  <1>7. RefusedWaits'
    BY <1>1 DEF EndWalk, RefusedWaits, MustRefresh
  <1>8. BudgetCovered' /\ LackedNow' /\ WalkTipLacked'
    BY <1>1 DEF EndWalk, BudgetCovered, LackedNow, WalkTipLacked, InWalk, InPass
  <1> QED
    BY <1>4, <1>5, <1>6, <1>7, <1>8 DEF IInv

LEMMA WalkHaltsIInv ==
    ASSUME IInv, WalkHalts
    PROVE  IInv'
  <1>1. /\ pc = "walk" /\ pc' = "halted" /\ lacked' = {} /\ UNCHANGED node
        /\ UNCHANGED <<tip, depth, cursor, info, infoTip, prefetch, refused, walkTip, budget, blocksDeleted,
                       caller, entry, settle>>
    BY DEF WalkHalts, PassEnds, store, walking
  <1>2. /\ nodeTip' = nodeTip /\ status' = status /\ moves' \in 0 .. MaxMoves /\ faults' \in 0 .. MaxFaults
    BY <1>1, NodeStill DEF IInv
  <1>3. SettleOpen'
    BY <1>1 DEF IInv, SettleOpen
  <1>4. TypeOK'
    <2>1. Flags'
      BY DEF WalkHalts, IInv, TypeOK, Flags
    <2>2. Places'
      BY <1>1, <1>2, TypeParts DEF IInv, Places
    <2> QED
      BY <1>1, <1>3, <2>1, <2>2, TypeParts DEF IInv, TypeOK, SettleOpen, Flags, Places, Queue, Reading
  <1>5. RefusedWaits'
    BY <1>1 DEF IInv, RefusedWaits
  <1>6. OnTip' /\ BudgetCovered' /\ LackedNow' /\ WalkTipLacked'
    BY <1>1 DEF OnTip, BudgetCovered, LackedNow, WalkTipLacked, InWalk, InPass
  <1> QED
    BY <1>3, <1>4, <1>5, <1>6 DEF IInv

(***************************************************************************)
(* A reading within a walk or before one: the tip the walk goes by changes *)
(* only to the height of a node that can be believed.                      *)
(***************************************************************************)
LEMMA ReadingIInv ==
    ASSUME IInv, pc \in {"settle", "walk", "walkread", "walksettle"},
           pc' = pc \/ (pc # "settle" /\ pc' \in {"walk", "walkread", "walksettle"}),
           Fault \/ UNCHANGED node, SamePass,
           UNCHANGED <<store, loop, budget, blocksDeleted, caller, entry>>,
           walkTip' = walkTip \/ (status = "ok" /\ walkTip' = Height[nodeTip]),
           SettleOpen'
    PROVE  IInv'
  <1>1. /\ nodeTip' = nodeTip /\ status' = status /\ moves' \in 0 .. MaxMoves /\ faults' \in 0 .. MaxFaults
    BY NodeStill DEF IInv
  <1>2. /\ lacked' = lacked /\ UNCHANGED <<tip, depth, cursor, info, infoTip, prefetch, refused, synced>>
    BY DEF SamePass, store, loop
  <1>3. nodeTip \in Block /\ Height[nodeTip] \in Nat
    BY BlockFacts DEF IInv, TypeOK
  <1>4. pc' \in {"settle", "walk", "walkread", "walksettle"} /\ (pc = "settle" <=> pc' = "settle")
    OBVIOUS
  <1>5. TypeOK'
    <2>1. Flags'
      BY <1>2 DEF IInv, TypeOK, Flags
    <2>2. walkTip' \in {NoTip} \cup Nat
      BY <1>3 DEF IInv, TypeOK
    <2>3. Places'
      BY <1>1, <1>2, <1>4, <2>2, TypeParts DEF IInv, Places
    <2> QED
      BY <1>2, <2>1, <2>3, TypeParts DEF IInv, TypeOK, SettleOpen, Flags, Places, Queue, Reading
  <1>6. OnTip' /\ BudgetCovered'
    BY <1>2, <1>4 DEF IInv, OnTip, BudgetCovered, InWalk
  <1>7. RefusedWaits'
    BY <1>2 DEF IInv, RefusedWaits
  <1>8. LackedNow'
    BY <1>1, <1>2 DEF IInv, LackedNow, InPass, Lacks
  <1>9. WalkTipLacked'
    <2> SUFFICES ASSUME InWalk', walkTip' # NoTip, NEW b \in Block, Height[b] > walkTip' PROVE b \in lacked
      BY <1>2 DEF WalkTipLacked
    <2>1. InWalk
      BY <1>4 DEF InWalk
    <2>2. CASE walkTip' = walkTip
      BY <2>1, <2>2 DEF IInv, WalkTipLacked
    <2>3. CASE status = "ok" /\ walkTip' = Height[nodeTip]
      <3>1. b \in Lacks(nodeTip, "ok")
        BY <1>3, <2>3, LacksFacts
      <3> QED
        BY <2>1, <2>3, <3>1 DEF IInv, LackedNow, InPass, InWalk
    <2> QED
      BY <2>2, <2>3
  <1> QED
    BY <1>5, <1>6, <1>7, <1>8, <1>9 DEF IInv

\* One more reading leaves room for another while it is neither settled nor the last.
LEMMA RereadOpen ==
    ASSUME IInv, ~Settled(Reread), ~Unsettled(Reread)
    PROVE  Reread \in Reading /\ Reread.stable < StableReads /\ Reread.reads < MaxReads
  <1> DEFINE stable == IF Height[nodeTip] = settle.previous THEN settle.stable + 1 ELSE 0
  <1>1. Reread = [previous |-> Height[nodeTip], stable |-> stable, reads |-> settle.reads + 1]
    BY DEF Reread
  <1>2. /\ settle.stable \in 0 .. StableReads /\ settle.reads \in 0 .. MaxReads
        /\ settle.stable < StableReads /\ settle.reads < MaxReads
        /\ StableReads \in Nat \ {0} /\ MaxReads \in Nat /\ Height[nodeTip] \in Nat
    BY BlockFacts, SyncAssumption DEF IInv, TypeOK, SettleOpen, Reading
  <1>3. stable \in 0 .. StableReads /\ settle.reads + 1 \in 0 .. MaxReads
    BY <1>2
  <1> HIDE DEF stable
  <1>4. Reread.stable = stable /\ Reread.reads = settle.reads + 1 /\ Reread.previous = Height[nodeTip]
    BY <1>1
  <1>5. stable # StableReads /\ ~(stable < StableReads /\ settle.reads + 1 = MaxReads)
    BY <1>4 DEF Settled, Unsettled
  <1>6. stable < StableReads /\ settle.reads + 1 < MaxReads
    BY <1>2, <1>3, <1>5
  <1> QED
    BY <1>1, <1>2, <1>3, <1>4, <1>6 DEF Reading

LEMMA ReadingStepsIInv ==
    ASSUME IInv, SettleReads \/ WalkHashMissing \/ WalkReadUnusable \/ WalkReadTip \/ WalkSettleGivesUp
                 \/ WalkSettles
    PROVE  IInv'
  <1>0. SettleOpen /\ Height[nodeTip] \in Nat
    BY BlockFacts DEF IInv, TypeOK
  <1>1. CASE SettleReads
    <2>1. SettleOpen'
      BY <1>1, RereadOpen DEF SettleReads, SettleOpen
    <2> QED
      BY <1>1, <2>1, ReadingIInv DEF SettleReads
  <1>2. CASE WalkHashMissing
    <2>1. SettleOpen'
      BY <1>0, <1>2 DEF WalkHashMissing, walking, SettleOpen
    <2> QED
      BY <1>2, <2>1, ReadingIInv DEF WalkHashMissing, walking
  <1>3. CASE WalkReadUnusable
    <2>1. SettleOpen'
      BY <1>0, <1>3 DEF WalkReadUnusable, walking, SettleOpen
    <2> QED
      BY <1>3, <2>1, ReadingIInv DEF WalkReadUnusable, walking
  <1>4. CASE WalkReadTip
    <2>1. SettleOpen'
      <3>1. settle' = settle \/ settle' = [previous |-> Height[nodeTip], stable |-> 0, reads |-> 0]
        BY <1>4 DEF WalkReadTip, NoSettle
      <3> QED
        BY <1>0, <3>1, SyncAssumption DEF SettleOpen, Reading
    <2>2. /\ walkTip' = walkTip \/ (status = "ok" /\ walkTip' = Height[nodeTip])
          /\ pc' \in {"walk", "walksettle"}
      BY <1>4 DEF WalkReadTip, Usable
    <2> QED
      BY <1>4, <2>1, <2>2, ReadingIInv DEF WalkReadTip
  <1>5. CASE WalkSettleGivesUp
    <2>1. SettleOpen'
      BY <1>5, EmptyTyped DEF WalkSettleGivesUp, SettleOpen
    <2> QED
      BY <1>5, <2>1, ReadingIInv DEF WalkSettleGivesUp
  <1>6. CASE WalkSettles
    <2>1. SettleOpen'
      BY <1>6, EmptyTyped DEF WalkSettles, SettleOpen
    <2> QED
      BY <1>6, <2>1, ReadingIInv DEF WalkSettles, Usable
  <1> QED
    BY <1>1, <1>2, <1>3, <1>4, <1>5, <1>6

-----------------------------------------------------------------------------
\* One step per family of actions.
LEMMA NextIInv == IInv /\ [Next]_vars => IInv'
  <1> SUFFICES ASSUME IInv, [Next]_vars PROVE IInv'
    OBVIOUS
  <1>1. CASE NodeNext
    BY <1>1, NodeNextIInv
  <1>2. CASE Crash \/ SettleBelowEmpty \/ WalkEmpty
    BY <1>2, ExitIInv DEF Crash, SettleBelowEmpty, WalkEmpty, store
  <1>3. CASE Start \/ RefreshFails \/ RefreshUnparseable \/ RefreshBelowWaits
    BY <1>3, IdleIInv
  <1>4. CASE RefreshReached \/ NoRefresh \/ RefreshBelow
    BY <1>4, PassBeginsIInv
  <1>5. CASE SettleGivesUp \/ SettleFindsTipBack \/ AtTipSynced \/ \E a \in BOOLEAN : FetchFails(a)
    BY <1>5, BackToPollIInv
  <1>6. CASE SettleBelow
    BY <1>6, SettleBelowIInv
  <1>7. CASE AtTipFlush
    BY <1>7, AtTipFlushIInv
  <1>8. CASE AtTipSwapped
    BY <1>8, AtTipSwappedIInv
  <1>9. ASSUME NEW a \in BOOLEAN, FetchMismatched(a) PROVE IInv'
    BY <1>9, FetchMismatchedIInv
  <1>10. ASSUME NEW a \in BOOLEAN, FetchStaged(a) PROVE IInv'
    BY <1>10, FetchStagedIInv
  <1>11. CASE WalkAboveTip \/ WalkDiverged
    BY <1>11, RollBackIInv
  <1>12. CASE WalkRefuses \/ WalkAgrees
    BY <1>12, EndWalkIInv
  <1>13. CASE WalkHalts
    BY <1>13, WalkHaltsIInv
  <1>14. CASE SettleReads \/ WalkHashMissing \/ WalkReadUnusable \/ WalkReadTip \/ WalkSettleGivesUp
              \/ WalkSettles
    BY <1>14, ReadingStepsIInv
  <1>15. CASE UNCHANGED vars
    <2> USE <1>15 DEF vars, node, store, loop, walking
    <2>1. TypeOK'
      BY DEF IInv, TypeOK
    <2>2. SettleOpen' /\ OnTip' /\ BudgetCovered' /\ RefusedWaits' /\ LackedNow' /\ WalkTipLacked'
      BY DEF IInv, SettleOpen, OnTip, BudgetCovered, RefusedWaits, MustRefresh, LackedNow, WalkTipLacked,
             InWalk, InPass, Lacks
    <2> QED
      BY <2>1, <2>2 DEF IInv
  <1> QED
    BY <1>1, <1>2, <1>3, <1>4, <1>5, <1>6, <1>7, <1>8, <1>9, <1>10, <1>11, <1>12, <1>13, <1>14, <1>15
       DEF Next, LoopNext, Refresh, WalkNext

LEMMA SpecIInv == Spec => []IInv
  BY InitIInv, NextIInv, PTL DEF Spec
-----------------------------------------------------------------------------
(***************************************************************************)
(* What moves the committed tip: a rollback of a walk, or a commit, which  *)
(* leaves the old tip below the new one.                                   *)
(***************************************************************************)
LEMMA TipMoves ==
    ASSUME IInv, [Next]_vars, tip' # tip
    PROVE  /\ ~refused
           /\ \/ WalkAboveTip \/ WalkDiverged
              \/ tip' \in Tip /\ (tip = Root \/ tip \in Branch[tip'])
  <1>1. CASE NodeNext
    BY <1>1 DEF NodeNext, NodeConnects, NodeDisconnects, NodeRestarts, NodeStatus, NodeMoves, store
  <1>2. CASE Crash \/ SettleBelowEmpty \/ WalkEmpty
    BY <1>2 DEF Crash, SettleBelowEmpty, WalkEmpty, store
  <1>3. CASE Start \/ RefreshFails \/ RefreshUnparseable \/ RefreshBelowWaits
    BY <1>3 DEF Start, RefreshFails, RefreshUnparseable, RefreshBelowWaits, store
  <1>4. CASE RefreshReached \/ NoRefresh \/ RefreshBelow
    BY <1>4 DEF RefreshReached, NoRefresh, RefreshBelow, store
  <1>5. CASE SettleGivesUp \/ SettleFindsTipBack \/ AtTipSynced \/ SettleBelow
    BY <1>5 DEF SettleGivesUp, SettleFindsTipBack, AtTipSynced, SettleBelow, store
  <1>6. CASE AtTipFlush
    <2>1. pc = "attip" /\ tip' = cursor
      BY <1>6 DEF AtTipFlush, Commit
    <2>2. ~refused /\ cursor \in Tip /\ (tip = Root \/ tip \in Branch[cursor])
      BY <2>1 DEF IInv, RefusedWaits, TypeOK, OnTip, InWalk
    <2> QED
      BY <2>1, <2>2
  <1>7. CASE AtTipSwapped
    BY <1>7 DEF AtTipSwapped, store
  <1>8. ASSUME NEW a \in BOOLEAN, FetchFails(a) \/ FetchMismatched(a) PROVE FALSE
    BY <1>8 DEF FetchFails, FetchMismatched, store
  <1>9. ASSUME NEW a \in BOOLEAN, FetchStaged(a)
        PROVE  ~refused /\ tip' \in Tip /\ (tip = Root \/ tip \in Branch[tip'])
    <2>1. pc = "index" /\ tip' = cursor'
      BY <1>9 DEF FetchStaged, Fetch, Commit, store
    <2>2. ~refused
      BY <2>1 DEF IInv, RefusedWaits
    <2> QED
      BY <1>9, <2>1, <2>2, StagedOnTip DEF Tip
  <1>10. CASE WalkAboveTip \/ WalkDiverged
    BY <1>10 DEF WalkAboveTip, WalkDiverged, IInv, RefusedWaits
  <1>11. CASE WalkRefuses \/ WalkAgrees \/ WalkHalts
    BY <1>11 DEF WalkRefuses, WalkAgrees, WalkHalts, store
  <1>12. CASE SettleReads \/ WalkHashMissing \/ WalkReadUnusable \/ WalkReadTip \/ WalkSettleGivesUp
              \/ WalkSettles
    BY <1>12 DEF SettleReads, WalkHashMissing, WalkReadUnusable, WalkReadTip, WalkSettleGivesUp, WalkSettles,
                 store
  <1>13. CASE UNCHANGED vars
    BY <1>13 DEF vars, store
  <1> QED
    BY <1>1, <1>2, <1>3, <1>4, <1>5, <1>6, <1>7, <1>8, <1>9, <1>10, <1>11, <1>12, <1>13
       DEF Next, LoopNext, Refresh, WalkNext

\* The durable halt is entered by WalkHalts alone.
LEMMA HaltEntered ==
    ASSUME [Next]_vars, pc # "halted", pc' = "halted"
    PROVE  WalkHalts
  <1> USE DEF store, loop, walking
  <1>1. CASE NodeNext
    BY <1>1 DEF NodeNext, NodeConnects, NodeDisconnects, NodeRestarts, NodeStatus, NodeMoves
  <1>2. CASE Crash \/ SettleBelowEmpty \/ WalkEmpty
    BY <1>2 DEF Crash, SettleBelowEmpty, WalkEmpty, Exit
  <1>3. CASE Start \/ RefreshFails \/ RefreshUnparseable \/ RefreshBelowWaits
    BY <1>3 DEF Start, RefreshFails, RefreshUnparseable, RefreshBelowWaits
  <1>4. CASE RefreshReached \/ NoRefresh \/ RefreshBelow
    BY <1>4 DEF RefreshReached, NoRefresh, RefreshBelow
  <1>5. CASE SettleGivesUp \/ SettleFindsTipBack \/ AtTipSynced \/ AtTipFlush
    BY <1>5 DEF SettleGivesUp, SettleFindsTipBack, AtTipSynced, AtTipFlush
  <1>6. CASE SettleBelow \/ AtTipSwapped
    BY <1>6 DEF SettleBelow, AtTipSwapped, Walk
  <1>7. ASSUME NEW a \in BOOLEAN, FetchFails(a) \/ FetchMismatched(a) \/ FetchStaged(a) PROVE FALSE
    BY <1>7 DEF FetchFails, FetchMismatched, FetchStaged, Walk
  <1>8. CASE WalkAboveTip \/ WalkDiverged \/ WalkRefuses \/ WalkAgrees
    BY <1>8 DEF WalkAboveTip, WalkDiverged, RollBackTipBlock, WalkRefuses, WalkAgrees, EndWalk
  <1>9. CASE SettleReads \/ WalkHashMissing \/ WalkReadUnusable \/ WalkReadTip \/ WalkSettleGivesUp
             \/ WalkSettles
    BY <1>9 DEF SettleReads, WalkHashMissing, WalkReadUnusable, WalkReadTip, WalkSettleGivesUp, WalkSettles
  <1>10. CASE UNCHANGED vars
    BY <1>10 DEF vars
  <1> QED
    BY <1>1, <1>2, <1>3, <1>4, <1>5, <1>6, <1>7, <1>8, <1>9, <1>10 DEF Next, LoopNext, Refresh, WalkNext

\* When the node names another block at the committed height, the node lacks
\* the committed one.
LEMMA DivergedLacks ==
    ASSUME IInv, tip \in Block, Diverged
    PROVE  /\ Height[nodeTip] >= Height[tip] /\ tip \notin Branch[nodeTip]
           /\ tip \in Lacks(nodeTip, status)
  <1>1. nodeTip \in Block
    BY DEF IInv, TypeOK
  <1>2. Height[tip] <= Height[nodeTip] /\ NodeHash(Height[tip]) # tip
    BY DEF Diverged, NodeHas
  <1>3. Height[tip] \in Nat /\ Height[nodeTip] \in Nat
    BY <1>1, BlockFacts
  <1> QED
    BY <1>1, <1>2, <1>3, LacksFacts

-----------------------------------------------------------------------------
\* Types; the prefetch queue stays within PREFETCH_SIZE, and a walk within its budget.
THEOREM TypeCorrect == Spec => []TypeOK
  BY SpecIInv, PTL DEF IInv

(***************************************************************************)
(* A commit never joins two branches: outside a walk the cursor of the     *)
(* sync loop is on top of the committed tip, however old the prefetched    *)
(* blocks of indexNextBlock are and wherever the node has moved.           *)
(***************************************************************************)
THEOREM CursorOnTip == Spec => []CursorExtendsTip
  <1>1. IInv => CursorExtendsTip
    BY DEF IInv, OnTip, InWalk, CursorExtendsTip
  <1> QED
    BY <1>1, SpecIInv, PTL

(***************************************************************************)
(* verifyReorg rolls a committed block back only if the node lacked it     *)
(* since the pass began: another block at its height, or a settled tip     *)
(* below it of a node that is not catching up.                             *)
(***************************************************************************)
THEOREM RollbackJustified == Spec => RollbackOnlyLacked
  <1>1. IInv /\ [Next]_vars => [tip' # tip /\ tip \in Block /\ tip' = Parent[tip] => tip \in lacked]_vars
    <2> SUFFICES ASSUME IInv, [Next]_vars, tip' # tip, tip \in Block, tip' = Parent[tip]
                 PROVE  tip \in lacked
      OBVIOUS
    <2>1. CASE WalkDiverged
      <3>1. tip \in Lacks(nodeTip, status)
        BY <2>1, DivergedLacks DEF WalkDiverged
      <3> QED
        BY <2>1, <3>1 DEF WalkDiverged, IInv, LackedNow, InPass
    <2>2. CASE WalkAboveTip
      BY <2>2 DEF WalkAboveTip, AboveNodeTip, IInv, WalkTipLacked, InWalk
    <2>3. CASE tip' \in Tip /\ (tip = Root \/ tip \in Branch[tip'])
      <3>1. Height[tip] <= Height[Parent[tip]]
        BY <2>3, NotBelowTip, BlockFacts
      <3>2. Height[tip] = Height[Parent[tip]] + 1 /\ Height[Parent[tip]] \in Int
        BY BlockFacts, TipFacts
      <3> QED
        BY <3>1, <3>2
    <2> QED
      BY <2>1, <2>2, <2>3, TipMoves
  <1> QED
    BY <1>1, SpecIInv, PTL DEF Spec, RollbackOnlyLacked

(***************************************************************************)
(* refuseRollbackPastWindow halts only for a fork the undo window cannot   *)
(* cross: the node has left our branch, and shares with the branch the     *)
(* walk began on no block as near as the window at the walk's entry.       *)
(***************************************************************************)
THEOREM HaltPastWindow == Spec => HaltOnlyPastWindow
  <1>1. ASSUME IInv, [Next]_vars, pc # "halted", pc' = "halted"
        PROVE  /\ nodeTip \notin Branch[entry]
               /\ \A b \in Branch[entry] \cap Branch[nodeTip] :
                     Height[entry] - Height[b] > Least(depth + blocksDeleted, UndoBlocks)
    <2>1. pc = "walk" /\ tip \in Block /\ Diverged /\ blocksDeleted >= budget
      BY <1>1, HaltEntered DEF WalkHalts, UnrecoverableReorg
    <2>2. /\ budget = Least(depth + blocksDeleted, UndoBlocks) /\ Height[entry] = Height[tip] + blocksDeleted
          /\ tip \in Branch[entry]
      BY <1>1, <2>1, BlockFacts DEF IInv, BudgetCovered, InWalk
    <2>3. /\ entry \in Tip /\ nodeTip \in Tip /\ nodeTip \in Block
          /\ budget \in Nat /\ blocksDeleted \in Nat
      BY <1>1, SyncAssumption DEF IInv, TypeOK, Tip
    <2>4. Height[nodeTip] >= Height[tip] /\ tip \notin Branch[nodeTip]
      BY <1>1, <2>1, DivergedLacks
    <2>5. Height[tip] \in Nat /\ Height[nodeTip] \in Nat
      BY <2>1, <2>3, BlockFacts
    <2>6. nodeTip \notin Branch[entry]
      <3> SUFFICES ASSUME nodeTip \in Branch[entry] PROVE FALSE
        OBVIOUS
      <3>1. Height[tip] <= Height[nodeTip]
        BY <2>4, <2>5
      <3>2. tip \in Branch[nodeTip]
        BY <2>2, <2>3, <3>1, BranchBelow
      <3> QED
        BY <2>4, <3>2
    <2>7. ASSUME NEW b \in Branch[entry] \cap Branch[nodeTip]
          PROVE  Height[entry] - Height[b] > Least(depth + blocksDeleted, UndoBlocks)
      <3>1. b \in Block
        BY <2>3, BranchHeights
      <3>2. Height[b] \in Nat
        BY <3>1, BlockFacts
      <3>3. ~(Height[tip] <= Height[b])
        <4> SUFFICES ASSUME Height[tip] <= Height[b] PROVE FALSE
          OBVIOUS
        <4>1. tip \in Branch[b]
          BY <2>2, <2>3, BranchBelow
        <4>2. Branch[b] \subseteq Branch[nodeTip]
          BY <2>3, BranchBelow
        <4> QED
          BY <2>4, <4>1, <4>2
      <3>4. Height[entry] - Height[b] > budget
        BY <2>1, <2>2, <2>3, <2>5, <3>2, <3>3
      <3> QED
        BY <2>2, <3>4
    <2> QED
      BY <2>6, <2>7
  <1>2. IInv /\ [Next]_vars =>
          [pc # "halted" /\ pc' = "halted" =>
             /\ nodeTip \notin Branch[entry]
             /\ \A b \in Branch[entry] \cap Branch[nodeTip] :
                   Height[entry] - Height[b] > Least(depth + blocksDeleted, UndoBlocks)]_vars
    BY <1>1
  <1> QED
    BY <1>2, SpecIInv, PTL DEF Spec, HaltOnlyPastWindow

(***************************************************************************)
(* While tipBelowCommittedTipRefused stands, nothing is committed and      *)
(* nothing rolled back.                                                    *)
(***************************************************************************)
THEOREM RefusalFreezes == Spec => RefusalHolds
  <1>1. IInv /\ [Next]_vars => [refused /\ refused' => tip' = tip]_vars
    BY TipMoves
  <1> QED
    BY <1>1, SpecIInv, PTL DEF Spec, RefusalHolds

-----------------------------------------------------------------------------
(***************************************************************************)
(* The abstraction SyncLoop makes of the store, its committed tip, moves   *)
(* as UtxoIndex allows: what readers see is the ledger of that tip.        *)
(***************************************************************************)
Index == INSTANCE UtxoIndex WITH indexedTip <- tip, utxos <- UtxoAfter(tip)

LEMMA InstanceLedger ==
    ASSUME NEW t
    PROVE  Index!UtxoAfter(t) = UtxoAfter(t)
  BY DEF Index!UtxoAfter, UtxoAfter, Index!NoRec, NoRec

\* A tip on a branch lies below the branch's end: the blocks above it close the path.
LEMMA BranchDescends ==
    ASSUME NEW t \in Tip, NEW from \in Tip, t # from, from = Root \/ from \in Branch[t]
    PROVE  t \in Block /\ Index!Descends(t, from)
  <1> DEFINE S == {b \in Branch[t] : Height[b] > Height[from]}
  <1>1. /\ Branch[t] \subseteq Block /\ \A b \in Branch[t] : Height[b] <= Height[t]
        /\ \A b, c \in Branch[t] : Height[b] = Height[c] => b = c
    BY BranchHeights
  <1>2. t \in Block
    BY RootFacts DEF Tip
  <1>3. t \in Branch[t]
    BY <1>2, BlockFacts
  <1>4. t \in S
    <2>1. Height[t] \in Nat /\ Height[from] \in Int
      BY <1>2, BlockFacts, TipFacts
    <2>2. CASE from = Root
      BY <1>3, <2>1, <2>2, RootFacts
    <2>3. CASE from \in Branch[t]
      <3>1. Height[from] <= Height[t] /\ Height[from] # Height[t]
        BY <1>1, <1>3, <2>3
      <3> QED
        BY <1>3, <2>1, <3>1
    <2> QED
      BY <2>2, <2>3
  <1>5. ASSUME NEW b \in S
        PROVE  Parent[b] \in S \cup {from}
    <2>1. b \in Block /\ Parent[b] \in Tip /\ Parent[b] \in Branch[t] \cup {Root}
      BY <1>1, BlockFacts, BranchParents
    <2>2. Height[b] \in Nat /\ Height[b] = Height[Parent[b]] + 1 /\ Height[Parent[b]] \in Int
      BY <2>1, BlockFacts, TipFacts
    <2>3. Height[from] \in Int /\ Height[from] >= -1 /\ Height[b] > Height[from]
      BY TipFacts
    <2>4. Height[Parent[b]] >= Height[from]
      BY <2>2, <2>3
    <2>5. CASE Parent[b] = Root
      <3>1. Height[from] = -1
        BY <2>3, <2>4, <2>5, RootFacts
      <3> QED
        BY <2>5, <3>1, TipFacts
    <2>6. CASE Parent[b] \in Branch[t] /\ Height[Parent[b]] # Height[from]
      BY <2>2, <2>3, <2>4, <2>6
    <2>7. CASE Parent[b] \in Branch[t] /\ Height[Parent[b]] = Height[from]
      <3>1. from # Root
        <4>1. Parent[b] # Root
          BY <1>1, <2>7, BlockFacts
        <4> QED
          BY <2>1, <2>7, <4>1, TipFacts, RootFacts
      <3> QED
        BY <1>1, <2>7, <3>1
    <2> QED
      BY <2>1, <2>5, <2>6, <2>7
  <1>6. S \in SUBSET Block
    BY <1>1
  <1> HIDE DEF S
  <1> QED
    BY <1>2, <1>4, <1>5, <1>6 DEF Index!Descends

(***************************************************************************)
(* Seen by its committed tip the sync loop implements UtxoIndex, as the    *)
(* store does: wherever the node moves, however old the prefetched blocks  *)
(* are and wherever the process crashes, a commit goes forward along one   *)
(* branch and a walk goes back one block at a time.                        *)
(***************************************************************************)
THEOREM LoopRefinesIndex == Spec => Index!IndexSpec
  <1>1. Init => Index!IndexInit
    BY InstanceLedger DEF Init, Index!IndexInit
  <1>2. IInv /\ [Next]_vars => [Index!IndexNext]_(Index!ivars)
    <2> SUFFICES ASSUME IInv, [Next]_vars
                 PROVE  [Index!IndexNext]_(Index!ivars)
      OBVIOUS
    <2>1. CASE tip' = tip
      <3>1. UtxoAfter(tip)' = UtxoAfter(tip)
        BY <2>1 DEF UtxoAfter
      <3> QED
        BY <2>1, <3>1 DEF Index!ivars
    <2>2. CASE tip' # tip
      <3>1. tip \in Tip
        BY DEF IInv, TypeOK
      <3>2. UtxoAfter(tip)' = Index!UtxoAfter(tip')
        BY InstanceLedger DEF UtxoAfter
      <3>3. CASE WalkAboveTip \/ WalkDiverged
        <4>1. tip \in Block /\ tip' = Parent[tip]
          BY <3>3 DEF WalkAboveTip, WalkDiverged, RollBackTipBlock
        <4> QED
          BY <3>2, <4>1 DEF Index!IndexNext, Index!DropTip
      <3>4. CASE tip' \in Tip /\ (tip = Root \/ tip \in Branch[tip'])
        <4>1. tip' \in Block /\ Index!Descends(tip', tip)
          BY <2>2, <3>1, <3>4, BranchDescends
        <4> QED
          BY <3>2, <4>1 DEF Index!IndexNext, Index!AppendBatch
      <3> QED
        BY <2>2, <3>3, <3>4, TipMoves
    <2> QED
      BY <2>1, <2>2
  <1> QED
    BY <1>1, <1>2, SpecIInv, PTL DEF Spec, Index!IndexSpec
=============================================================================
