------------------------ MODULE MempoolRefreshProofs ------------------------
(***************************************************************************)
(* What the mempool mirror guarantees, for any set of transactions, batch  *)
(* size and history of the node.                                           *)
(*                                                                         *)
(* The prune is the delicate step: it deletes what a listing lacks, with a *)
(* listing and a comparison of tips that both lie in the past.  That what  *)
(* it deletes was dropped, or taken out of a block again, by the node, or  *)
(* is committed, rests on two facts: no flush runs during a pass, and the  *)
(* blocks the node has kept since the listing are still on its chain, so   *)
(* tips that agree show them committed.  A rollback between the comparison *)
(* and the prune only takes blocks the node has left meanwhile.            *)
(***************************************************************************)
EXTENDS MempoolRefresh, SequenceTheorems, TLAPS

Block == [id : 1 .. MaxIds, txs : SUBSET Tx]

\* OneMempoolWriter is not inductive alone: nothing in it keeps a pass from
\* starting beside a flush whose flag was lost.
FlagIsMutex == OneMempoolWriter /\ (lpc = "commit" => mempoolBusy)

\* t is committed, in a block that is on the node's chain as well.
OnBranch(t) == \E i \in DOMAIN committed : t \in committed[i].txs /\ Shared(committed, chain, i)

\* What the pass in flight knows at each of its awaits.
PassInv ==
    /\ ppc \in {"idle", "list"} => listed = {}
    /\ ppc \in {"tips", "prune"} => rawMempool = listed
    /\ ppc = "tips" => Tx \subseteq listed \cup dropped \cup unmined \cup TxsOf(chain)
    /\ ppc = "prune" /\ mayDelete => \A t \in mempool \ (listed \cup dropped \cup unmined) : OnBranch(t)
    /\ ppc \in {"tips", "prune", "fetch", "mark"} => listed \subseteq pool \cup left
    /\ ppc = "fetch" => rawMempool \subseteq listed /\ listed \subseteq mempool \cup left \cup rawMempool
    /\ ppc = "mark" => listed \subseteq mempool \cup left

IInv == TypeOK /\ FlagIsMutex /\ PassInv

-----------------------------------------------------------------------------
LEMMA TxsOfBlocks ==
    ASSUME NEW c, NEW t
    PROVE  t \in TxsOf(c) <=> \E i \in DOMAIN c : t \in c[i].txs
BY DEF TxsOf

LEMMA BlockFacts ==
    ASSUME NEW c \in Seq(Block)
    PROVE  /\ Len(c) \in Nat /\ DOMAIN c = 1 .. Len(c)
           /\ \A i \in DOMAIN c : c[i] \in Block /\ c[i].id \in Nat /\ c[i].txs \subseteq Tx
           /\ TxsOf(c) \subseteq Tx
<1>1. Len(c) \in Nat /\ DOMAIN c = 1 .. Len(c)
  OBVIOUS
<1>2. \A i \in DOMAIN c : c[i] \in Block
  BY <1>1, ElementOfSeq
<1>3. \A b \in Block : b.id \in Nat /\ b.txs \subseteq Tx
  BY MempoolAssumption DEF Block
<1>4. TxsOf(c) \subseteq Tx
  BY <1>2, <1>3 DEF TxsOf
<1> QED
  BY <1>1, <1>2, <1>3, <1>4

LEMMA PrefixBlocks ==
    ASSUME NEW c \in Seq(Block), NEW n \in Nat, n <= Len(c)
    PROVE  /\ SubSeq(c, 1, n) \in Seq(Block) /\ Len(SubSeq(c, 1, n)) = n
           /\ \A i \in 1 .. n : SubSeq(c, 1, n)[i] = c[i]
<1>1. 1 \in Int /\ n \in Int /\ \A i \in 1 .. n : c[i] \in Block
  BY BlockFacts
<1>2. /\ SubSeq(c, 1, n) \in Seq(Block)
      /\ Len(SubSeq(c, 1, n)) = IF 1 <= n THEN n - 1 + 1 ELSE 0
      /\ \A i \in 1 .. n - 1 + 1 : SubSeq(c, 1, n)[i] = c[1 + i - 1]
  BY <1>1, SubSeqProperties
<1>3. (IF 1 <= n THEN n - 1 + 1 ELSE 0) = n /\ n - 1 + 1 = n /\ \A i \in 1 .. n : 1 + i - 1 = i
  OBVIOUS
<1> QED
  BY <1>2, <1>3

\* What two chains have in common up to a block, they have at that block.
LEMMA SharedBlocks ==
    ASSUME NEW c \in Seq(Block), NEW d, NEW i, Shared(c, d, i)
    PROVE  i \in DOMAIN c /\ i \in DOMAIN d /\ d[i] = c[i]
<1>1. i \in 1 .. Len(c) /\ Len(c) \in Nat
  BY DEF Shared
<1>2. i \in 1 .. i
  BY <1>1
<1> QED
  BY <1>2 DEF Shared

LEMMA InitIInv == Init => IInv
<1> SUFFICES ASSUME Init PROVE IInv
  OBVIOUS
<1>1. TypeOK
  <2>1. <<>> \in Seq([id : 1 .. MaxIds, txs : SUBSET Tx]) /\ 0 \in 0 .. MaxIds
    BY MempoolAssumption
  <2> QED
    BY <2>1 DEF Init, TypeOK
<1>2. FlagIsMutex /\ PassInv
  BY DEF Init, FlagIsMutex, OneMempoolWriter, PassInv
<1> QED
  BY <1>1, <1>2 DEF IInv

-----------------------------------------------------------------------------
(***************************************************************************)
(* The node.                                                               *)
(***************************************************************************)

LEMMA NodeStepIInv ==
    ASSUME IInv, NEW p \in SUBSET Tx, NEW c \in Seq(Block), NEW n \in 0 .. MaxIds, NodeStep(p, c, n)
    PROVE  IInv'
<1>1. /\ pool' = p /\ chain' = c /\ ids' = n
      /\ committed' = committed /\ batch' = batch /\ lpc' = lpc /\ synced' = synced
      /\ mempool' = mempool /\ mempoolReconverged' = mempoolReconverged
      /\ mempoolInterval' = mempoolInterval /\ mempoolBusy' = mempoolBusy
      /\ ppc' = ppc /\ rawMempool' = rawMempool /\ mayDelete' = mayDelete /\ resyncs' = resyncs
      /\ listed' = listed
  BY DEF NodeStep, loop, mirror, pass
<1>2. /\ left' = IF ppc \in {"idle", "list"} THEN left ELSE left \cup (pool \ p)
      /\ ppc \in {"tips", "prune"} => /\ dropped \subseteq dropped'
                                     /\ unmined' = unmined \cup TxsLeftBehind(chain, c)
  BY DEF NodeStep
<1>3. TypeOK'
  BY <1>1 DEF IInv, TypeOK, Block
<1>4. FlagIsMutex'
  BY <1>1 DEF IInv, FlagIsMutex, OneMempoolWriter
<1>5. ASSUME NEW t, NEW i \in DOMAIN chain, t \in chain[i].txs, ~Shared(chain, c, i)
      PROVE  t \in TxsLeftBehind(chain, c)
  BY <1>5 DEF TxsLeftBehind
<1>6. ASSUME ppc = "tips"
      PROVE  Tx \subseteq listed \cup dropped' \cup unmined' \cup TxsOf(c)
  <2> SUFFICES ASSUME NEW t \in Tx, t \in TxsOf(chain), t \notin unmined'
               PROVE  t \in TxsOf(c)
    BY <1>2, <1>6 DEF IInv, PassInv
  <2>1. PICK i \in DOMAIN chain : t \in chain[i].txs
    BY TxsOfBlocks
  <2>2. Shared(chain, c, i)
    BY <1>2, <1>5, <1>6, <2>1
  <2>3. i \in DOMAIN c /\ c[i] = chain[i]
    BY <2>2, SharedBlocks DEF IInv, TypeOK, Block
  <2> QED
    BY <2>1, <2>3, TxsOfBlocks
<1>7. ASSUME ppc = "prune", mayDelete, NEW t \in mempool \ (listed \cup dropped' \cup unmined')
      PROVE  OnBranch(t)'
  <2>1. OnBranch(t)
    BY <1>2, <1>7 DEF IInv, PassInv
  <2>2. PICK i \in DOMAIN committed : t \in committed[i].txs /\ Shared(committed, chain, i)
    BY <2>1 DEF OnBranch
  <2>3. i \in DOMAIN chain /\ chain[i] = committed[i]
    BY <2>2, SharedBlocks DEF IInv, TypeOK, Block
  <2>4. Shared(chain, c, i)
    BY <1>2, <1>5, <1>7, <2>2, <2>3
  <2>5. Shared(committed, c, i)
    BY <2>2, <2>4 DEF Shared
  <2> QED
    BY <1>1, <2>2, <2>5 DEF OnBranch
<1>8. ppc \in {"tips", "prune", "fetch", "mark"} => listed \subseteq p \cup left'
  BY <1>2 DEF IInv, PassInv
<1>9. left \subseteq left'
  BY <1>2
<1>10. PassInv'
  BY <1>1, <1>6, <1>7, <1>8, <1>9 DEF IInv, PassInv
<1> QED
  BY <1>3, <1>4, <1>10 DEF IInv

LEMMA NodeNextIInv == IInv /\ NodeNext => IInv'
<1> SUFFICES ASSUME IInv, NodeNext PROVE IInv'
  OBVIOUS
<1>1. /\ pool \in SUBSET Tx /\ chain \in Seq(Block) /\ committed \in Seq(Block)
      /\ ids \in 0 .. MaxIds /\ ids \in Nat /\ MaxIds \in Nat
  BY MempoolAssumption DEF IInv, TypeOK, Block
<1>2. ASSUME NEW n \in 1 .. MaxIds, NEW S \in SUBSET Tx
      PROVE  NewBlock(n, S) \in Block
  BY DEF NewBlock, Block
<1>3. CASE NodeAccepts
  <2>1. PICK t \in Tx \ (pool \cup TxsOf(chain)) : NodeStep(pool \cup {t}, chain, ids)
    BY <1>3 DEF NodeAccepts
  <2>2. pool \cup {t} \in SUBSET Tx
    BY <1>1
  <2> QED
    BY <1>1, <2>1, <2>2, NodeStepIInv
<1>4. CASE NodeEvicts
  <2>1. PICK t \in pool : NodeStep(pool \ {t}, chain, ids)
    BY <1>4 DEF NodeEvicts
  <2>2. pool \ {t} \in SUBSET Tx
    BY <1>1
  <2> QED
    BY <1>1, <2>1, <2>2, NodeStepIInv
<1>5. CASE NodeMines
  <2>1. PICK S \in SUBSET pool : NodeStep(pool \ S, Append(chain, NewBlock(ids + 1, S)), ids + 1)
    BY <1>5 DEF NodeMines
  <2>2. ids + 1 \in 1 .. MaxIds /\ ids + 1 \in 0 .. MaxIds
    BY <1>1, <1>5 DEF NodeMines
  <2>3. pool \ S \in SUBSET Tx /\ S \in SUBSET Tx
    BY <1>1
  <2>4. Append(chain, NewBlock(ids + 1, S)) \in Seq(Block)
    BY <1>1, <1>2, <2>2, <2>3
  <2> QED
    BY <2>1, <2>2, <2>3, <2>4, NodeStepIInv
<1>6. CASE NodeDisconnects
  <2>1. /\ chain # <<>>
        /\ NodeStep(pool \cup chain[Len(chain)].txs, SubSeq(chain, 1, Len(chain) - 1), ids)
    BY <1>6 DEF NodeDisconnects
  <2>2. chain[Len(chain)].txs \subseteq Tx
    <3>1. Len(chain) \in DOMAIN chain
      BY <1>1, <2>1
    <3> QED
      BY <1>1, <3>1, BlockFacts
  <2>3. pool \cup chain[Len(chain)].txs \in SUBSET Tx
    BY <1>1, <2>2
  <2>4. SubSeq(chain, 1, Len(chain) - 1) \in Seq(Block)
    <3>1. Len(chain) - 1 \in Nat /\ Len(chain) - 1 <= Len(chain)
      BY <1>1, <2>1
    <3> QED
      BY <1>1, <3>1, PrefixBlocks
  <2> QED
    BY <1>1, <2>1, <2>3, <2>4, NodeStepIInv
<1>7. CASE NodeReconnects
  <2>1. /\ ids < MaxIds /\ Len(chain) < Len(committed)
        /\ NodeStep(pool \ committed[Len(chain) + 1].txs, Append(chain, committed[Len(chain) + 1]), ids + 1)
    BY <1>7 DEF NodeReconnects
  <2>2. committed[Len(chain) + 1] \in Block
    <3>1. Len(chain) + 1 \in DOMAIN committed
      BY <1>1, <2>1
    <3> QED
      BY <1>1, <3>1, BlockFacts
  <2>3. Append(chain, committed[Len(chain) + 1]) \in Seq(Block)
    BY <1>1, <2>2
  <2>4. pool \ committed[Len(chain) + 1].txs \in SUBSET Tx /\ ids + 1 \in 0 .. MaxIds
    BY <1>1, <2>1
  <2> QED
    BY <2>1, <2>3, <2>4, NodeStepIInv
<1> QED
  BY <1>3, <1>4, <1>5, <1>6, <1>7 DEF NodeNext

-----------------------------------------------------------------------------
(***************************************************************************)
(* Steps that only move the flags and the two locations.                   *)
(***************************************************************************)
LEMMA FlagStepIInv ==
    ASSUME IInv,
           pool' = pool, chain' = chain, ids' = ids, committed' = committed, batch' = batch,
           mempool' = mempool, rawMempool' = rawMempool, mayDelete' = mayDelete,
           listed' = listed, dropped' = dropped, unmined' = unmined, left' = left,
           ppc' = ppc \/ (ppc = "idle" /\ ppc' = "list"),
           lpc' \in {"run", "wantbusy", "commit", "walk"}, synced' \in BOOLEAN,
           mempoolReconverged' \in BOOLEAN, mempoolInterval' \in BOOLEAN, mempoolBusy' \in BOOLEAN,
           resyncs' \in Nat, FlagIsMutex'
    PROVE  IInv'
<1>1. TypeOK'
  BY DEF IInv, TypeOK
<1>2. PassInv'
  BY DEF IInv, PassInv, OnBranch
<1> QED
  BY <1>1, <1>2 DEF IInv

\* updateMempool takes the flag when it is free, and nothing else changes.
LEMMA CallKeepsMutex ==
    ASSUME IInv, CallUpdateMempool, lpc' = lpc
    PROVE  /\ FlagIsMutex' /\ mempoolBusy' \in BOOLEAN
           /\ ppc' = ppc \/ (ppc = "idle" /\ ppc' = "list")
<1>1. mempoolBusy' = TRUE /\ FlagIsMutex
  BY DEF IInv, CallUpdateMempool
<1>2. CASE mempoolBusy
  BY <1>1, <1>2 DEF CallUpdateMempool, FlagIsMutex, OneMempoolWriter
<1>3. CASE ~mempoolBusy
  BY <1>1, <1>3 DEF CallUpdateMempool, FlagIsMutex, OneMempoolWriter
<1> QED
  BY <1>2, <1>3

LEMMA FlagsIInv ==
    ASSUME IInv,
           \/ TimerTick \/ ResyncRuns \/ AtChainTip \/ FallBehind \/ NodeUnparseable \/ NodeBelow
           \/ FlushTakesBusy \/ WalkStarts \/ WalkEnds
    PROVE  IInv'
<1>1. /\ synced \in BOOLEAN /\ mempoolReconverged \in BOOLEAN /\ mempoolInterval \in BOOLEAN
      /\ mempoolBusy \in BOOLEAN /\ resyncs \in Nat /\ lpc \in {"run", "wantbusy", "commit", "walk"}
  BY DEF IInv, TypeOK
<1>2. CASE TimerTick
  BY <1>1, <1>2, CallKeepsMutex, FlagStepIInv DEF TimerTick, node, loop, ghosts, listing, Withdraw
<1>3. CASE ResyncRuns
  <2>1. resyncs' \in Nat
    BY <1>1, <1>3 DEF ResyncRuns
  <2> QED
    BY <1>1, <1>3, <2>1, CallKeepsMutex, FlagStepIInv DEF ResyncRuns, node, loop, ghosts, listing, Withdraw
<1>4. CASE AtChainTip
  <2>1. CASE mempoolInterval
    <3>1. FlagIsMutex'
      BY <1>4, <2>1 DEF AtChainTip, IInv, FlagIsMutex, OneMempoolWriter
    <3> QED
      BY <1>1, <1>4, <2>1, <3>1, FlagStepIInv DEF AtChainTip, node, listing
  <2>2. CASE ~mempoolInterval
    <3>1. CallUpdateMempool /\ mempoolInterval' = TRUE /\ lpc' = lpc
      BY <1>4, <2>2 DEF AtChainTip
    <3> QED
      BY <1>1, <1>4, <3>1, CallKeepsMutex, FlagStepIInv DEF AtChainTip, node, listing
  <2> QED
    BY <2>1, <2>2
<1>5. CASE FallBehind \/ NodeUnparseable \/ NodeBelow \/ WalkStarts
  <2>1. /\ ppc' = ppc /\ mempoolBusy' = mempoolBusy /\ lpc' \in {"run", "walk"} /\ lpc = "run"
        /\ pool' = pool /\ chain' = chain /\ ids' = ids /\ committed' = committed /\ batch' = batch
        /\ mempool' = mempool /\ rawMempool' = rawMempool /\ mayDelete' = mayDelete /\ resyncs' = resyncs
        /\ listed' = listed /\ dropped' = dropped /\ unmined' = unmined /\ left' = left
        /\ mempoolInterval' \in BOOLEAN /\ mempoolReconverged' \in BOOLEAN /\ synced' \in BOOLEAN
    BY <1>1, <1>5 DEF FallBehind, NodeUnparseable, NodeBelow, WalkStarts, node, mirror, pass, ghosts, listing, Withdraw
  <2>2. FlagIsMutex'
    BY <2>1 DEF IInv, FlagIsMutex, OneMempoolWriter
  <2> QED
    BY <1>1, <2>1, <2>2, FlagStepIInv
<1>6. CASE FlushTakesBusy
  <2>1. FlagIsMutex'
    BY <1>6 DEF FlushTakesBusy, BusyFree, IInv, FlagIsMutex, OneMempoolWriter, pass
  <2> QED
    BY <1>1, <1>6, <2>1, FlagStepIInv DEF FlushTakesBusy, node, pass, ghosts, listing, Withdraw
<1>7. CASE WalkEnds
  <2>1. FlagIsMutex'
    BY <1>7 DEF WalkEnds, IInv, FlagIsMutex, OneMempoolWriter
  <2>2. mempoolReconverged' \in BOOLEAN /\ resyncs' \in Nat
    <3>1. CASE mempoolInterval
      <4>1. mempoolReconverged' = FALSE
        BY <1>7, <3>1, Zenon DEF WalkEnds, Withdraw
      <4>2. resyncs' = resyncs + 1
        BY <1>7, <3>1, Zenon DEF WalkEnds, Withdraw
      <4>3. resyncs' \in Nat
        BY <1>1, <4>2
      <4> QED
        BY <4>1, <4>3
    <3>2. CASE ~mempoolInterval
      BY <1>1, <1>7, <3>2 DEF WalkEnds
    <3> QED
      BY <3>1, <3>2
  <2> QED
    BY <1>1, <1>7, <2>1, <2>2, FlagStepIInv DEF WalkEnds, node, listing
<1> QED
  BY <1>2, <1>3, <1>4, <1>5, <1>6, <1>7

-----------------------------------------------------------------------------
(***************************************************************************)
(* The pass.                                                               *)
(***************************************************************************)
LEMMA EndPassIInv ==
    ASSUME IInv, EndPass, ppc # "idle",
           UNCHANGED <<node, loop, mempool, mempoolInterval, resyncs>>, mempoolReconverged' \in BOOLEAN
    PROVE  IInv'
<1>1. /\ pool' = pool /\ chain' = chain /\ ids' = ids
      /\ committed' = committed /\ batch' = batch /\ lpc' = lpc /\ synced' = synced
      /\ mempool' = mempool /\ mempoolInterval' = mempoolInterval /\ resyncs' = resyncs
  BY DEF node, loop
<1>2. /\ mempoolBusy' = FALSE /\ ppc' = "idle" /\ rawMempool' = {} /\ mayDelete' = FALSE
      /\ listed' = {} /\ dropped' = {} /\ left' = {}
  BY DEF EndPass
<1>3. TypeOK'
  BY <1>1, <1>2 DEF IInv, TypeOK
<1>4. FlagIsMutex' /\ PassInv'
  BY <1>1, <1>2 DEF IInv, FlagIsMutex, OneMempoolWriter, PassInv
<1> QED
  BY <1>3, <1>4 DEF IInv

LEMMA ListIInv == IInv /\ List => IInv'
<1> SUFFICES ASSUME IInv, List PROVE IInv'
  OBVIOUS
<1>1. /\ pool' = pool /\ chain' = chain /\ ids' = ids
      /\ committed' = committed /\ batch' = batch /\ lpc' = lpc /\ synced' = synced
      /\ mempool' = mempool /\ mempoolReconverged' = mempoolReconverged
      /\ mempoolInterval' = mempoolInterval /\ mempoolBusy' = mempoolBusy
      /\ mayDelete' = mayDelete /\ resyncs' = resyncs
      /\ ppc = "list" /\ ppc' = "tips" /\ rawMempool' = pool /\ listed' = pool /\ left' = {}
      /\ dropped' = Tx \ (pool \cup TxsOf(chain))
  BY DEF List, node, loop, mirror
<1>2. TypeOK'
  BY <1>1 DEF IInv, TypeOK
<1>3. FlagIsMutex'
  BY <1>1 DEF IInv, FlagIsMutex, OneMempoolWriter
<1>4. PassInv'
  BY <1>1 DEF IInv, PassInv
<1> QED
  BY <1>2, <1>3, <1>4 DEF IInv

\* Tips that agree say that every block on the node's chain is committed, so
\* what is mirrored and in a block is visible without the mirror.
LEMMA AgreedTipsExplain ==
    ASSUME IInv, ppc = "tips", TipsAgree
    PROVE  \A t \in mempool \ (listed \cup dropped \cup unmined) : OnBranch(t)
<1> SUFFICES ASSUME NEW t \in mempool \ (listed \cup dropped \cup unmined) PROVE OnBranch(t)
  OBVIOUS
<1>1. committed = chain
  BY DEF TipsAgree
<1>2. t \in TxsOf(chain)
  BY DEF IInv, TypeOK, PassInv
<1>3. PICK i \in DOMAIN chain : t \in chain[i].txs
  BY <1>2, TxsOfBlocks
<1> QED
  BY <1>1, <1>3 DEF OnBranch, Shared

LEMMA ReadTipsIInv == IInv /\ ReadTips => IInv'
<1> SUFFICES ASSUME IInv, ReadTips PROVE IInv'
  OBVIOUS
<1>1. /\ pool' = pool /\ chain' = chain /\ ids' = ids
      /\ committed' = committed /\ batch' = batch /\ lpc' = lpc /\ synced' = synced
      /\ mempool' = mempool /\ mempoolReconverged' = mempoolReconverged
      /\ mempoolInterval' = mempoolInterval /\ mempoolBusy' = mempoolBusy
      /\ rawMempool' = rawMempool /\ resyncs' = resyncs /\ ppc = "tips" /\ ppc' = "prune"
      /\ listed' = listed /\ left' = left /\ dropped' = dropped /\ unmined' = unmined
  BY DEF ReadTips, node, loop, mirror, ghosts, listing, Withdraw
<1>2. mayDelete' \in BOOLEAN /\ (mayDelete' => TipsAgree)
  BY DEF ReadTips, TipsAgree
<1>3. TypeOK'
  BY <1>1, <1>2 DEF IInv, TypeOK
<1>4. FlagIsMutex'
  BY <1>1 DEF IInv, FlagIsMutex, OneMempoolWriter
<1>5. mayDelete' => \A t \in mempool \ (listed \cup dropped \cup unmined) : OnBranch(t)
  BY <1>1, <1>2, AgreedTipsExplain
<1>6. PassInv'
  BY <1>1, <1>2, <1>5 DEF IInv, PassInv, OnBranch
<1> QED
  BY <1>3, <1>4, <1>6 DEF IInv

LEMMA PruneIInv == IInv /\ Prune => IInv'
<1> SUFFICES ASSUME IInv, Prune PROVE IInv'
  OBVIOUS
<1>1. /\ pool' = pool /\ chain' = chain /\ ids' = ids
      /\ committed' = committed /\ batch' = batch /\ lpc' = lpc /\ synced' = synced
      /\ mempoolInterval' = mempoolInterval /\ mempoolBusy' = mempoolBusy
      /\ mayDelete' = FALSE /\ resyncs' = resyncs /\ listed' = listed /\ left' = left
      /\ ppc = "prune" /\ rawMempool' = rawMempool \ mempool
      /\ mempool' = IF mayDelete THEN mempool \cap rawMempool ELSE mempool
      /\ ppc' = IF rawMempool' = {} THEN "mark" ELSE "fetch"
  BY DEF Prune, node, loop
<1>2. mempool' \subseteq mempool /\ mempool \cap rawMempool \subseteq mempool' /\ ppc' \in {"mark", "fetch"}
  BY <1>1
<1>3. mempoolReconverged' \in BOOLEAN
  BY DEF Prune, Withdraw, IInv, TypeOK
<1>4. TypeOK'
  BY <1>1, <1>2, <1>3 DEF IInv, TypeOK
<1>5. FlagIsMutex'
  BY <1>1, <1>2 DEF IInv, FlagIsMutex, OneMempoolWriter
<1>6. rawMempool = listed /\ listed \subseteq pool \cup left
  BY <1>1 DEF IInv, PassInv
<1>7. listed \subseteq mempool' \cup rawMempool' /\ rawMempool' \subseteq listed
  BY <1>1, <1>2, <1>6
<1>8. PassInv'
  BY <1>1, <1>2, <1>6, <1>7 DEF PassInv
<1> QED
  BY <1>4, <1>5, <1>8 DEF IInv

LEMMA FetchBatchIInv == IInv /\ FetchBatch => IInv'
<1> SUFFICES ASSUME IInv, FetchBatch PROVE IInv'
  OBVIOUS
<1>1. /\ pool' = pool /\ chain' = chain /\ ids' = ids
      /\ committed' = committed /\ batch' = batch /\ lpc' = lpc /\ synced' = synced
      /\ mempoolReconverged' = mempoolReconverged
      /\ mempoolInterval' = mempoolInterval /\ mempoolBusy' = mempoolBusy
      /\ mayDelete' = mayDelete /\ resyncs' = resyncs
      /\ listed' = listed /\ left' = left /\ dropped' = dropped /\ ppc = "fetch"
  BY DEF FetchBatch, node, loop, ghosts, listing, Withdraw
<1>2. PICK b \in SUBSET rawMempool :
         /\ \E indexed \in SUBSET (b \cap TxsOf(chain)) : mempool' = mempool \cup (b \cap pool) \cup indexed
         /\ rawMempool' = rawMempool \ b
         /\ ppc' = IF NoneMissing(b) THEN "mark" ELSE "fetch"
  BY DEF FetchBatch
<1>3. /\ mempool \cup (b \cap pool) \subseteq mempool' /\ mempool' \subseteq mempool \cup b
      /\ rawMempool' = rawMempool \ b /\ ppc' \in {"mark", "fetch"} /\ (ppc' = "mark" => rawMempool' = {})
  BY <1>2 DEF NoneMissing
<1>4. rawMempool \subseteq listed /\ listed \subseteq mempool \cup left \cup rawMempool /\ listed \subseteq pool \cup left
  BY <1>1 DEF IInv, PassInv
<1>5. TypeOK'
  BY <1>1, <1>3 DEF IInv, TypeOK
<1>6. FlagIsMutex'
  BY <1>1, <1>3 DEF IInv, FlagIsMutex, OneMempoolWriter
<1>7. listed \subseteq mempool' \cup left \cup rawMempool'
  BY <1>3, <1>4
<1>8. PassInv'
  BY <1>1, <1>3, <1>4, <1>7 DEF PassInv
<1> QED
  BY <1>5, <1>6, <1>8 DEF IInv

LEMMA PassNextIInv == IInv /\ PassNext => IInv'
<1> SUFFICES ASSUME IInv, PassNext PROVE IInv'
  OBVIOUS
<1>1. mempoolReconverged \in BOOLEAN
  BY DEF IInv, TypeOK
<1>2. CASE ListFails
  BY <1>1, <1>2, EndPassIInv DEF ListFails
<1>3. CASE MarkMempoolReconverged
  BY <1>3, EndPassIInv DEF MarkMempoolReconverged
<1>4. CASE WithdrawMempoolReadiness
  BY <1>4, EndPassIInv DEF WithdrawMempoolReadiness, Withdraw
<1> QED
  BY <1>2, <1>3, <1>4, ListIInv, ReadTipsIInv, PruneIInv, FetchBatchIInv DEF PassNext

-----------------------------------------------------------------------------
(***************************************************************************)
(* The commits and rollbacks of the sync loop.                             *)
(***************************************************************************)
LEMMA FlushStartsIInv == IInv /\ FlushStarts => IInv'
<1> SUFFICES ASSUME IInv, FlushStarts PROVE IInv'
  OBVIOUS
<1>1. /\ pool' = pool /\ chain' = chain /\ ids' = ids
      /\ committed' = committed /\ synced' = synced /\ lpc = "run" /\ lpc' = "wantbusy"
      /\ mempool' = mempool /\ mempoolReconverged' = mempoolReconverged
      /\ mempoolInterval' = mempoolInterval /\ mempoolBusy' = mempoolBusy
      /\ ppc' = ppc /\ rawMempool' = rawMempool /\ mayDelete' = mayDelete /\ resyncs' = resyncs
      /\ listed' = listed /\ left' = left /\ dropped' = dropped /\ unmined' = unmined
  BY DEF FlushStarts, node, mirror, pass, ghosts, listing
<1>2. chain \in Seq(Block) /\ committed \in Seq(Block)
  BY DEF IInv, TypeOK, Block
<1>3. PICK n \in Len(committed) + 1 .. Len(chain) : batch' = SubSeq(chain, Len(committed) + 1, n)
  BY DEF FlushStarts
<1>4. /\ Len(chain) \in Nat /\ Len(committed) \in Nat /\ n \in Int /\ Len(committed) + 1 \in Int
      /\ DOMAIN chain = 1 .. Len(chain) /\ \A i \in DOMAIN chain : chain[i] \in Block
  BY <1>2, BlockFacts
<1>5. \A i \in Len(committed) + 1 .. n : chain[i] \in Block
  BY <1>4
<1>6. batch' \in Seq(Block)
  BY <1>3, <1>4, <1>5, SubSeqProperties
<1>7. TypeOK'
  BY <1>1, <1>6 DEF IInv, TypeOK, Block
<1>8. FlagIsMutex' /\ PassInv'
  BY <1>1 DEF IInv, FlagIsMutex, OneMempoolWriter, PassInv, OnBranch
<1> QED
  BY <1>7, <1>8 DEF IInv

\* The blocks after a commit, old and new.
LEMMA CommittedBlocks ==
    ASSUME NEW c \in Seq(Block), NEW d \in Seq(Block)
    PROVE  /\ c \o d \in Seq(Block) /\ Len(c \o d) = Len(c) + Len(d)
           /\ TxsOf(c \o d) = TxsOf(c) \cup TxsOf(d)
<1>1. /\ Len(c) \in Nat /\ Len(d) \in Nat /\ DOMAIN c = 1 .. Len(c) /\ DOMAIN d = 1 .. Len(d)
      /\ c \o d \in Seq(Block) /\ Len(c \o d) = Len(c) + Len(d) /\ DOMAIN (c \o d) = 1 .. Len(c) + Len(d)
  OBVIOUS
<1>2. \A i \in 1 .. Len(c) + Len(d) : (c \o d)[i] = IF i <= Len(c) THEN c[i] ELSE d[i - Len(c)]
  BY ConcatProperties
<1>3. \A i \in DOMAIN (c \o d) : \/ i \in DOMAIN c /\ (c \o d)[i] = c[i]
                                 \/ i - Len(c) \in DOMAIN d /\ (c \o d)[i] = d[i - Len(c)]
  BY <1>1, <1>2
<1>5. ASSUME NEW t \in TxsOf(c) \cup TxsOf(d)
      PROVE  t \in TxsOf(c \o d)
  <2>1. CASE t \in TxsOf(c)
    <3>1. PICK i \in DOMAIN c : t \in c[i].txs
      BY <2>1, TxsOfBlocks
    <3>2. i \in DOMAIN (c \o d) /\ (c \o d)[i] = c[i]
      BY <1>1, <1>2
    <3> QED
      BY <3>1, <3>2, TxsOfBlocks
  <2>2. CASE t \in TxsOf(d)
    <3>1. PICK i \in DOMAIN d : t \in d[i].txs
      BY <2>2, TxsOfBlocks
    <3>2. Len(c) + i \in DOMAIN (c \o d) /\ (c \o d)[Len(c) + i] = d[i]
      BY <1>1, <1>2
    <3> QED
      BY <3>1, <3>2, TxsOfBlocks
  <2> QED
    BY <2>1, <2>2
<1>6. ASSUME NEW t \in TxsOf(c \o d)
      PROVE  t \in TxsOf(c) \cup TxsOf(d)
  BY <1>3, <1>6, TxsOfBlocks
<1> QED
  BY <1>1, <1>5, <1>6

LEMMA FlushCommitsIInv == IInv /\ FlushCommits => IInv'
<1> SUFFICES ASSUME IInv, FlushCommits PROVE IInv'
  OBVIOUS
<1>1. /\ pool' = pool /\ chain' = chain /\ ids' = ids
      /\ committed' = committed \o batch /\ batch' = <<>> /\ synced' = synced /\ lpc = "commit" /\ lpc' = "run"
      /\ mempool' = mempool \ TxsOf(batch) /\ mempoolReconverged' = mempoolReconverged
      /\ mempoolInterval' = mempoolInterval /\ mempoolBusy' = FALSE
      /\ ppc' = ppc /\ rawMempool' = rawMempool /\ mayDelete' = mayDelete /\ resyncs' = resyncs
      /\ listed' = listed /\ left' = left /\ dropped' = dropped
  BY DEF FlushCommits, node, pass, ghosts, listing
<1>2. ppc = "idle" /\ listed = {}
  BY <1>1 DEF IInv, FlagIsMutex, OneMempoolWriter, PassInv
<1>3. committed \in Seq(Block) /\ batch \in Seq(Block) /\ <<>> \in Seq(Block)
  BY DEF IInv, TypeOK, Block
<1>4. TypeOK'
  <2>1. committed' \in Seq(Block)
    BY <1>1, <1>3, CommittedBlocks
  <2> QED
    BY <1>1, <1>3, <2>1 DEF IInv, TypeOK, Block
<1>5. FlagIsMutex' /\ PassInv'
  BY <1>1, <1>2 DEF IInv, FlagIsMutex, OneMempoolWriter, PassInv
<1> QED
  BY <1>4, <1>5 DEF IInv

LEMMA WalkRollsBackIInv == IInv /\ WalkRollsBack => IInv' /\ Len(committed') < Len(committed)
<1> SUFFICES ASSUME IInv, WalkRollsBack PROVE IInv' /\ Len(committed') < Len(committed)
  OBVIOUS
<1>1. /\ pool' = pool /\ chain' = chain /\ ids' = ids /\ batch' = batch /\ lpc' = lpc /\ synced' = synced
      /\ committed' = SubSeq(committed, 1, Len(committed) - 1) /\ lpc = "walk"
      /\ mempool' = mempool /\ mempoolReconverged' = mempoolReconverged
      /\ mempoolInterval' = mempoolInterval /\ mempoolBusy' = mempoolBusy
      /\ ppc' = ppc /\ rawMempool' = rawMempool /\ mayDelete' = mayDelete /\ resyncs' = resyncs
      /\ listed' = listed /\ left' = left /\ dropped' = dropped /\ unmined' = unmined
  BY DEF WalkRollsBack, node, mirror, pass
<1>2. chain \in Seq(Block) /\ committed \in Seq(Block) /\ batch \in Seq(Block)
  BY DEF IInv, TypeOK, Block
<1>3. Len(chain) \in Nat /\ Len(committed) \in Nat /\ Len(batch) \in Nat /\ DOMAIN committed = 1 .. Len(committed)
  BY <1>2, BlockFacts
<1>4. Len(committed) > 0
  <2> SUFFICES ASSUME Len(committed) = 0 PROVE FALSE
    BY <1>3
  <2>1. committed = <<>> /\ SubSeq(chain, 1, 0) = <<>>
    BY <1>2, SubSeqEmpty
  <2>2. IsPrefixOf(committed, chain)
    BY <1>3, <2>1 DEF IsPrefixOf
  <2> QED
    BY <2>2 DEF WalkRollsBack
<1>5. /\ committed' \in Seq(Block) /\ Len(committed') = Len(committed) - 1
      /\ \A i \in 1 .. Len(committed) - 1 : committed'[i] = committed[i]
  <2>1. Len(committed) - 1 \in Nat /\ Len(committed) - 1 <= Len(committed)
    BY <1>3, <1>4
  <2> QED
    BY <1>1, <1>2, <2>1, PrefixBlocks
<1>6. /\ DOMAIN committed' = 1 .. Len(committed) - 1
      /\ \A i \in DOMAIN committed' : /\ i \in DOMAIN committed /\ committed'[i] = committed[i]
                                      /\ \A j \in 1 .. i : committed'[j] = committed[j]
  <2>1. DOMAIN committed' = 1 .. Len(committed) - 1
    BY <1>5, BlockFacts
  <2>2. \A i \in 1 .. Len(committed) - 1 : /\ i \in 1 .. Len(committed)
                                           /\ \A j \in 1 .. i : j \in 1 .. Len(committed) - 1
    BY <1>3
  <2> QED
    BY <1>3, <1>5, <2>1, <2>2
<1>7. TypeOK'
  BY <1>1, <1>5 DEF IInv, TypeOK, Block
<1>8. FlagIsMutex'
  BY <1>1 DEF IInv, FlagIsMutex, OneMempoolWriter
<1>9. ASSUME NEW t, OnBranch(t)
      PROVE  OnBranch(t)'
  <2>1. PICK i \in DOMAIN committed : t \in committed[i].txs /\ Shared(committed, chain, i)
    BY <1>9 DEF OnBranch
  <2>2. i # Len(committed)
    <3> SUFFICES ASSUME i = Len(committed) PROVE FALSE
      OBVIOUS
    <3>1. Len(committed) <= Len(chain) /\ \A j \in 1 .. Len(committed) : chain[j] = committed[j]
      BY <1>2, <1>3, <2>1 DEF Shared
    <3>2. /\ SubSeq(chain, 1, Len(committed)) \in Seq(Block)
          /\ Len(SubSeq(chain, 1, Len(committed))) = Len(committed)
          /\ \A j \in 1 .. Len(committed) : SubSeq(chain, 1, Len(committed))[j] = chain[j]
      BY <1>2, <1>3, <1>4, <3>1, PrefixBlocks
    <3>3. SubSeq(chain, 1, Len(committed)) = committed
      BY <1>2, <3>1, <3>2, SeqEqual
    <3> QED
      BY <3>1, <3>3 DEF WalkRollsBack, IsPrefixOf
  <2>3. i \in 1 .. Len(committed) - 1
    BY <1>3, <2>2
  <2>4. i \in DOMAIN committed' /\ committed'[i] = committed[i] /\ \A j \in 1 .. i : committed'[j] = committed[j]
    BY <1>6, <2>3
  <2> QED
    BY <1>1, <2>1, <2>4 DEF OnBranch, Shared
<1>10. PassInv'
  BY <1>1, <1>9 DEF IInv, PassInv
<1>11. Len(committed') < Len(committed)
  BY <1>3, <1>5
<1> QED
  BY <1>7, <1>8, <1>10, <1>11 DEF IInv

LEMMA NextIInv == IInv /\ [Next]_vars => IInv'
<1> SUFFICES ASSUME IInv, [Next]_vars PROVE IInv'
  OBVIOUS
<1>1. CASE UNCHANGED vars
  <2>1. OneMempoolWriter' /\ FlagIsMutex'
    BY <1>1 DEF vars, loop, mirror, pass, IInv, FlagIsMutex, OneMempoolWriter
  <2> QED
    BY <1>1, <2>1, FlagStepIInv DEF vars, node, loop, mirror, pass, ghosts, listing, IInv, TypeOK
<1> QED
  BY <1>1, NodeNextIInv, PassNextIInv, FlagsIInv, FlushStartsIInv, FlushCommitsIInv, WalkRollsBackIInv
     DEF Next, LoopNext

LEMMA SpecIInv == Spec => []IInv
<1>1. Init => IInv
  BY InitIInv
<1>2. IInv /\ [Next]_vars => IInv'
  BY NextIInv
<1> QED
  BY <1>1, <1>2, PTL DEF Spec

-----------------------------------------------------------------------------
(***************************************************************************)
(* The theorems.                                                           *)
(***************************************************************************)

\* The state has its types and a pass leaves nothing of its listing behind.
THEOREM TypeCorrect == Spec => []TypeOK
BY SpecIInv, PTL DEF IInv

\* The busy flag is a mutex: whatever timers, resyncs after a reorganisation and
\* flushes do, a pass and a flush never both have a transaction open on mempoolDb
\* (updateMempool, commitWithMempoolCleanup).
THEOREM OneWriter == Spec => []OneMempoolWriter
BY SpecIInv, PTL DEF IInv, FlagIsMutex

\* A pass that reports success has mirrored its whole listing, except what left
\* the node's mempool meanwhile, for every batch size (updateMempool,
\* fetchAndStoreBatch, markMempoolReconverged).
THEOREM PassMirrorsListing == Spec => []ReconvergedMirrorsListing
<1>1. IInv => ReconvergedMirrorsListing
  BY DEF IInv, PassInv, ReconvergedMirrorsListing
<1> QED
  BY <1>1, SpecIInv, PTL

\* A transaction a read can see stays visible until the node drops it, takes it
\* out of a block again or its block is rolled back: neither the prune nor the
\* cleanup after a commit opens another gap, however the node's chain grows,
\* shrinks and switches (pruneMempoolStore, committedTipIsNodeTip,
\* commitWithMempoolCleanup).
THEOREM NoGap == Spec => NoVisibilityGap
<1> DEFINE NoGapStep == \A t \in Tx : Visible(t) /\ ~Visible(t)' =>
                           t \in dropped \cup unmined \/ Len(committed') < Len(committed)
<1>1. IInv /\ [Next]_vars => [NoGapStep]_vars
  <2> SUFFICES ASSUME IInv, Next, NEW t \in Tx, Visible(t), ~Visible(t)'
               PROVE  t \in dropped \cup unmined \/ Len(committed') < Len(committed)
    OBVIOUS
  <2>1. CASE WalkRollsBack
    BY <2>1, WalkRollsBackIInv
  <2>2. CASE FlushCommits
    <3>1. committed' = committed \o batch /\ mempool' = mempool \ TxsOf(batch)
      BY <2>2 DEF FlushCommits
    <3>2. committed \in Seq(Block) /\ batch \in Seq(Block)
      BY DEF IInv, TypeOK, Block
    <3>3. TxsOf(committed') = TxsOf(committed) \cup TxsOf(batch)
      BY <3>1, <3>2, CommittedBlocks
    <3> QED
      BY <3>1, <3>3 DEF Visible
  <2>3. CASE Prune
    <3>1. /\ ppc = "prune" /\ committed' = committed
          /\ mempool' = IF mayDelete THEN mempool \cap rawMempool ELSE mempool
      BY <2>3 DEF Prune, loop
    <3>2. mayDelete /\ t \in mempool /\ t \notin rawMempool
      BY <3>1 DEF Visible
    <3>3. ~OnBranch(t)
      <4> SUFFICES ASSUME OnBranch(t) PROVE FALSE
        OBVIOUS
      <4>1. t \in TxsOf(committed)
        BY TxsOfBlocks DEF OnBranch
      <4> QED
        BY <3>1, <4>1 DEF Visible
    <3> QED
      BY <3>1, <3>2, <3>3 DEF IInv, PassInv
  <2>4. CASE FetchBatch
    BY <2>4 DEF FetchBatch, loop, Visible
  <2>5. CASE NodeNext
    <3>1. mempool' = mempool /\ committed' = committed
      BY <2>5 DEF NodeNext, NodeAccepts, NodeEvicts, NodeMines, NodeDisconnects, NodeReconnects, NodeStep, loop, mirror
    <3> QED
      BY <3>1 DEF Visible
  <2>6. CASE \/ List \/ ListFails \/ ReadTips \/ MarkMempoolReconverged \/ WithdrawMempoolReadiness
             \/ AtChainTip \/ FallBehind \/ NodeUnparseable \/ NodeBelow \/ FlushStarts \/ FlushTakesBusy
             \/ WalkStarts \/ WalkEnds \/ TimerTick \/ ResyncRuns
    <3>1. mempool' = mempool /\ committed' = committed
      BY <2>6 DEF List, ListFails, ReadTips, MarkMempoolReconverged, WithdrawMempoolReadiness, AtChainTip,
                  FallBehind, NodeUnparseable, NodeBelow, FlushStarts, FlushTakesBusy, WalkStarts, WalkEnds,
                  TimerTick, ResyncRuns, loop, mirror
    <3> QED
      BY <3>1 DEF Visible
  <2> QED
    BY <2>1, <2>2, <2>3, <2>4, <2>5, <2>6 DEF Next, PassNext, LoopNext
<1> QED
  BY <1>1, SpecIInv, PTL DEF Spec, NoVisibilityGap
=============================================================================
