--------------------------- MODULE UtxoStoreProofs ---------------------------
(***************************************************************************)
(* Proofs about UtxoStore for every block tree, undo setting and batch     *)
(* size: type correctness, the exactness of the UTXO set, the completeness *)
(* of the undo records, that the store implements UtxoIndex, and, from a   *)
(* second invariant, that the undo window is an unbroken run of the branch *)
(* in which nothing is stranded and before whose end no walk halts.        *)
(* The last part is about HistoryIndex, the store with its script and      *)
(* transaction indexes.                                                    *)
(***************************************************************************)
EXTENDS HistoryIndex, FiniteSetTheorems, SequenceTheorems, WellFoundedInduction, TLAPS

(***************************************************************************)
(* The strengthening.  The UTXO set on disk is exact only because a commit *)
(* and a rollback start from exact pieces: the batch over the disk is the  *)
(* ledger of the cursor, the staged K/M records are those of the staged    *)
(* blocks, and a cached value is the one the branch gives the outpoint.    *)
(***************************************************************************)

\* Nothing is staged outside indexing.
BatchOnlyWhileIndexing ==
    pc # "index" => /\ staged = NothingStaged
                    /\ stagedUndo = NoUndo
                    /\ stagedBlocks = {}

\* The batch applied to the disk is the ledger of the cursor.
BatchIsLedgerOfCursor ==
    pc \in {"index", "cleanup"} => Overlay(outputs, staged) = UtxoAfter(cursor)

\* The staged blocks form the path from the committed tip to the cursor.
BatchIsBranch ==
    /\ pc \in {"index", "cleanup"} => cursor \in stagedBlocks \cup {tip}
    /\ stagedBlocks = {} /\ pc \in {"index", "cleanup"} => cursor = tip
    /\ \A b \in stagedBlocks : Parent[b] \in stagedBlocks \cup {tip}
    /\ \A b \in stagedBlocks : Height[b] > Height[tip] /\ Height[b] <= Height[cursor]

\* Each staged block has its undo records staged, and no other block has.
StagedUndoComplete ==
    \A b \in Block :
        stagedUndo[b] = IF b \in stagedBlocks THEN SpentFromParent(b) ELSE NoOutputs

\* What the committed branch has created, the batch creates no second time.
BatchExtendsLedger ==
    pc \in {"index", "cleanup"} =>
        /\ \A o \in Out : Born[tip][o] # NoRec => Born[cursor][o] = Born[tip][o]
        /\ \A o \in Out : staged[o] \in Nat => Born[tip][o] = NoRec

\* A cached value is the value of that outpoint on the branch, if it is on it.
CacheAgrees ==
    \A o \in Out : outputCache[o] # NoRec =>
        /\ Born[tip][o] \in {NoRec, outputCache[o]}
        /\ pc = "index" => Born[cursor][o] \in {NoRec, outputCache[o]}

\* The persisted window holds one block per height, none above the tip.
StoredIsBranch ==
    /\ \A b \in stored : Height[b] <= Height[tip]
    /\ \A b, c \in stored \cup stagedBlocks : Height[b] = Height[c] => b = c
    /\ pc = "rollback" => tip \in stored

\* The in-memory window names committed or staged blocks only.
WindowIsStored ==
    /\ pc \in {"index", "cleanup"} => Elements(lastBlocks) \subseteq stored \cup stagedBlocks
    /\ pc = "walk" => Elements(lastBlocks) \subseteq stored /\ NoRepeats(lastBlocks)
    /\ pc = "rollback" => Elements(lastBlocks) \subseteq stored \ {tip} /\ NoRepeats(lastBlocks)

\* A block outside the persisted window has no undo record left.
NoUndoOutsideWindow ==
    \A b \in Block \ stored : undo[b] = NoOutputs /\ created[b] = {}

IInv ==
    /\ TypeOK
    /\ UtxoSetIsLedgerOfTip
    /\ UndoRecordsComplete
    /\ NoUndoOutsideWindow
    /\ BatchOnlyWhileIndexing
    /\ BatchIsLedgerOfCursor
    /\ BatchIsBranch
    /\ StagedUndoComplete
    /\ BatchExtendsLedger
    /\ CacheAgrees
    /\ StoredIsBranch
    /\ WindowIsStored

-----------------------------------------------------------------------------
\* Nothing staged leaves the disk as it is.
LEMMA OverlayNothing ==
    ASSUME NEW m \in [Out -> Stored]
    PROVE  Overlay(m, NothingStaged) = m
  BY DEF Overlay, NothingStaged, Keep

\* Types of the parts of the tree and of a ledger.
LEMMA TipFacts ==
    ASSUME NEW t \in Tip
    PROVE  /\ Height[t] \in Int
           /\ Born[t] \in [Out -> Stored]
           /\ Live[t] \in SUBSET Out
           /\ UtxoAfter(t) \in [Out -> Stored]
  <1>1. Height[t] \in Int
    BY TreeAssumption
  <1>2. Born[t] \in [Out -> Stored] /\ Live[t] \in SUBSET Out
    BY LedgerAssumption
  <1>3. UtxoAfter(t) \in [Out -> Stored]
    BY <1>2 DEF UtxoAfter, Stored
  <1> QED
    BY <1>1, <1>2, <1>3

\* What the node's consensus guarantees about one block.
LEMMA BlockFacts ==
    ASSUME NEW b \in Block
    PROVE  /\ b \in Tip /\ Parent[b] \in Tip
           /\ Height[b] \in Nat /\ Height[b] = Height[Parent[b]] + 1
           /\ Creates[b] \in SUBSET Out /\ Spends[b] \in SUBSET Out
           /\ \A o \in Creates[b] : Born[Parent[b]][o] = NoRec
           /\ Spends[b] \subseteq Live[Parent[b]] \cup Creates[b]
           /\ Live[b] = (Live[Parent[b]] \cup Creates[b]) \ Spends[b]
           /\ \A o \in Out : Born[b][o] = IF o \in Creates[b] THEN Height[b]
                                                            ELSE Born[Parent[b]][o]
           /\ SpentFromParent(b) \in [Out -> Stored]
  <1>1. b \in Tip /\ Parent[b] \in Tip /\ Height[b] \in Nat /\ Height[b] = Height[Parent[b]] + 1
    BY TreeAssumption DEF Tip
  <1>2. /\ Creates[b] \in SUBSET Out /\ Spends[b] \in SUBSET Out
        /\ \A o \in Creates[b] : Born[Parent[b]][o] = NoRec
        /\ Spends[b] \subseteq Live[Parent[b]] \cup Creates[b]
        /\ Live[b] = (Live[Parent[b]] \cup Creates[b]) \ Spends[b]
        /\ Born[b] = [o \in Out |-> IF o \in Creates[b] THEN Height[b]
                                                        ELSE Born[Parent[b]][o]]
    BY LedgerAssumption
  <1>3. Born[Parent[b]] \in [Out -> Stored]
    BY <1>1, TipFacts
  <1>4. SpentFromParent(b) \in [Out -> Stored]
    BY <1>3 DEF SpentFromParent, Stored
  <1> QED
    BY <1>1, <1>2, <1>4

\* The order of the naturals, as a well-founded set of pairs.
LessThan == {p \in Nat \X Nat : p[1] < p[2]}

\* A nonempty set of naturals has a least element.
LEMMA LeastNatural ==
    ASSUME NEW S, S \subseteq Nat, S # {}
    PROVE  \E n \in S : \A m \in S : n <= m
  <1>1. OpToRel(<, Nat) = LessThan
    BY DEF OpToRel, LessThan
  <1>2. IsWellFoundedOn(LessThan, Nat)
    BY <1>1, NatLessThanWellFounded
  <1>3. PICK n \in S : \A m \in S : ~(<<m, n>> \in LessThan)
    BY <1>2, WFMin
  <1>4. ASSUME NEW m \in S PROVE n <= m
    <2>1. m \in Nat /\ n \in Nat
      OBVIOUS
    <2>2. <<m, n>> \notin LessThan
      BY <1>3
    <2>3. ~(m < n)
      BY <2>1, <2>2 DEF LessThan
    <2> QED
      BY <2>1, <2>3
  <1> QED
    BY <1>4

(***************************************************************************)
(* Induction over the block tree: a set that holds the root, and every     *)
(* block whose parent it holds, holds every tip.  Otherwise a block of     *)
(* least height would be missing, and its parent with it.                  *)
(***************************************************************************)
LEMMA TreeInduction ==
    ASSUME NEW S, Root \in S, \A b \in Block : Parent[b] \in S => b \in S
    PROVE  Tip \subseteq S
  <1> DEFINE missing == {Height[b] : b \in Block \ S}
  <1>1. \A b \in Block : Height[b] \in Nat /\ Height[b] = Height[Parent[b]] + 1 /\ Parent[b] \in Tip
    BY TreeAssumption
  <1>2. SUFFICES ASSUME NEW c \in Block \ S PROVE FALSE
    BY DEF Tip
  <1>3. missing \subseteq Nat /\ missing # {}
    BY <1>1, <1>2
  <1>4. PICK n \in missing : \A m \in missing : n <= m
    <2> HIDE DEF missing
    <2> QED
      BY <1>3, LeastNatural
  <1>5. PICK b \in Block \ S : Height[b] = n
    BY <1>4
  <1>6. Parent[b] \notin S /\ Parent[b] \in Block
    BY <1>1, <1>5 DEF Tip
  <1>7. n <= Height[Parent[b]]
    BY <1>4, <1>6
  <1> QED
    BY <1>1, <1>5, <1>6, <1>7

\* An unspent output has a creation height, no higher than the tip.
LEMMA LiveIsBorn ==
    ASSUME NEW t \in Tip, NEW o \in Live[t]
    PROVE  Born[t][o] \in Nat /\ Born[t][o] <= Height[t]
  <1> DEFINE S == {u \in Tip : \A x \in Live[u] : Born[u][x] \in Nat /\ Born[u][x] <= Height[u]}
  <1>1. Root \in S
    BY LedgerAssumption DEF Tip
  <1>2. ASSUME NEW b \in Block, Parent[b] \in S PROVE b \in S
    <2>1. /\ b \in Tip /\ Parent[b] \in Tip /\ Height[b] \in Nat /\ Height[b] = Height[Parent[b]] + 1
          /\ Live[b] = (Live[Parent[b]] \cup Creates[b]) \ Spends[b] /\ Live[b] \subseteq Out
          /\ \A x \in Out : Born[b][x] = IF x \in Creates[b] THEN Height[b] ELSE Born[Parent[b]][x]
      BY BlockFacts, TipFacts
    <2>2. Height[Parent[b]] \in Int
      BY <2>1, TipFacts
    <2>3. ASSUME NEW x \in Live[b] PROVE Born[b][x] \in Nat /\ Born[b][x] <= Height[b]
      <3>1. CASE x \in Creates[b]
        BY <2>1, <3>1
      <3>2. CASE x \notin Creates[b]
        <4>1. Born[b][x] = Born[Parent[b]][x] /\ Born[b][x] \in Nat /\ Born[b][x] <= Height[Parent[b]]
          BY <1>2, <2>1, <3>2
        <4> QED
          BY <2>1, <2>2, <4>1
      <3> QED
        BY <3>1, <3>2
    <2> QED
      BY <2>1, <2>3
  <1>3. Tip \subseteq S
    <2> HIDE DEF S
    <2> QED
      BY <1>1, <1>2, TreeInduction
  <1> QED
    BY <1>3

\* A window read back from disk is a sequence of exactly the N records.
LEMMA SortedIsSequence ==
    ASSUME NEW S, S \subseteq Block, NEW s \in SortedByHeight(S)
    PROVE  s \in Seq(Block) /\ Elements(s) = S /\ NoRepeats(s)
  <1>1. IsFiniteSet(S)
    BY TreeAssumption, FS_Subset
  <1>2. Cardinality(S) \in Nat
    BY <1>1, FS_CardinalityType
  <1> QED
    BY <1>2 DEF SortedByHeight

-----------------------------------------------------------------------------
\* The empty store satisfies the strengthening.
LEMMA InitIInv == Init => IInv
  <1> SUFFICES ASSUME Init PROVE IInv
    OBVIOUS
  <1> USE DEF Init
  <1>0. Root \in Tip /\ Live[Root] = {} /\ Born[Root] = [o \in Out |-> NoRec]
    BY LedgerAssumption DEF Tip
  <1>1. TypeOK
    BY <1>0 DEF TypeOK, NoOutputs, NoUndo, NothingStaged, Stored
  <1>2. UtxoSetIsLedgerOfTip
    BY <1>0 DEF UtxoSetIsLedgerOfTip, UtxoAfter, NoOutputs
  <1>3. UndoRecordsComplete /\ NoUndoOutsideWindow
    BY DEF UndoRecordsComplete, NoUndoOutsideWindow, NoUndo
  <1>4. BatchOnlyWhileIndexing /\ BatchIsLedgerOfCursor /\ BatchIsBranch /\ BatchExtendsLedger
    BY DEF BatchOnlyWhileIndexing, BatchIsLedgerOfCursor, BatchIsBranch, BatchExtendsLedger
  <1>5. StagedUndoComplete
    BY DEF StagedUndoComplete, NoUndo
  <1>6. CacheAgrees
    BY DEF CacheAgrees, NoOutputs
  <1>7. StoredIsBranch /\ WindowIsStored
    BY DEF StoredIsBranch, WindowIsStored
  <1> QED
    BY <1>1, <1>2, <1>3, <1>4, <1>5, <1>6, <1>7 DEF IInv

-----------------------------------------------------------------------------
(***************************************************************************)
(* Staging one block: applied to the disk, the new batch is the ledger of  *)
(* that block, and the K/M records staged for it are complete, whether an  *)
(* output was found in the batch, in the cache or on disk.                 *)
(***************************************************************************)
LEMMA StagedBlockExact ==
    ASSUME NEW b \in Block, NEW kept \in CacheSurvivors(b),
           IInv, pc = "index", Parent[b] = cursor
    PROVE  LET puts == StageCreations(b)
           IN  /\ Overlay(outputs, StageSpends(b, puts)) = UtxoAfter(b)
               /\ StageUndo(b, puts, CacheCreations(b, kept)) = SpentFromParent(b)
               /\ StageSpends(b, puts) \in [Out -> Nat \cup {Del, Keep}]
               /\ CacheCreations(b, kept) \in [Out -> Stored]
  <1> DEFINE puts == StageCreations(b)
  <1> DEFINE cache == CacheCreations(b, kept)
  <1>1. /\ tip \in Tip /\ cursor \in Tip
        /\ outputs \in [Out -> Stored] /\ outputCache \in [Out -> Stored]
        /\ staged \in [Out -> Nat \cup {Del, Keep}]
    BY DEF IInv, TypeOK
  <1>2. /\ Height[b] \in Nat /\ Height[b] = Height[cursor] + 1
        /\ Creates[b] \in SUBSET Out /\ Spends[b] \in SUBSET Out
        /\ \A o \in Creates[b] : Born[cursor][o] = NoRec
        /\ Spends[b] \subseteq Live[cursor] \cup Creates[b]
        /\ Live[b] = (Live[cursor] \cup Creates[b]) \ Spends[b]
        /\ \A o \in Out : Born[b][o] = IF o \in Creates[b] THEN Height[b] ELSE Born[cursor][o]
    BY BlockFacts
  <1>3. Height[cursor] \in Int /\ Born[cursor] \in [Out -> Stored] /\ Born[tip] \in [Out -> Stored]
    BY <1>1, TipFacts
  <1>4. /\ \A o \in Live[cursor] : Born[cursor][o] \in Nat /\ Born[cursor][o] <= Height[cursor]
        /\ \A o \in Live[tip] : Born[tip][o] \in Nat
    BY <1>1, LiveIsBorn
  <1>5. ASSUME NEW o \in Out
        PROVE  /\ Overlay(outputs, StageSpends(b, puts))[o] = UtxoAfter(b)[o]
               /\ StageUndo(b, puts, cache)[o] = SpentFromParent(b)[o]
    <2>1. (IF staged[o] = Keep THEN outputs[o] ELSE IF staged[o] = Del THEN NoRec ELSE staged[o])
             = (IF o \in Live[cursor] THEN Born[cursor][o] ELSE NoRec)
      <3>1. Overlay(outputs, staged)[o] = UtxoAfter(cursor)[o]
        BY DEF IInv, BatchIsLedgerOfCursor
      <3> QED
        BY <3>1 DEF Overlay, UtxoAfter
    <2>2. outputs[o] = IF o \in Live[tip] THEN Born[tip][o] ELSE NoRec
      BY DEF IInv, UtxoSetIsLedgerOfTip, UtxoAfter
    <2>3. /\ Born[tip][o] # NoRec => Born[cursor][o] = Born[tip][o]
          /\ staged[o] \in Nat => Born[tip][o] = NoRec
      BY DEF IInv, BatchExtendsLedger
    <2>4. outputCache[o] # NoRec => Born[cursor][o] \in {NoRec, outputCache[o]}
      BY DEF IInv, CacheAgrees
    <2>5. /\ staged[o] \in Nat \/ staged[o] = Del \/ staged[o] = Keep
          /\ outputs[o] \in Stored /\ outputCache[o] \in Stored /\ Born[cursor][o] \in Stored
      BY <1>1, <1>3
    <2>6. puts[o] = IF o \in Creates[b] THEN Height[b] ELSE staged[o]
      BY DEF StageCreations
    <2>7. StageSpends(b, puts)[o] = IF SpentInBatch(b, o, puts) THEN Keep
                                    ELSE IF SpentOnDisk(b, o, puts) THEN Del ELSE puts[o]
      BY DEF StageSpends
    <2>8. Overlay(outputs, StageSpends(b, puts))[o]
            = IF StageSpends(b, puts)[o] = Keep THEN outputs[o]
              ELSE IF StageSpends(b, puts)[o] = Del THEN NoRec ELSE StageSpends(b, puts)[o]
      BY DEF Overlay
    <2>9. UtxoAfter(b)[o] = IF o \in Live[b] THEN Born[b][o] ELSE NoRec
      BY DEF UtxoAfter
    <2>10. StageUndo(b, puts, cache)[o]
             = IF SpentInBatch(b, o, puts)
               THEN IF puts[o] < Height[b] THEN puts[o] ELSE NoRec
               ELSE IF SpentOnDisk(b, o, puts) THEN SpentValue(o, cache) ELSE NoRec
      BY DEF StageUndo
    <2>11. SpentFromParent(b)[o]
             = IF o \in Spends[b] /\ o \notin Creates[b] THEN Born[cursor][o] ELSE NoRec
      BY DEF SpentFromParent
    <2>12. cache[o] = IF o \notin kept THEN NoRec
                      ELSE IF o \in Creates[b] THEN Height[b] ELSE outputCache[o]
      BY DEF CacheCreations
    <2> HIDE DEF puts, cache
    <2>13. CASE o \in Creates[b]
      <3>1. outputs[o] = NoRec /\ o \notin Live[cursor] /\ puts[o] = Height[b]
        BY <2>13, <1>2, <1>4, <2>2, <2>3, <2>6 DEF NoRec
      <3> QED
        BY <3>1, <2>13, <1>2, <2>7, <2>8, <2>9, <2>10, <2>11
           DEF SpentInBatch, SpentOnDisk, Keep, Del, NoRec
    <2>14. CASE o \notin Creates[b] /\ o \in Spends[b]
      <3>1. o \in Live[cursor] /\ Born[cursor][o] \in Nat /\ Born[cursor][o] < Height[b]
        BY <2>14, <1>2, <1>3, <1>4
      <3>2. puts[o] = staged[o] /\ o \notin Live[b]
        BY <2>14, <2>6, <1>2
      <3>3. CASE staged[o] \in Nat
        <4>1. staged[o] = Born[cursor][o] /\ outputs[o] = NoRec
          BY <3>1, <3>3, <2>1, <2>2, <2>3, <1>4 DEF Keep, Del, NoRec
        <4> QED
          BY <4>1, <3>1, <3>2, <3>3, <2>14, <2>7, <2>8, <2>9, <2>10, <2>11
             DEF SpentInBatch, Keep
      <3>4. CASE staged[o] \notin Nat
        <4>1. staged[o] = Keep /\ outputs[o] = Born[cursor][o] /\ outputs[o] # NoRec
          BY <3>1, <3>4, <2>1, <2>5 DEF Keep, Del, NoRec
        <4>2. SpentValue(o, cache) = Born[cursor][o]
          BY <4>1, <3>1, <2>4, <2>12, <2>14 DEF SpentValue, NoRec
        <4> QED
          BY <4>1, <4>2, <3>2, <3>4, <2>14, <2>7, <2>8, <2>9, <2>10, <2>11
             DEF SpentInBatch, SpentOnDisk, Keep, Del
      <3> QED
        BY <3>3, <3>4
    <2>15. CASE o \notin Creates[b] /\ o \notin Spends[b]
      <3>1. StageSpends(b, puts)[o] = staged[o] /\ (o \in Live[b] <=> o \in Live[cursor])
        BY <2>15, <2>6, <2>7, <1>2 DEF SpentInBatch, SpentOnDisk
      <3>2. StageUndo(b, puts, cache)[o] = SpentFromParent(b)[o]
        BY <2>15, <2>10, <2>11 DEF SpentInBatch, SpentOnDisk
      <3> QED
        BY <3>1, <3>2, <2>15, <2>1, <2>8, <2>9, <1>2
    <2> QED
      BY <2>13, <2>14, <2>15
  <1>6. /\ Overlay(outputs, StageSpends(b, puts)) = UtxoAfter(b)
        /\ StageUndo(b, puts, cache) = SpentFromParent(b)
    BY <1>5 DEF Overlay, UtxoAfter, StageUndo, SpentFromParent
  <1>7. puts \in [Out -> Nat \cup {Del, Keep}]
    BY <1>1, <1>2 DEF StageCreations
  <1>8. StageSpends(b, puts) \in [Out -> Nat \cup {Del, Keep}]
    BY <1>7 DEF StageSpends
  <1>9. cache \in [Out -> Stored]
    BY <1>1, <1>2 DEF CacheCreations, Stored
  <1> QED
    BY <1>6, <1>8, <1>9

-----------------------------------------------------------------------------
(***************************************************************************)
(* Each action preserves the invariant.                                    *)
(***************************************************************************)
LEMMA StartIInv ==
    ASSUME IInv, NEW setting \in UndoSettings, Start(setting)
    PROVE  IInv'
  <1> USE DEF Start, disk, batch, walk
  <1>1. stored \subseteq Block /\ tip \in Tip /\ outputs \in [Out -> Stored]
    BY DEF IInv, TypeOK
  <1>2. lastBlocks' \in Seq(Block) /\ Elements(lastBlocks') = stored /\ NoRepeats(lastBlocks')
    BY <1>1, SortedIsSequence
  <1>3. staged = NothingStaged /\ stagedUndo = NoUndo /\ stagedBlocks = {}
    BY DEF IInv, BatchOnlyWhileIndexing
  <1>4. TypeOK'
    <2>1. view' \in {"whole", "torn"}
      BY DEF IInv, TypeOK, ReloadedView
    <2> QED
      BY <1>2, <2>1 DEF IInv, TypeOK, NoOutputs, Stored
  <1>5. UtxoSetIsLedgerOfTip' /\ UndoRecordsComplete' /\ NoUndoOutsideWindow'
    BY DEF IInv, UtxoSetIsLedgerOfTip, UndoRecordsComplete, NoUndoOutsideWindow
  <1>6. BatchOnlyWhileIndexing' /\ StagedUndoComplete'
    BY DEF IInv, BatchOnlyWhileIndexing, StagedUndoComplete
  <1>7. BatchIsLedgerOfCursor'
    <2>1. Overlay(outputs, staged) = outputs
      BY <1>1, <1>3, OverlayNothing
    <2>2. outputs = UtxoAfter(tip)
      BY DEF IInv, UtxoSetIsLedgerOfTip
    <2> QED
      BY <2>1, <2>2 DEF BatchIsLedgerOfCursor, Overlay
  <1>8. BatchIsBranch'
    BY <1>3 DEF BatchIsBranch
  <1>9. BatchExtendsLedger'
    BY <1>3 DEF BatchExtendsLedger, NothingStaged, Keep
  <1>10. CacheAgrees'
    BY DEF CacheAgrees, NoOutputs
  <1>11. StoredIsBranch'
    BY DEF IInv, StoredIsBranch
  <1>12. WindowIsStored'
    BY <1>2 DEF WindowIsStored
  <1> QED
    BY <1>4, <1>5, <1>6, <1>7, <1>8, <1>9, <1>10, <1>11, <1>12 DEF IInv

\* Losing the memory and the open batch leaves the disk exact.
LEMMA CrashIInv ==
    ASSUME IInv, Crash
    PROVE  IInv'
  <1> USE DEF Crash, disk
  <1>1. TypeOK'
    BY DEF IInv, TypeOK, NoOutputs, NoUndo, NothingStaged, Stored
  <1>2. UtxoSetIsLedgerOfTip' /\ UndoRecordsComplete' /\ NoUndoOutsideWindow'
    BY DEF IInv, UtxoSetIsLedgerOfTip, UndoRecordsComplete, NoUndoOutsideWindow
  <1>3. BatchOnlyWhileIndexing' /\ BatchIsLedgerOfCursor' /\ BatchIsBranch' /\ BatchExtendsLedger'
    BY DEF BatchOnlyWhileIndexing, BatchIsLedgerOfCursor, BatchIsBranch, BatchExtendsLedger
  <1>4. StagedUndoComplete'
    BY DEF StagedUndoComplete, NoUndo
  <1>5. CacheAgrees'
    BY DEF CacheAgrees, NoOutputs
  <1>6. StoredIsBranch' /\ WindowIsStored'
    BY DEF IInv, StoredIsBranch, WindowIsStored
  <1> QED
    BY <1>1, <1>2, <1>3, <1>4, <1>5, <1>6 DEF IInv

\* The commit turns the ledger of the cursor into that of the tip.
LEMMA FlushIInv ==
    ASSUME IInv, Flush
    PROVE  IInv'
  <1> USE DEF Flush, window, walk
  <1>1. /\ tip \in Tip /\ cursor \in Tip /\ outputs \in [Out -> Stored]
        /\ undo \in [Block -> [Out -> Stored]] /\ created \in [Block -> SUBSET Out]
        /\ stagedUndo \in [Block -> [Out -> Stored]]
        /\ stored \subseteq Block /\ stagedBlocks \subseteq Block
        /\ staged \in [Out -> Nat \cup {Del, Keep}]
    BY DEF IInv, TypeOK
  <1>2. outputs' = UtxoAfter(cursor)
    BY DEF IInv, BatchIsLedgerOfCursor
  <1>3. UtxoAfter(cursor) \in [Out -> Stored] /\ Height[cursor] \in Int /\ Height[tip] \in Int
    BY <1>1, TipFacts
  <1>4. \A b \in Block : Creates[b] \in SUBSET Out /\ SpentFromParent(b) \in [Out -> Stored] /\ Height[b] \in Nat
    BY BlockFacts
  <1>5. \A b \in stagedBlocks : b \notin stored /\ Height[b] > Height[tip] /\ Height[b] <= Height[cursor]
    BY <1>1, <1>3, <1>4 DEF IInv, BatchIsBranch, StoredIsBranch
  <1>6. cursor \in stagedBlocks \/ cursor = tip
    BY DEF IInv, BatchIsBranch
  <1>7. TypeOK'
    <2>1. outputs' \in [Out -> Stored]
      BY <1>2, <1>3
    <2>2. undo' \in [Block -> [Out -> Stored]]
      BY <1>1 DEF Merge
    <2>3. created' \in [Block -> SUBSET Out]
      BY <1>1, <1>4
    <2> QED
      BY <2>1, <2>2, <2>3 DEF IInv, TypeOK, NothingStaged, NoUndo, NoOutputs, Stored
  <1>8. UtxoSetIsLedgerOfTip'
    BY <1>2 DEF UtxoSetIsLedgerOfTip, UtxoAfter
  <1>9. ASSUME NEW b \in Block
        PROVE  /\ b \in stored \ stagedBlocks => undo'[b] = undo[b] /\ created'[b] = created[b]
               /\ b \in stagedBlocks => undo'[b] = SpentFromParent(b) /\ created'[b] = Creates[b]
               /\ b \notin stored' => undo'[b] = NoOutputs /\ created'[b] = {}
    <2>1. undo'[b] = Merge(undo[b], stagedUndo[b])
      OBVIOUS
    <2>2. stagedUndo[b] = IF b \in stagedBlocks THEN SpentFromParent(b) ELSE NoOutputs
      BY DEF IInv, StagedUndoComplete
    <2>3. b \notin stored => undo[b] = NoOutputs /\ created[b] = {}
      BY DEF IInv, NoUndoOutsideWindow
    <2>4. Merge(undo[b], NoOutputs) = undo[b]
      BY <1>1 DEF Merge, NoOutputs
    <2>5. Merge(NoOutputs, SpentFromParent(b)) = SpentFromParent(b)
      BY <1>4 DEF Merge, NoOutputs
    <2> QED
      BY <1>1, <1>5, <2>1, <2>2, <2>3, <2>4, <2>5
  <1>10. UndoRecordsComplete' /\ NoUndoOutsideWindow'
    BY <1>1, <1>9 DEF IInv, UndoRecordsComplete, NoUndoOutsideWindow, SpentFromParent
  <1>11. BatchOnlyWhileIndexing'
    BY DEF BatchOnlyWhileIndexing
  <1>12. BatchIsLedgerOfCursor'
    <2>1. Overlay(outputs', NothingStaged) = outputs'
      BY <1>2, <1>3, OverlayNothing
    <2> QED
      BY <1>2, <2>1 DEF BatchIsLedgerOfCursor
  <1>13. BatchIsBranch' /\ StagedUndoComplete'
    BY DEF BatchIsBranch, StagedUndoComplete, NoUndo
  <1>14. BatchExtendsLedger'
    BY DEF BatchExtendsLedger, NothingStaged, Keep
  <1>15. CacheAgrees'
    BY DEF IInv, CacheAgrees
  <1>16. StoredIsBranch'
    <2>1. Height[tip] <= Height[cursor]
      BY <1>1, <1>3, <1>4, <1>5, <1>6
    <2>2. \A b \in stored' : Height[b] <= Height[tip']
      BY <2>1, <1>1, <1>3, <1>4, <1>5 DEF IInv, StoredIsBranch
    <2> QED
      BY <2>2 DEF IInv, StoredIsBranch
  <1>17. WindowIsStored'
    BY DEF IInv, WindowIsStored
  <1> QED
    BY <1>7, <1>8, <1>10, <1>11, <1>12, <1>13, <1>14, <1>15, <1>16, <1>17 DEF IInv

\* addToLastBlocks keeps the window a sequence of the old blocks and the new.
LEMMA AddToLastBlocksWindow ==
    ASSUME TypeOK, NEW b \in Block, AddToLastBlocks(b)
    PROVE  /\ lastBlocks' \in Seq(Block)
           /\ Elements(lastBlocks') \subseteq Elements(lastBlocks) \cup {b}
           /\ pendingKMCleanup' \subseteq Block
  <1> DEFINE s == Append(lastBlocks, b)
  <1> DEFINE k == Excess(s)
  <1>1. lastBlocks \in Seq(Block) /\ undoBlocks \in Nat /\ pendingKMCleanup \subseteq Block
    BY WindowAssumption DEF TypeOK
  <1>2. /\ s \in Seq(Block) /\ Len(s) = Len(lastBlocks) + 1
        /\ \A i \in 1 .. Len(s) : s[i] \in Elements(lastBlocks) \cup {b} /\ s[i] \in Block
    BY <1>1 DEF Elements
  <1>3. k \in 0 .. Len(s)
    BY <1>1, <1>2 DEF Excess
  <1> HIDE DEF s, k
  <1>4. /\ SubSeq(s, k + 1, Len(s)) \in Seq(Block)
        /\ \A i \in DOMAIN SubSeq(s, k + 1, Len(s)) :
              SubSeq(s, k + 1, Len(s))[i] \in Elements(lastBlocks) \cup {b}
    BY <1>2, <1>3
  <1>5. lastBlocks' = SubSeq(s, k + 1, Len(s))
    BY DEF AddToLastBlocks, s, k
  <1>6. pendingKMCleanup' = pendingKMCleanup \cup {s[i] : i \in 1 .. k}
    BY DEF AddToLastBlocks, s, k
  <1> QED
    BY <1>1, <1>2, <1>3, <1>4, <1>5, <1>6 DEF Elements

\* stageBlock extends the batch by one block.
LEMMA StageBlockIInv ==
    ASSUME IInv, NEW b \in Block, StageBlock(b)
    PROVE  IInv'
  <1>1. /\ tip \in Tip /\ cursor \in Tip /\ outputs \in [Out -> Stored]
        /\ staged \in [Out -> Nat \cup {Del, Keep}] /\ outputCache \in [Out -> Stored]
        /\ stagedUndo \in [Block -> [Out -> Stored]]
        /\ stored \subseteq Block /\ stagedBlocks \subseteq Block
    BY DEF IInv, TypeOK
  <1>2. /\ pc = "index" /\ pc' = "index" /\ Parent[b] = cursor /\ cursor' = b
        /\ stagedBlocks' = stagedBlocks \cup {b} /\ AddToLastBlocks(b)
        /\ UNCHANGED <<outputs, undo, created, stored, blocks, tip, pendingKey>>
        /\ UNCHANGED <<undoBlocks, budget, blocksDeleted, afterWalk, reload, view>>
    BY DEF StageBlock, disk, walk
  <1>3. PICK kept \in CacheSurvivors(b) :
          LET puts  == StageCreations(b)
              cache == CacheCreations(b, kept)
          IN  /\ staged' = StageSpends(b, puts)
              /\ stagedUndo' = [stagedUndo EXCEPT ![b] = StageUndo(b, puts, cache)]
              /\ outputCache' = [o \in Out |-> IF SpentOnDisk(b, o, puts) THEN NoRec ELSE cache[o]]
    BY DEF StageBlock
  <1> DEFINE puts == StageCreations(b)
  <1> DEFINE cache == CacheCreations(b, kept)
  <1>4. /\ Overlay(outputs, StageSpends(b, puts)) = UtxoAfter(b)
        /\ StageUndo(b, puts, cache) = SpentFromParent(b)
        /\ StageSpends(b, puts) \in [Out -> Nat \cup {Del, Keep}]
        /\ cache \in [Out -> Stored]
    BY <1>2, StagedBlockExact
  <1>5. /\ b \in Tip /\ Height[b] \in Nat /\ Height[b] = Height[cursor] + 1
        /\ SpentFromParent(b) \in [Out -> Stored]
        /\ \A o \in Creates[b] : Born[cursor][o] = NoRec
        /\ \A o \in Out : Born[b][o] = IF o \in Creates[b] THEN Height[b] ELSE Born[cursor][o]
    BY <1>2, BlockFacts
  <1>6. Height[tip] \in Int /\ Height[cursor] \in Int /\ \A c \in Block : Height[c] \in Nat
    BY <1>1, TipFacts, BlockFacts
  <1>7. Height[tip] <= Height[cursor]
    BY <1>1, <1>2, <1>6 DEF IInv, BatchIsBranch
  <1>8. TypeOK'
    <2>1. lastBlocks' \in Seq(Block) /\ pendingKMCleanup' \subseteq Block
      BY <1>2, AddToLastBlocksWindow DEF IInv
    <2>2. stagedUndo' \in [Block -> [Out -> Stored]]
      BY <1>1, <1>3, <1>4, <1>5
    <2>3. outputCache' \in [Out -> Stored]
      BY <1>3, <1>4 DEF Stored
    <2>4. staged' \in [Out -> Nat \cup {Del, Keep}]
      BY <1>3, <1>4
    <2> QED
      BY <2>1, <2>2, <2>3, <2>4, <1>1, <1>2, <1>5 DEF IInv, TypeOK
  <1>9. UtxoSetIsLedgerOfTip' /\ UndoRecordsComplete' /\ NoUndoOutsideWindow'
    BY <1>2 DEF IInv, UtxoSetIsLedgerOfTip, UndoRecordsComplete, NoUndoOutsideWindow
  <1>10. BatchOnlyWhileIndexing'
    BY <1>2 DEF BatchOnlyWhileIndexing
  <1>11. BatchIsLedgerOfCursor'
    BY <1>2, <1>3, <1>4 DEF BatchIsLedgerOfCursor
  <1>12. BatchIsBranch'
    <2>1. \A c \in stagedBlocks' : Parent[c] \in stagedBlocks' \cup {tip'}
      BY <1>2 DEF IInv, BatchIsBranch
    <2>2. \A c \in stagedBlocks' : Height[c] > Height[tip'] /\ Height[c] <= Height[cursor']
      BY <1>1, <1>2, <1>5, <1>6, <1>7 DEF IInv, BatchIsBranch
    <2> QED
      BY <1>2, <2>1, <2>2 DEF BatchIsBranch
  <1>13. StagedUndoComplete'
    BY <1>1, <1>2, <1>3, <1>4 DEF IInv, StagedUndoComplete
  <1>14. BatchExtendsLedger'
    <2>1. ASSUME NEW o \in Out
          PROVE  /\ Born[tip][o] # NoRec => Born[b][o] = Born[tip][o]
                 /\ staged'[o] \in Nat => Born[tip][o] = NoRec
      <3>1. /\ Born[tip][o] # NoRec => Born[cursor][o] = Born[tip][o]
            /\ staged[o] \in Nat => Born[tip][o] = NoRec
        BY <1>2 DEF IInv, BatchExtendsLedger
      <3>2. staged'[o] \in Nat => o \in Creates[b] \/ staged[o] \in Nat
        BY <1>3 DEF StageSpends, StageCreations, Keep, Del
      <3> QED
        BY <1>5, <3>1, <3>2
    <2> QED
      BY <1>2, <2>1 DEF BatchExtendsLedger
  <1>15. CacheAgrees'
    <2>1. ASSUME NEW o \in Out, outputCache'[o] # NoRec
          PROVE  Born[tip][o] \in {NoRec, outputCache'[o]} /\ Born[b][o] \in {NoRec, outputCache'[o]}
      <3>1. outputCache'[o] = IF o \in Creates[b] THEN Height[b] ELSE outputCache[o]
        BY <1>3, <2>1 DEF CacheCreations
      <3>2. outputCache[o] # NoRec =>
              /\ Born[tip][o] \in {NoRec, outputCache[o]}
              /\ Born[cursor][o] \in {NoRec, outputCache[o]}
        BY <1>2 DEF IInv, CacheAgrees
      <3>3. Born[tip][o] # NoRec => Born[cursor][o] = Born[tip][o]
        BY <1>2 DEF IInv, BatchExtendsLedger
      <3> QED
        BY <1>5, <2>1, <3>1, <3>2, <3>3
    <2> QED
      BY <1>2, <2>1 DEF CacheAgrees
  <1>16. StoredIsBranch'
    <2>1. \A c \in stored \cup stagedBlocks : Height[c] < Height[b]
      BY <1>1, <1>5, <1>6, <1>7 DEF IInv, StoredIsBranch, BatchIsBranch
    <2> QED
      BY <1>2, <1>5, <2>1 DEF IInv, StoredIsBranch
  <1>17. WindowIsStored'
    BY <1>2, AddToLastBlocksWindow DEF IInv, WindowIsStored
  <1> QED
    BY <1>8, <1>9, <1>10, <1>11, <1>12, <1>13, <1>14, <1>15, <1>16, <1>17 DEF IInv

\* cleanupAgedBlocks removes whole blocks from the window.
LEMMA CleanupIInv ==
    ASSUME IInv, CleanupAgedBlocks
    PROVE  IInv'
  <1> USE DEF CleanupAgedBlocks, batch, walk
  <1>1. stored \subseteq Block /\ undo \in [Block -> [Out -> Stored]] /\ created \in [Block -> SUBSET Out]
    BY DEF IInv, TypeOK
  <1>2. staged = NothingStaged /\ stagedUndo = NoUndo /\ stagedBlocks = {}
    BY DEF IInv, BatchOnlyWhileIndexing
  <1>3. TypeOK'
    <2>1. undo' \in [Block -> [Out -> Stored]] /\ created' \in [Block -> SUBSET Out]
      BY <1>1 DEF NoOutputs, Stored
    <2> QED
      BY <2>1 DEF IInv, TypeOK
  <1>4. UtxoSetIsLedgerOfTip'
    BY DEF IInv, UtxoSetIsLedgerOfTip
  <1>5. UndoRecordsComplete' /\ NoUndoOutsideWindow'
    BY <1>1 DEF IInv, UndoRecordsComplete, NoUndoOutsideWindow
  <1>6. BatchOnlyWhileIndexing' /\ StagedUndoComplete'
    BY DEF IInv, BatchOnlyWhileIndexing, StagedUndoComplete
  <1>7. BatchIsLedgerOfCursor'
    BY DEF IInv, BatchIsLedgerOfCursor
  <1>8. BatchIsBranch'
    BY DEF IInv, BatchIsBranch
  <1>9. BatchExtendsLedger'
    BY DEF IInv, BatchExtendsLedger
  <1>10. CacheAgrees'
    BY <1>2 DEF IInv, CacheAgrees, BatchIsBranch
  <1>11. StoredIsBranch'
    BY DEF IInv, StoredIsBranch
  <1>12. WindowIsStored'
    BY <1>2 DEF IInv, WindowIsStored, ToClean
  <1> QED
    BY <1>3, <1>4, <1>5, <1>6, <1>7, <1>8, <1>9, <1>10, <1>11, <1>12 DEF IInv

\* Discarding the batch and reloading the window.
LEMMA DiscardAndWalkIInv ==
    ASSUME IInv, NEW persist \in BOOLEAN, NEW after \in {"index", "cleanup"},
           DiscardAndWalk(persist, after)
    PROVE  IInv'
  <1> USE DEF DiscardAndWalk
  <1>1. stored \subseteq Block /\ undoBlocks \in Nat
    BY WindowAssumption DEF IInv, TypeOK
  <1>2. lastBlocks' \in Seq(Block) /\ Elements(lastBlocks') = stored /\ NoRepeats(lastBlocks')
    BY <1>1, SortedIsSequence
  <1>3. TypeOK'
    <2>1. budget' \in Nat
      BY <1>1, <1>2 DEF RollbackBudget
    <2>2. view' \in {"whole", "torn"}
      BY DEF IInv, TypeOK, ReloadedView
    <2> QED
      BY <1>2, <2>1, <2>2 DEF IInv, TypeOK, NothingStaged, NoUndo, NoOutputs, Stored
  <1>4. UtxoSetIsLedgerOfTip' /\ UndoRecordsComplete' /\ NoUndoOutsideWindow'
    BY DEF IInv, UtxoSetIsLedgerOfTip, UndoRecordsComplete, NoUndoOutsideWindow
  <1>5. BatchOnlyWhileIndexing' /\ BatchIsLedgerOfCursor' /\ BatchIsBranch' /\ BatchExtendsLedger'
    BY DEF BatchOnlyWhileIndexing, BatchIsLedgerOfCursor, BatchIsBranch, BatchExtendsLedger
  <1>6. StagedUndoComplete'
    BY DEF StagedUndoComplete, NoUndo
  <1>7. CacheAgrees'
    BY DEF IInv, CacheAgrees
  <1>8. StoredIsBranch'
    BY DEF IInv, StoredIsBranch
  <1>9. WindowIsStored'
    BY <1>2 DEF WindowIsStored
  <1> QED
    BY <1>3, <1>4, <1>5, <1>6, <1>7, <1>8, <1>9 DEF IInv

\* Dropping the last block of a window.
LEMMA FrontFacts ==
    ASSUME NEW s \in Seq(Block), s # <<>>
    PROVE  LET front == SubSeq(s, 1, Len(s) - 1)
           IN  /\ front \in Seq(Block) /\ Len(front) = Len(s) - 1
               /\ \A i \in 1 .. Len(s) - 1 : front[i] = s[i]
  <1>1. Len(s) \in Nat /\ Len(s) >= 1
    OBVIOUS
  <1> DEFINE n == Len(s) - 1
  <1>2. n \in Int /\ 1 \in Int /\ \A i \in 1 .. n : s[i] \in Block
    BY <1>1
  <1> HIDE DEF n
  <1>3. /\ SubSeq(s, 1, n) \in Seq(Block)
        /\ Len(SubSeq(s, 1, n)) = IF 1 <= n THEN n - 1 + 1 ELSE 0
        /\ \A i \in 1 .. n - 1 + 1 : SubSeq(s, 1, n)[i] = s[1 + i - 1]
    BY <1>2, SubSeqProperties
  <1>4. n \in Nat /\ n = Len(s) - 1
    BY <1>1 DEF n
  <1>5. \A i \in 1 .. n : i \in 1 .. n - 1 + 1 /\ 1 + i - 1 = i
    BY <1>4
  <1>6. Len(SubSeq(s, 1, n)) = n
    BY <1>3, <1>4
  <1>7. \A i \in 1 .. n : SubSeq(s, 1, n)[i] = s[i]
    BY <1>3, <1>5
  <1> QED
    BY <1>3, <1>6, <1>7 DEF n

(***************************************************************************)
(* The window a rollback pops the tip from, in memory or read back: it     *)
(* ends in the tip, and all of it is on disk.                              *)
(***************************************************************************)
LEMMA PoppedWindow ==
    ASSUME IInv, StageRollback
    PROVE  \E w \in Seq(Block) :
              /\ \/ w = lastBlocks /\ tip \in Elements(lastBlocks)
                 \/ w \in SortedByHeight(stored)
              /\ w # <<>> /\ w[Len(w)] = tip /\ Elements(w) \subseteq stored /\ NoRepeats(w)
              /\ lastBlocks' = SubSeq(w, 1, Len(w) - 1)
  <1>1. lastBlocks \in Seq(Block) /\ Elements(lastBlocks) \subseteq stored /\ NoRepeats(lastBlocks)
    BY DEF IInv, TypeOK, WindowIsStored, StageRollback
  <1>2. stored \subseteq Block
    BY DEF IInv, TypeOK
  <1>3. CASE tip \in Elements(lastBlocks)
    <2>1. lastBlocks # <<>> /\ lastBlocks[Len(lastBlocks)] = tip /\ lastBlocks' = SubSeq(lastBlocks, 1, Len(lastBlocks) - 1)
      BY <1>3 DEF StageRollback
    <2> QED
      BY <1>1, <1>3, <2>1
  <1>4. CASE tip \notin Elements(lastBlocks)
    <2>1. PICK w \in SortedByHeight(stored) :
            w # <<>> /\ w[Len(w)] = tip /\ lastBlocks' = SubSeq(w, 1, Len(w) - 1)
      BY <1>4 DEF StageRollback
    <2>2. w \in Seq(Block) /\ Elements(w) = stored /\ NoRepeats(w)
      BY <1>2, SortedIsSequence
    <2> QED
      BY <2>1, <2>2
  <1> QED
    BY <1>3, <1>4

\* The tip is popped from the window before its rollback commits.
LEMMA StageRollbackIInv ==
    ASSUME IInv, StageRollback
    PROVE  IInv'
  <1>0. PICK w \in Seq(Block) :
          /\ w # <<>> /\ w[Len(w)] = tip /\ Elements(w) \subseteq stored /\ NoRepeats(w)
          /\ lastBlocks' = SubSeq(w, 1, Len(w) - 1)
    BY PoppedWindow
  <1>1. /\ disk' = disk /\ batch' = batch /\ cursor' = cursor /\ outputCache' = outputCache
        /\ pendingKMCleanup' = pendingKMCleanup /\ undoBlocks' = undoBlocks
        /\ budget' = budget /\ blocksDeleted' = blocksDeleted /\ afterWalk' = afterWalk
        /\ reload' = "ok" /\ view' = view /\ pc = "walk" /\ pc' = "rollback"
    BY DEF StageRollback
  <1>2. Len(w) \in 1 .. Len(w) /\ tip \in stored
    BY <1>0 DEF Elements
  <1>3. /\ lastBlocks' \in Seq(Block) /\ Len(lastBlocks') = Len(w) - 1
        /\ \A i \in 1 .. Len(w) - 1 : lastBlocks'[i] = w[i]
    BY <1>0, FrontFacts
  <1>9. Elements(lastBlocks') \subseteq stored \ {tip} /\ NoRepeats(lastBlocks')
    BY <1>0, <1>2, <1>3 DEF Elements, NoRepeats
  <1> USE DEF disk, batch
  <1>4. TypeOK'
    BY <1>1, <1>3 DEF IInv, TypeOK
  <1>5. UtxoSetIsLedgerOfTip' /\ UndoRecordsComplete' /\ NoUndoOutsideWindow'
    BY <1>1 DEF IInv, UtxoSetIsLedgerOfTip, UndoRecordsComplete, NoUndoOutsideWindow
  <1>6. BatchOnlyWhileIndexing' /\ BatchIsLedgerOfCursor' /\ BatchIsBranch' /\ BatchExtendsLedger'
    BY <1>1 DEF IInv, BatchOnlyWhileIndexing, BatchIsLedgerOfCursor, BatchIsBranch, BatchExtendsLedger
  <1>7. StagedUndoComplete' /\ CacheAgrees'
    BY <1>1 DEF IInv, StagedUndoComplete, CacheAgrees
  <1>8. StoredIsBranch' /\ WindowIsStored'
    BY <1>1, <1>2, <1>9 DEF IInv, StoredIsBranch, WindowIsStored
  <1> QED
    BY <1>4, <1>5, <1>6, <1>7, <1>8 DEF IInv

\* A failed rollback reads the window back, or leaves it popped.
LEMMA FailRollbackIInv ==
    ASSUME IInv, FailRollback
    PROVE  IInv'
  <1>0. /\ disk' = disk /\ batch' = batch /\ cursor' = cursor /\ outputCache' = outputCache
        /\ pendingKMCleanup' = pendingKMCleanup /\ undoBlocks' = undoBlocks
        /\ budget' = budget /\ blocksDeleted' = blocksDeleted /\ afterWalk' = afterWalk
        /\ view' = view /\ pc \in {"walk", "rollback"} /\ pc' = "walk"
    BY DEF FailRollback
  <1>1. stored \subseteq Block /\ reload \in {"ok", "failed"} /\ lastBlocks \in Seq(Block)
    BY DEF IInv, TypeOK
  <1>8. reload' \in {"ok", "failed"}
    BY <1>1 DEF FailRollback
  <1>2. lastBlocks' \in Seq(Block) /\ Elements(lastBlocks') \subseteq stored /\ NoRepeats(lastBlocks')
    <2>1. CASE lastBlocks' \in SortedByHeight(stored)
      BY <1>1, <2>1, SortedIsSequence
    <2>2. CASE lastBlocks' = lastBlocks
      BY <1>0, <1>1, <2>2 DEF IInv, WindowIsStored
    <2> QED
      BY <2>1, <2>2 DEF FailRollback
  <1> USE DEF disk, batch
  <1>3. TypeOK'
    BY <1>0, <1>2, <1>8 DEF IInv, TypeOK
  <1>4. UtxoSetIsLedgerOfTip' /\ UndoRecordsComplete' /\ NoUndoOutsideWindow'
    BY <1>0 DEF IInv, UtxoSetIsLedgerOfTip, UndoRecordsComplete, NoUndoOutsideWindow
  <1>5. BatchOnlyWhileIndexing' /\ BatchIsLedgerOfCursor' /\ BatchIsBranch' /\ BatchExtendsLedger'
    BY <1>0 DEF IInv, BatchOnlyWhileIndexing, BatchIsLedgerOfCursor, BatchIsBranch, BatchExtendsLedger
  <1>6. StagedUndoComplete' /\ CacheAgrees'
    BY <1>0 DEF IInv, StagedUndoComplete, CacheAgrees
  <1>7. StoredIsBranch' /\ WindowIsStored'
    BY <1>0, <1>2 DEF IInv, StoredIsBranch, WindowIsStored
  <1> QED
    BY <1>3, <1>4, <1>5, <1>6, <1>7 DEF IInv

\* The halt changes no record.
LEMMA HaltIInv ==
    ASSUME IInv, HaltForResync
    PROVE  IInv'
  BY DEF HaltForResync, disk, batch, window, walk, IInv, TypeOK, UtxoSetIsLedgerOfTip,
         UndoRecordsComplete, NoUndoOutsideWindow, BatchOnlyWhileIndexing, BatchIsLedgerOfCursor,
         BatchIsBranch, BatchExtendsLedger, StagedUndoComplete, CacheAgrees, StoredIsBranch,
         WindowIsStored

\* After a walk the cursor is the committed tip.
LEMMA EndWalkIInv ==
    ASSUME IInv, EndWalk
    PROVE  IInv'
  <1> USE DEF EndWalk, disk, batch, window, walk
  <1>1. tip \in Tip /\ outputs \in [Out -> Stored] /\ afterWalk \in {"index", "cleanup"}
    BY DEF IInv, TypeOK
  <1>2. staged = NothingStaged /\ stagedUndo = NoUndo /\ stagedBlocks = {}
    BY DEF IInv, BatchOnlyWhileIndexing
  <1>3. TypeOK'
    BY DEF IInv, TypeOK
  <1>4. UtxoSetIsLedgerOfTip' /\ UndoRecordsComplete' /\ NoUndoOutsideWindow'
    BY DEF IInv, UtxoSetIsLedgerOfTip, UndoRecordsComplete, NoUndoOutsideWindow
  <1>5. BatchOnlyWhileIndexing' /\ StagedUndoComplete'
    BY <1>2 DEF IInv, BatchOnlyWhileIndexing, StagedUndoComplete
  <1>6. BatchIsLedgerOfCursor'
    BY <1>1, <1>2, OverlayNothing DEF IInv, BatchIsLedgerOfCursor, UtxoSetIsLedgerOfTip
  <1>7. BatchIsBranch'
    BY <1>2 DEF BatchIsBranch
  <1>8. BatchExtendsLedger'
    BY <1>2 DEF BatchExtendsLedger, NothingStaged, Keep
  <1>9. CacheAgrees'
    BY DEF IInv, CacheAgrees
  <1>10. StoredIsBranch' /\ WindowIsStored'
    BY <1>1 DEF IInv, StoredIsBranch, WindowIsStored
  <1> QED
    BY <1>3, <1>4, <1>5, <1>6, <1>7, <1>8, <1>9, <1>10 DEF IInv

(***************************************************************************)
(* Rolling the tip back gives the ledger of its parent: K/M restore what   *)
(* the block took, W removes what it brought.                              *)
(***************************************************************************)
LEMMA RestoredExact ==
    ASSUME IInv, tip \in stored
    PROVE  Restored(tip) = UtxoAfter(Parent[tip])
  <1>1. tip \in Block /\ tip \in Tip /\ outputs \in [Out -> Stored]
    BY DEF IInv, TypeOK, Tip
  <1>2. /\ Parent[tip] \in Tip
        /\ \A o \in Creates[tip] : Born[Parent[tip]][o] = NoRec
        /\ Spends[tip] \subseteq Live[Parent[tip]] \cup Creates[tip]
        /\ Live[tip] = (Live[Parent[tip]] \cup Creates[tip]) \ Spends[tip]
        /\ \A o \in Out : Born[tip][o] = IF o \in Creates[tip] THEN Height[tip] ELSE Born[Parent[tip]][o]
    BY <1>1, BlockFacts
  <1>3. \A o \in Live[Parent[tip]] : Born[Parent[tip]][o] \in Nat
    BY <1>2, LiveIsBorn
  <1>4. undo[tip] = SpentFromParent(tip) /\ created[tip] = Creates[tip]
    BY DEF IInv, UndoRecordsComplete
  <1>5. ASSUME NEW o \in Out
        PROVE  Restored(tip)[o] = UtxoAfter(Parent[tip])[o]
    <2>1. outputs[o] = IF o \in Live[tip] THEN Born[tip][o] ELSE NoRec
      BY DEF IInv, UtxoSetIsLedgerOfTip, UtxoAfter
    <2>2. undo[tip][o] = IF o \in Spends[tip] /\ o \notin Creates[tip]
                         THEN Born[Parent[tip]][o] ELSE NoRec
      BY <1>4 DEF SpentFromParent
    <2>3. Restored(tip)[o] = IF o \in Creates[tip] THEN NoRec
                             ELSE IF undo[tip][o] # NoRec THEN undo[tip][o] ELSE outputs[o]
      BY <1>4 DEF Restored, Merge
    <2>4. UtxoAfter(Parent[tip])[o]
            = IF o \in Live[Parent[tip]] THEN Born[Parent[tip]][o] ELSE NoRec
      BY DEF UtxoAfter
    <2> QED
      BY <1>2, <1>3, <2>1, <2>2, <2>3, <2>4 DEF NoRec
  <1> QED
    BY <1>5 DEF Restored, UtxoAfter

\* The commit of a rollback moves the store to the parent.
LEMMA CommitRollbackIInv ==
    ASSUME IInv, CommitRollback
    PROVE  IInv'
  <1> USE DEF CommitRollback, batch, window
  <1>1. /\ stored \subseteq Block /\ tip \in stored /\ blocksDeleted \in Nat
        /\ undo \in [Block -> [Out -> Stored]] /\ created \in [Block -> SUBSET Out]
    BY DEF IInv, TypeOK, StoredIsBranch
  <1>2. outputs' = UtxoAfter(Parent[tip])
    BY <1>1, RestoredExact
  <1>3. /\ Parent[tip] \in Tip /\ Height[tip] = Height[Parent[tip]] + 1
        /\ \A o \in Creates[tip] : Born[Parent[tip]][o] = NoRec
        /\ \A o \in Out : Born[tip][o] = IF o \in Creates[tip] THEN Height[tip] ELSE Born[Parent[tip]][o]
    BY <1>1, BlockFacts
  <1>4. UtxoAfter(Parent[tip]) \in [Out -> Stored] /\ Height[Parent[tip]] \in Int
    BY <1>3, TipFacts
  <1>5. staged = NothingStaged /\ stagedUndo = NoUndo /\ stagedBlocks = {}
    BY DEF IInv, BatchOnlyWhileIndexing
  <1>6. TypeOK'
    <2>1. undo' \in [Block -> [Out -> Stored]] /\ created' \in [Block -> SUBSET Out]
      BY <1>1 DEF NoOutputs, Stored
    <2> QED
      BY <1>1, <1>2, <1>3, <1>4, <2>1 DEF IInv, TypeOK
  <1>7. UtxoSetIsLedgerOfTip'
    BY <1>2 DEF UtxoSetIsLedgerOfTip, UtxoAfter
  <1>8. UndoRecordsComplete' /\ NoUndoOutsideWindow'
    BY <1>1 DEF IInv, UndoRecordsComplete, NoUndoOutsideWindow
  <1>9. BatchOnlyWhileIndexing' /\ BatchIsLedgerOfCursor' /\ BatchIsBranch' /\ BatchExtendsLedger'
    BY <1>5 DEF BatchOnlyWhileIndexing, BatchIsLedgerOfCursor, BatchIsBranch, BatchExtendsLedger
  <1>10. StagedUndoComplete'
    BY DEF IInv, StagedUndoComplete
  <1>11. CacheAgrees'
    BY <1>3 DEF IInv, CacheAgrees
  <1>12. StoredIsBranch'
    <2>1. \A b \in stored : Height[b] \in Nat /\ Height[b] <= Height[tip]
                            /\ (Height[b] = Height[tip] => b = tip)
      BY <1>1, BlockFacts DEF IInv, StoredIsBranch
    <2>2. ASSUME NEW b \in stored' PROVE Height[b] <= Height[tip']
      <3>1. b \in stored /\ b # tip /\ tip' = Parent[tip]
        OBVIOUS
      <3>2. Height[b] \in Nat /\ Height[tip] \in Nat /\ Height[b] < Height[tip]
        <4>1. Height[b] \in Nat /\ Height[b] <= Height[tip] /\ Height[b] # Height[tip]
          BY <2>1, <3>1
        <4>2. Height[tip] \in Nat
          BY <1>1, BlockFacts
        <4> QED
          BY <4>1, <4>2
      <3> QED
        BY <1>3, <1>4, <3>1, <3>2
    <2> QED
      BY <1>5, <2>2 DEF IInv, StoredIsBranch
  <1>13. WindowIsStored'
    BY <1>1 DEF IInv, WindowIsStored
  <1> QED
    BY <1>6, <1>7, <1>8, <1>9, <1>10, <1>11, <1>12, <1>13 DEF IInv

-----------------------------------------------------------------------------
\* The strengthening is inductive: one step per action.
LEMMA NextIInv == IInv /\ [Next]_vars => IInv'
  <1> SUFFICES ASSUME IInv, [Next]_vars PROVE IInv'
    OBVIOUS
  <1>1. ASSUME NEW setting \in UndoSettings, Start(setting) PROVE IInv'
    BY <1>1, StartIInv
  <1>2. CASE Crash
    BY <1>2, CrashIInv
  <1>3. ASSUME NEW b \in Block, StageBlock(b) PROVE IInv'
    BY <1>3, StageBlockIInv
  <1>4. CASE Flush
    BY <1>4, FlushIInv
  <1>5. CASE CleanupAgedBlocks
    BY <1>5, CleanupIInv
  <1>6. CASE ReorgDetected
    BY <1>6, DiscardAndWalkIInv DEF ReorgDetected
  <1>7. CASE TipBelowOurs
    BY <1>7, DiscardAndWalkIInv DEF TipBelowOurs
  <1>8. CASE StageRollback
    BY <1>8, StageRollbackIInv
  <1>9. CASE CommitRollback
    BY <1>9, CommitRollbackIInv
  <1>10. CASE FailRollback
    BY <1>10, FailRollbackIInv
  <1>11. CASE HaltForResync
    BY <1>11, HaltIInv
  <1>12. CASE EndWalk
    BY <1>12, EndWalkIInv
  <1>13. CASE UNCHANGED vars
    BY <1>13 DEF vars, disk, batch, window, walk, IInv, TypeOK, UtxoSetIsLedgerOfTip,
         UndoRecordsComplete, NoUndoOutsideWindow, BatchOnlyWhileIndexing, BatchIsLedgerOfCursor,
         BatchIsBranch, BatchExtendsLedger, StagedUndoComplete, CacheAgrees, StoredIsBranch,
         WindowIsStored
  <1> QED
    BY <1>1, <1>2, <1>3, <1>4, <1>5, <1>6, <1>7, <1>8, <1>9, <1>10, <1>11, <1>12, <1>13
       DEF Next

\* So it holds in every reachable state.
LEMMA SpecIInv == Spec => []IInv
  BY InitIInv, NextIInv, PTL DEF Spec

(***************************************************************************)
(* Every record, staged write and counter keeps its type through staging,  *)
(* commits, rollbacks, failed rollbacks, crashes and restarts.             *)
(***************************************************************************)
THEOREM TypeCorrect == Spec => []TypeOK
  <1>1. IInv => TypeOK
    BY DEF IInv
  <1> QED
    BY <1>1, SpecIInv, PTL

(***************************************************************************)
(* The UTXO set on disk is at all times the ledger of the committed tip,   *)
(* for every block tree, batch size and sequence of undo settings.         *)
(***************************************************************************)
THEOREM UtxoSetExact == Spec => []UtxoSetIsLedgerOfTip
  <1>1. IInv => UtxoSetIsLedgerOfTip
    BY DEF IInv
  <1> QED
    BY <1>1, SpecIInv, PTL

(***************************************************************************)
(* Every block of the persisted undo window has exactly the K/M and W      *)
(* records its rollback needs.                                             *)
(***************************************************************************)
THEOREM UndoComplete == Spec => []UndoRecordsComplete
  <1>1. IInv => UndoRecordsComplete
    BY DEF IInv
  <1> QED
    BY <1>1, SpecIInv, PTL

-----------------------------------------------------------------------------
\* The instance of UtxoIndex has the same ledger.
LEMMA InstanceLedger ==
    ASSUME NEW t
    PROVE  Index!UtxoAfter(t) = UtxoAfter(t)
  BY DEF Index!UtxoAfter, UtxoAfter, Index!NoRec, NoRec

\* Only two actions change what readers see; each is a step of UtxoIndex.
LEMMA FlushRefines ==
    ASSUME IInv, Flush
    PROVE  Index!AppendBatch
  <1>1. stagedBlocks \in SUBSET Block /\ tip \in Tip /\ cursor \in Tip
    BY DEF IInv, TypeOK
  <1>2. Height[tip] \in Int /\ \A b \in stagedBlocks : Height[b] \in Nat
    BY <1>1, TipFacts, BlockFacts
  <1>3. cursor \in stagedBlocks
    BY <1>1, <1>2 DEF IInv, BatchIsBranch, Flush
  <1>4. Index!Descends(cursor, tip)
    BY <1>1, <1>3 DEF IInv, BatchIsBranch, Index!Descends
  <1>5. tip' = cursor /\ outputs' = UtxoAfter(cursor)
    BY DEF Flush, IInv, BatchIsLedgerOfCursor
  <1> QED
    BY <1>1, <1>3, <1>4, <1>5, InstanceLedger DEF Index!AppendBatch

\* A committed rollback is a DropTip.
LEMMA CommitRollbackRefines ==
    ASSUME IInv, CommitRollback
    PROVE  Index!DropTip
  <1>1. tip \in stored /\ tip \in Block
    BY DEF CommitRollback, IInv, StoredIsBranch, TypeOK
  <1>2. tip' = Parent[tip] /\ outputs' = UtxoAfter(Parent[tip])
    BY <1>1, RestoredExact DEF CommitRollback
  <1> QED
    BY <1>1, <1>2, InstanceLedger DEF Index!DropTip

\* Every step is a step of UtxoIndex or leaves it as it is.
LEMMA NextRefines == IInv /\ [Next]_vars => [Index!IndexNext]_(Index!ivars)
  <1> SUFFICES ASSUME IInv, [Next]_vars PROVE [Index!IndexNext]_(Index!ivars)
    OBVIOUS
  <1>1. CASE Flush
    BY <1>1, FlushRefines DEF Index!IndexNext
  <1>2. CASE CommitRollback
    BY <1>2, CommitRollbackRefines DEF Index!IndexNext
  <1>3. CASE UNCHANGED <<tip, outputs>>
    BY <1>3 DEF Index!ivars
  <1>4. ASSUME ~ Flush, ~ CommitRollback PROVE UNCHANGED <<tip, outputs>>
    <2>1. ASSUME NEW setting \in UndoSettings, Start(setting) PROVE UNCHANGED <<tip, outputs>>
      BY <2>1 DEF Start, disk
    <2>2. ASSUME NEW b \in Block, StageBlock(b) PROVE UNCHANGED <<tip, outputs>>
      BY <2>2 DEF StageBlock, disk
    <2>3. CASE Crash \/ StageRollback \/ FailRollback \/ HaltForResync \/ EndWalk
      BY <2>3 DEF Crash, StageRollback, FailRollback, HaltForResync, EndWalk, disk
    <2>4. CASE CleanupAgedBlocks
      BY <2>4 DEF CleanupAgedBlocks
    <2>5. CASE ReorgDetected \/ TipBelowOurs
      BY <2>5 DEF ReorgDetected, TipBelowOurs, DiscardAndWalk
    <2>6. CASE UNCHANGED vars
      BY <2>6 DEF vars, disk
    <2> QED
      BY <1>4, <2>1, <2>2, <2>3, <2>4, <2>5, <2>6 DEF Next
  <1> QED
    BY <1>1, <1>2, <1>3, <1>4

(***************************************************************************)
(* The store implements UtxoIndex: no step of the indexing, cleanup,       *)
(* reorg, crash or restart code shows a reader anything but a whole ledger *)
(* that moved forward by a batch along its branch or back to the parent.   *)
(***************************************************************************)
THEOREM StoreRefinesIndex == Spec => ImplementsUtxoIndex
  <1>1. Init => Index!IndexInit
    <2> SUFFICES ASSUME Init PROVE Index!IndexInit
      OBVIOUS
    <2>1. UtxoSetIsLedgerOfTip
      BY InitIInv DEF IInv
    <2> QED
      BY <2>1, InstanceLedger DEF Init, UtxoSetIsLedgerOfTip, Index!IndexInit
  <1> QED
    BY <1>1, NextRefines, SpecIInv, PTL DEF Spec, ImplementsUtxoIndex, Index!IndexSpec

-----------------------------------------------------------------------------
(***************************************************************************)
(* The undo window.  A second invariant, over the first: the N records on  *)
(* disk are an unbroken run of the branch that ends in the tip, so the     *)
(* window sorted by height after a restart or at the entry of a walk is a  *)
(* run of the branch as well; and what a walk may still roll back is what  *)
(* is left of the window it counted at its entry.                          *)
(***************************************************************************)

\* A sequence of consecutive blocks of a branch that ends in t.
BranchTo(s, t) ==
    Len(s) > 0 => /\ s[Len(s)] = t
                  /\ \A i \in 1 .. Len(s) - 1 : Parent[s[i + 1]] = s[i]

\* Unless the window is torn, no gap on disk, nor when the open batch is added.
StoredHasNoGap ==
    view = "whole" =>
        /\ RunsUpTo(stored, tip)
        /\ pc \in {"index", "cleanup"} => RunsUpTo(stored \cup stagedBlocks, cursor)

WindowIsBranch ==
    view = "whole" =>
        /\ pc \in {"index", "cleanup"} => BranchTo(lastBlocks, cursor)
        /\ pc = "walk" /\ reload = "ok" => BranchTo(lastBlocks, tip)
        /\ pc = "walk" /\ reload = "failed" => BranchTo(lastBlocks, Parent[tip])
        /\ pc = "rollback" => BranchTo(lastBlocks, Parent[tip])

\* No block of the disk or the batch is missing from the window and the
\* cleanup list; a walk works on all the disk has, but for the tip it popped.
WindowOrPending ==
    /\ pc \in {"index", "cleanup"} /\ view = "whole" =>
          stored \cup stagedBlocks \subseteq Elements(lastBlocks) \cup pendingKMCleanup
    /\ pc = "walk" /\ reload = "ok" => stored \subseteq Elements(lastBlocks)
    /\ pc = "walk" /\ reload = "failed" =>
          stored \subseteq Elements(lastBlocks) \cup {tip} /\ tip \notin Elements(lastBlocks)
    /\ pc = "rollback" => stored \subseteq Elements(lastBlocks) \cup {tip} /\ reload = "ok"

\* The budget is the whole setting, or ends with the last N record.
BudgetIsWindow ==
    /\ pc = "walk" => blocksDeleted <= budget
    /\ pc = "rollback" => blocksDeleted < budget
    /\ pc \in {"walk", "rollback"} =>
          budget = undoBlocks \/ Cardinality(stored) = budget - blocksDeleted

WInv ==
    /\ StoredHasNoGap /\ WindowIsBranch /\ WindowOrPending /\ BudgetIsWindow
    /\ HaltIsJustified

\* The N records sorted by height are a run of the branch.
LEMMA SortedIsBranch ==
    ASSUME NEW S, S \subseteq Block, NEW t \in Tip, RunsUpTo(S, t), NEW s \in SortedByHeight(S),
           \A b \in S : Height[b] <= Height[t], \A b, c \in S : Height[b] = Height[c] => b = c
    PROVE  BranchTo(s, t) /\ Len(s) = Cardinality(S)
  <1>1. s \in Seq(Block) /\ Elements(s) = S /\ NoRepeats(s)
    BY SortedIsSequence
  <1>2. Len(s) \in Nat /\ DOMAIN s = 1 .. Len(s)
    BY <1>1
  <1>3. Cardinality(S) \in Nat
    BY TreeAssumption, FS_Subset, FS_CardinalityType
  <1>4. Len(s) = Cardinality(S)
    BY <1>2, <1>3 DEF SortedByHeight
  <1>5. \A i, j \in 1 .. Len(s) : i < j => Height[s[i]] <= Height[s[j]]
    BY <1>2 DEF SortedByHeight
  <1>6. \A i \in 1 .. Len(s) : s[i] \in S /\ s[i] \in Block /\ Height[s[i]] \in Nat
    BY <1>1, <1>2, BlockFacts DEF Elements
  <1>7. ASSUME NEW i \in 1 .. Len(s), NEW c \in S, Parent[c] = s[i]
        PROVE  \E j \in 1 .. Len(s) : s[j] = c /\ i < j /\ Height[s[j]] = Height[s[i]] + 1
    <2>1. PICK j \in 1 .. Len(s) : s[j] = c
      BY <1>1, <1>2 DEF Elements
    <2>2. Height[s[j]] = Height[s[i]] + 1
      BY <1>7, <2>1, BlockFacts
    <2>3. i # j /\ ~(j < i)
      BY <1>5, <1>6, <2>2
    <2> QED
      BY <1>2, <2>1, <2>2, <2>3
  <1>8. ASSUME Len(s) > 0 PROVE s[Len(s)] = t
    <2>1. Len(s) \in 1 .. Len(s)
      BY <1>2, <1>8
    <2>2. SUFFICES ASSUME s[Len(s)] # t PROVE FALSE
      OBVIOUS
    <2>3. PICK c \in S : Parent[c] = s[Len(s)]
      BY <1>6, <2>1, <2>2 DEF RunsUpTo
    <2>4. PICK j \in 1 .. Len(s) : Len(s) < j
      BY <1>7, <2>1, <2>3
    <2> QED
      BY <1>2, <2>4
  <1>9. ASSUME NEW i \in 1 .. Len(s) - 1 PROVE Parent[s[i + 1]] = s[i]
    <2>1. /\ i \in 1 .. Len(s) /\ i + 1 \in 1 .. Len(s) /\ Len(s) \in 1 .. Len(s) /\ i < i + 1 /\ i # Len(s)
          /\ Len(s) > 0 /\ i # i + 1
      <3>1. Len(s) \in Nat
        BY <1>2
      <3> QED
        BY <3>1
    <2>2. s[i] # t
      BY <1>1, <1>2, <1>8, <2>1 DEF NoRepeats
    <2>3. PICK c \in S : Parent[c] = s[i]
      BY <1>6, <2>1, <2>2 DEF RunsUpTo
    <2>4. PICK j \in 1 .. Len(s) : s[j] = c /\ i < j /\ Height[s[j]] = Height[s[i]] + 1
      BY <1>7, <2>1, <2>3
    <2>5. Height[s[i]] <= Height[s[i + 1]] /\ Height[s[i]] # Height[s[i + 1]]
      <3>1. s[i] # s[i + 1]
        BY <1>1, <1>2, <2>1 DEF NoRepeats
      <3> QED
        BY <1>5, <1>6, <2>1, <3>1
    <2>6. Height[s[i + 1]] <= Height[s[j]]
      <3>1. i + 1 = j \/ i + 1 < j
        BY <2>4
      <3>2. CASE i + 1 = j
        BY <1>6, <2>1, <3>2
      <3>3. CASE i + 1 < j
        BY <1>5, <2>1, <3>3
      <3> QED
        BY <3>1, <3>2, <3>3
    <2>7. Height[s[i + 1]] = Height[s[j]]
      BY <1>6, <2>1, <2>4, <2>5, <2>6
    <2> QED
      BY <1>6, <2>1, <2>3, <2>4, <2>7
  <1> QED
    BY <1>4, <1>8, <1>9 DEF BranchTo

\* A window read back from disk holds every N record, and ends in the tip
\* unless the disk has a gap.
LEMMA ReloadedWindow ==
    ASSUME IInv, NEW w \in SortedByHeight(stored)
    PROVE  /\ w \in Seq(Block) /\ Elements(w) = stored /\ Len(w) = Cardinality(stored)
           /\ RunsUpTo(stored, tip) => BranchTo(w, tip)
  <1>1. stored \subseteq Block /\ tip \in Tip
    BY DEF IInv, TypeOK
  <1>2. /\ \A b \in stored : Height[b] <= Height[tip]
        /\ \A b, c \in stored : Height[b] = Height[c] => b = c
    BY DEF IInv, StoredIsBranch
  <1>3. w \in Seq(Block) /\ Elements(w) = stored
    BY <1>1, SortedIsSequence
  <1>4. Len(w) = Cardinality(stored)
    <2>1. Cardinality(stored) \in Nat
      BY <1>1, TreeAssumption, FS_Subset, FS_CardinalityType
    <2> QED
      BY <1>3, <2>1 DEF SortedByHeight
  <1>5. RunsUpTo(stored, tip) => BranchTo(w, tip)
    BY <1>1, <1>2, SortedIsBranch
  <1> QED
    BY <1>3, <1>4, <1>5

\* What is whole after a reload has no gap on disk.
LEMMA ReloadedViewWhole ==
    ASSUME WInv, ReloadedView = "whole"
    PROVE  RunsUpTo(stored, tip)
  BY DEF WInv, StoredHasNoGap, ReloadedView

\* addToLastBlocks extends the run, and drops nothing it does not queue.
LEMMA AddToLastBlocksBranch ==
    ASSUME TypeOK, NEW b \in Block, AddToLastBlocks(b), BranchTo(lastBlocks, Parent[b])
    PROVE  /\ BranchTo(lastBlocks', b)
           /\ Elements(lastBlocks) \cup {b} \cup pendingKMCleanup
                \subseteq Elements(lastBlocks') \cup pendingKMCleanup'
  <1> DEFINE s == Append(lastBlocks, b)
  <1> DEFINE k == Excess(s)
  <1> DEFINE n == Len(s)
  <1>1. lastBlocks \in Seq(Block) /\ undoBlocks \in Nat \ {0}
    BY WindowAssumption DEF TypeOK
  <1>2. /\ s \in Seq(Block) /\ n \in Nat /\ n = Len(lastBlocks) + 1 /\ s[n] = b /\ DOMAIN s = 1 .. n
        /\ \A i \in 1 .. n - 1 : s[i] = lastBlocks[i]
    BY <1>1
  <1>3. k \in Nat /\ k < n
    BY <1>1, <1>2 DEF Excess
  <1>4. Len(lastBlocks) \in Nat /\ Len(lastBlocks) = n - 1 /\ DOMAIN lastBlocks = 1 .. n - 1
    BY <1>1, <1>2
  <1>5. lastBlocks' = SubSeq(s, k + 1, n) /\ pendingKMCleanup' = pendingKMCleanup \cup {s[i] : i \in 1 .. k}
    BY DEF AddToLastBlocks
  <1> HIDE DEF s, k, n
  <1>6. \A i \in 1 .. n - 1 : Parent[s[i + 1]] = s[i]
    <2> SUFFICES ASSUME NEW i \in 1 .. n - 1 PROVE Parent[s[i + 1]] = s[i]
      OBVIOUS
    <2>1. n - 1 > 0 /\ i \in 1 .. n - 1
      BY <1>2
    <2>2. CASE i = n - 1
      <3>1. i + 1 = n /\ i = Len(lastBlocks)
        BY <1>2, <1>4, <2>2
      <3>2. s[i + 1] = b /\ s[i] = lastBlocks[Len(lastBlocks)]
        BY <1>2, <3>1
      <3> QED
        BY <1>4, <2>1, <3>2 DEF BranchTo
    <2>3. CASE i # n - 1
      <3>0. n \in Nat /\ Len(lastBlocks) = n - 1
        BY <1>2, <1>4
      <3>1. i + 1 \in 1 .. n - 1 /\ i \in 1 .. Len(lastBlocks) - 1
        BY <2>3, <3>0
      <3>2. s[i] = lastBlocks[i] /\ s[i + 1] = lastBlocks[i + 1]
        BY <1>2, <3>1
      <3> QED
        BY <1>4, <2>1, <3>1, <3>2 DEF BranchTo
    <2> QED
      BY <2>2, <2>3
  <1>7. /\ lastBlocks' \in Seq(Block) /\ Len(lastBlocks') = n - k
        /\ \A i \in 1 .. n - k : lastBlocks'[i] = s[k + i]
    <2>1. k + 1 \in Int /\ n \in Int /\ \A i \in k + 1 .. n : s[i] \in Block
      <3>1. \A i \in k + 1 .. n : i \in 1 .. n
        BY <1>2, <1>3
      <3> QED
        BY <1>2, <1>3, <3>1, ElementOfSeq
    <2>2. /\ lastBlocks' \in Seq(Block)
          /\ Len(lastBlocks') = IF k + 1 <= n THEN n - (k + 1) + 1 ELSE 0
          /\ \A i \in 1 .. n - (k + 1) + 1 : lastBlocks'[i] = s[(k + 1) + i - 1]
      BY <1>5, <2>1, SubSeqProperties
    <2>3. k + 1 <= n /\ n - (k + 1) + 1 = n - k /\ \A i \in 1 .. n - k : (k + 1) + i - 1 = k + i
      BY <1>2, <1>3
    <2> QED
      BY <2>2, <2>3
  <1>8. BranchTo(lastBlocks', b)
    <2>1. n - k \in 1 .. n - k /\ k + (n - k) = n
      BY <1>2, <1>3
    <2>2. lastBlocks'[n - k] = b
      BY <1>2, <1>7, <2>1
    <2>3. ASSUME NEW i \in 1 .. (n - k) - 1 PROVE Parent[lastBlocks'[i + 1]] = lastBlocks'[i]
      <3>1. /\ i \in 1 .. n - k /\ i + 1 \in 1 .. n - k /\ k + i \in 1 .. n - 1 /\ k + (i + 1) = (k + i) + 1
        BY <1>2, <1>3
      <3>2. lastBlocks'[i] = s[k + i] /\ lastBlocks'[i + 1] = s[(k + i) + 1]
        BY <1>7, <3>1
      <3> QED
        BY <1>6, <3>1, <3>2
    <2> QED
      BY <1>7, <2>2, <2>3 DEF BranchTo
  <1>9. ASSUME NEW i \in 1 .. n PROVE s[i] \in Elements(lastBlocks') \cup pendingKMCleanup'
    <2>1. CASE i <= k
      <3>1. i \in 1 .. k
        BY <1>3, <2>1
      <3> QED
        BY <1>5, <3>1
    <2>2. CASE ~(i <= k)
      <3>1. i - k \in 1 .. n - k /\ k + (i - k) = i
        BY <1>2, <1>3, <2>2
      <3>2. DOMAIN lastBlocks' = 1 .. n - k
        BY <1>7
      <3> QED
        BY <1>7, <3>1, <3>2 DEF Elements
    <2> QED
      BY <2>1, <2>2
  <1>10. ASSUME NEW c \in Elements(lastBlocks) \cup {b} PROVE \E i \in 1 .. n : s[i] = c
    <2>1. CASE c = b
      <3>1. n \in 1 .. n
        BY <1>2, <1>3
      <3> QED
        BY <1>2, <2>1, <3>1
    <2>2. CASE c \in Elements(lastBlocks)
      <3>1. PICK i \in 1 .. n - 1 : lastBlocks[i] = c
        BY <1>4, <2>2 DEF Elements
      <3>2. i \in 1 .. n
        BY <1>2
      <3> QED
        BY <1>2, <3>1, <3>2
    <2> QED
      BY <2>1, <2>2
  <1> QED
    BY <1>5, <1>8, <1>9, <1>10

LEMMA InitWInv == Init => WInv
  BY DEF Init, WInv, StoredHasNoGap, RunsUpTo, WindowIsBranch, WindowOrPending, BudgetIsWindow,
         HaltIsJustified

LEMMA StartWInv ==
    ASSUME IInv, WInv, NEW setting \in UndoSettings, Start(setting)
    PROVE  WInv'
  <1>1. /\ pc = "down" /\ pc' = "index" /\ cursor' = tip /\ stored' = stored /\ tip' = tip
        /\ stagedBlocks' = stagedBlocks /\ lastBlocks' \in SortedByHeight(stored)
        /\ view' = ReloadedView /\ reload' = reload
    BY DEF Start, disk, batch
  <1>2. stagedBlocks = {}
    BY <1>1 DEF IInv, BatchOnlyWhileIndexing
  <1>3. Elements(lastBlocks') = stored /\ (RunsUpTo(stored, tip) => BranchTo(lastBlocks', tip))
    BY <1>1, ReloadedWindow
  <1>6. view' = "whole" => RunsUpTo(stored, tip)
    BY <1>1, ReloadedViewWhole
  <1>4. StoredHasNoGap'
    BY <1>1, <1>2, <1>6 DEF StoredHasNoGap, RunsUpTo
  <1>5. WindowIsBranch' /\ WindowOrPending'
    BY <1>1, <1>2, <1>3, <1>6 DEF WindowIsBranch, WindowOrPending, BranchTo, Elements
  <1> QED
    BY <1>1, <1>4, <1>5 DEF WInv, BudgetIsWindow, HaltIsJustified

LEMMA StageBlockWInv ==
    ASSUME IInv, WInv, NEW b \in Block, StageBlock(b)
    PROVE  WInv'
  <1>1. /\ pc = "index" /\ pc' = "index" /\ Parent[b] = cursor /\ cursor' = b /\ stored' = stored /\ tip' = tip
        /\ stagedBlocks' = stagedBlocks \cup {b} /\ AddToLastBlocks(b)
        /\ view' = view /\ reload' = reload
    BY DEF StageBlock, disk, walk
  <1>2. view = "whole" =>
          /\ BranchTo(lastBlocks', b)
          /\ Elements(lastBlocks) \cup {b} \cup pendingKMCleanup
               \subseteq Elements(lastBlocks') \cup pendingKMCleanup'
    BY <1>1, AddToLastBlocksBranch DEF IInv, WInv, WindowIsBranch
  <1>3. StoredHasNoGap'
    <2>1. view = "whole" => RunsUpTo(stored \cup stagedBlocks \cup {b}, b)
      BY <1>1 DEF WInv, StoredHasNoGap, RunsUpTo
    <2> QED
      BY <1>1, <2>1 DEF WInv, StoredHasNoGap, RunsUpTo
  <1>4. WindowIsBranch' /\ WindowOrPending'
    BY <1>1, <1>2 DEF WInv, WindowIsBranch, WindowOrPending, BranchTo, Elements
  <1> QED
    BY <1>1, <1>3, <1>4 DEF WInv, BudgetIsWindow, HaltIsJustified

LEMMA FlushWInv ==
    ASSUME IInv, WInv, Flush
    PROVE  WInv'
  <1>1. /\ pc = "index" /\ pc' = "cleanup" /\ cursor' = cursor /\ tip' = cursor
        /\ stored' = stored \cup stagedBlocks /\ stagedBlocks' = {}
        /\ lastBlocks' = lastBlocks /\ pendingKMCleanup' = pendingKMCleanup
        /\ view' = view /\ reload' = reload
    BY DEF Flush, window, walk
  <1>2. StoredHasNoGap'
    BY <1>1 DEF WInv, StoredHasNoGap, RunsUpTo
  <1>3. WindowIsBranch' /\ WindowOrPending'
    BY <1>1 DEF WInv, WindowIsBranch, WindowOrPending, BranchTo, Elements
  <1> QED
    BY <1>1, <1>2, <1>3 DEF WInv, BudgetIsWindow, HaltIsJustified

\* What cleanupAgedBlocks leaves is the live window, which has no gap.
LEMMA CleanupWInv ==
    ASSUME IInv, WInv, CleanupAgedBlocks
    PROVE  WInv'
  <1>1. /\ pc = "cleanup" /\ pc' = "index" /\ cursor' = cursor /\ tip' = tip /\ stored' = stored \ ToClean
        /\ stagedBlocks' = stagedBlocks /\ lastBlocks' = lastBlocks /\ pendingKMCleanup' = {}
        /\ view' = view /\ reload' = reload
    BY DEF CleanupAgedBlocks, batch, walk
  <1>2. stagedBlocks = {} /\ cursor = tip
    BY <1>1 DEF IInv, BatchOnlyWhileIndexing, BatchIsBranch
  <1>8. CASE view = "torn"
    BY <1>1, <1>8 DEF WInv, StoredHasNoGap, WindowIsBranch, WindowOrPending, BudgetIsWindow, HaltIsJustified
  <1>9. SUFFICES ASSUME view = "whole" PROVE WInv'
    BY <1>8 DEF IInv, TypeOK
  <1>3. stored' = Elements(lastBlocks)
    BY <1>1, <1>2, <1>9 DEF IInv, WindowIsStored, WInv, WindowOrPending, ToClean
  <1>4. lastBlocks \in Seq(Block) /\ Len(lastBlocks) \in Nat /\ DOMAIN lastBlocks = 1 .. Len(lastBlocks)
    BY DEF IInv, TypeOK
  <1>5. RunsUpTo(Elements(lastBlocks), tip)
    <2> SUFFICES ASSUME NEW b \in Elements(lastBlocks), b # tip
                 PROVE  \E c \in Elements(lastBlocks) : Parent[c] = b
      BY DEF RunsUpTo
    <2>1. PICK i \in 1 .. Len(lastBlocks) : lastBlocks[i] = b
      BY <1>4 DEF Elements
    <2>2. Len(lastBlocks) > 0
      BY <1>4
    <2>3. /\ lastBlocks[Len(lastBlocks)] = tip
          /\ \A j \in 1 .. Len(lastBlocks) - 1 : Parent[lastBlocks[j + 1]] = lastBlocks[j]
      BY <1>1, <1>2, <1>9, <2>2 DEF WInv, WindowIsBranch, BranchTo
    <2>4. i # Len(lastBlocks)
      BY <2>1, <2>3
    <2>5. i \in 1 .. Len(lastBlocks) - 1 /\ i + 1 \in 1 .. Len(lastBlocks)
      <3>1. Len(lastBlocks) \in Nat
        BY <1>4
      <3> QED
        BY <2>4, <3>1
    <2>6. lastBlocks[i + 1] \in Elements(lastBlocks)
      BY <1>4, <2>5 DEF Elements
    <2> QED
      BY <2>1, <2>3, <2>5, <2>6
  <1>6. StoredHasNoGap'
    BY <1>1, <1>2, <1>3, <1>5 DEF StoredHasNoGap, RunsUpTo
  <1>7. WindowIsBranch' /\ WindowOrPending'
    BY <1>1, <1>2, <1>3 DEF WInv, WindowIsBranch, WindowOrPending, BranchTo, Elements
  <1> QED
    BY <1>1, <1>6, <1>7 DEF WInv, BudgetIsWindow, HaltIsJustified

LEMMA DiscardAndWalkWInv ==
    ASSUME IInv, WInv, NEW persist, NEW after, DiscardAndWalk(persist, after)
    PROVE  WInv'
  <1>1. /\ pc = "index" /\ pc' = "walk" /\ tip' = tip /\ stored' = stored /\ undoBlocks' = undoBlocks
        /\ lastBlocks' \in SortedByHeight(stored) /\ blocksDeleted' = 0
        /\ budget' = RollbackBudget(Len(lastBlocks')) /\ reload' = "ok" /\ view' = ReloadedView
    BY DEF DiscardAndWalk
  <1>2. /\ Elements(lastBlocks') = stored /\ Len(lastBlocks') = Cardinality(stored)
        /\ RunsUpTo(stored, tip) => BranchTo(lastBlocks', tip)
    BY <1>1, ReloadedWindow
  <1>8. view' = "whole" => RunsUpTo(stored, tip)
    BY <1>1, ReloadedViewWhole
  <1>3. StoredHasNoGap'
    BY <1>1, <1>8 DEF StoredHasNoGap, RunsUpTo
  <1>4. WindowIsBranch' /\ WindowOrPending'
    BY <1>1, <1>2, <1>8 DEF WindowIsBranch, WindowOrPending, BranchTo, Elements
  <1>5. Cardinality(stored) \in Nat /\ undoBlocks \in Nat
    <2>1. stored \subseteq Block /\ undoBlocks \in Nat
      BY WindowAssumption DEF IInv, TypeOK
    <2> QED
      BY <2>1, TreeAssumption, FS_Subset, FS_CardinalityType
  <1>6. budget' = IF Cardinality(stored) < undoBlocks THEN Cardinality(stored) ELSE undoBlocks
    BY <1>1, <1>2 DEF RollbackBudget
  <1>7. BudgetIsWindow'
    BY <1>1, <1>5, <1>6 DEF BudgetIsWindow
  <1> QED
    BY <1>1, <1>3, <1>4, <1>7 DEF WInv, HaltIsJustified

LEMMA StageRollbackWInv ==
    ASSUME IInv, WInv, StageRollback
    PROVE  WInv'
  <1>1. /\ pc = "walk" /\ pc' = "rollback" /\ tip' = tip /\ stored' = stored /\ undoBlocks' = undoBlocks
        /\ blocksDeleted' = blocksDeleted /\ budget' = budget /\ blocksDeleted < budget
        /\ reload' = "ok" /\ view' = view
    BY DEF StageRollback, disk
  <1>2. PICK w \in Seq(Block) :
          /\ \/ w = lastBlocks /\ tip \in Elements(lastBlocks)
             \/ w \in SortedByHeight(stored)
          /\ w # <<>> /\ w[Len(w)] = tip /\ Elements(w) \subseteq stored /\ NoRepeats(w)
          /\ lastBlocks' = SubSeq(w, 1, Len(w) - 1)
    BY PoppedWindow
  <1>3. stored \subseteq Elements(w) /\ (view = "whole" => BranchTo(w, tip))
    <2>1. CASE w = lastBlocks /\ tip \in Elements(lastBlocks)
      <3>1. reload = "ok"
        BY <1>1, <2>1 DEF IInv, TypeOK, WInv, WindowOrPending
      <3> QED
        BY <1>1, <2>1, <3>1 DEF WInv, WindowOrPending, WindowIsBranch
    <2>2. CASE w \in SortedByHeight(stored)
      BY <2>2, ReloadedWindow DEF WInv, StoredHasNoGap
    <2> QED
      BY <1>2, <2>1, <2>2
  <1> DEFINE n == Len(w)
  <1>4. n \in Nat /\ n > 0 /\ DOMAIN w = 1 .. n
    BY <1>2
  <1>5. /\ lastBlocks' \in Seq(Block) /\ Len(lastBlocks') = n - 1 /\ DOMAIN lastBlocks' = 1 .. n - 1
        /\ \A i \in 1 .. n - 1 : lastBlocks'[i] = w[i]
    BY <1>2, FrontFacts
  <1>6. w[n] = tip
    BY <1>2
  <1>7. ASSUME view = "whole" PROVE BranchTo(lastBlocks', Parent[tip])
    <2>1. \A i \in 1 .. n - 1 : Parent[w[i + 1]] = w[i]
      BY <1>3, <1>4, <1>7 DEF BranchTo
    <2> HIDE DEF n
    <2>2. ASSUME n - 1 > 0 PROVE lastBlocks'[n - 1] = Parent[tip]
      <3>1. n - 1 \in 1 .. n - 1 /\ (n - 1) + 1 = n
        BY <1>4, <2>2
      <3> QED
        BY <1>5, <1>6, <2>1, <3>1
    <2>3. ASSUME NEW i \in 1 .. (n - 1) - 1 PROVE Parent[lastBlocks'[i + 1]] = lastBlocks'[i]
      <3>1. i \in 1 .. n - 1 /\ i + 1 \in 1 .. n - 1
        BY <1>4
      <3> QED
        BY <1>5, <2>1, <3>1
    <2> QED
      BY <1>5, <2>2, <2>3 DEF BranchTo
  <1>8. stored \subseteq Elements(lastBlocks') \cup {tip}
    <2> HIDE DEF n
    <2> SUFFICES ASSUME NEW b \in stored, b # tip PROVE b \in Elements(lastBlocks')
      OBVIOUS
    <2>1. PICK i \in 1 .. n : w[i] = b
      BY <1>3, <1>4 DEF Elements
    <2>2. i # n
      BY <1>6, <2>1
    <2>3. i \in 1 .. n - 1
      BY <1>4, <2>2
    <2> QED
      BY <1>5, <2>1, <2>3 DEF Elements
  <1>9. StoredHasNoGap'
    BY <1>1 DEF WInv, StoredHasNoGap, RunsUpTo
  <1>10. WindowIsBranch' /\ WindowOrPending'
    BY <1>1, <1>7, <1>8 DEF WindowIsBranch, WindowOrPending, BranchTo, Elements
  <1>11. BudgetIsWindow'
    BY <1>1 DEF WInv, BudgetIsWindow
  <1> QED
    BY <1>1, <1>9, <1>10, <1>11 DEF WInv, HaltIsJustified

LEMMA CommitRollbackWInv ==
    ASSUME IInv, WInv, CommitRollback
    PROVE  WInv'
  <1>1. /\ pc = "rollback" /\ pc' = "walk" /\ tip' = Parent[tip] /\ stored' = stored \ {tip}
        /\ undoBlocks' = undoBlocks /\ lastBlocks' = lastBlocks
        /\ blocksDeleted' = blocksDeleted + 1 /\ budget' = budget /\ reload' = reload /\ view' = view
    BY DEF CommitRollback, window
  <1>2. tip \in stored /\ IsFiniteSet(stored) /\ budget \in Nat /\ blocksDeleted \in Nat
    BY <1>1, TreeAssumption, FS_Subset DEF IInv, TypeOK, StoredIsBranch
  <1>3. StoredHasNoGap'
    BY <1>1 DEF WInv, StoredHasNoGap, RunsUpTo
  <1>7. reload = "ok"
    BY <1>1 DEF WInv, WindowOrPending
  <1>4. WindowIsBranch' /\ WindowOrPending'
    BY <1>1, <1>7 DEF WInv, WindowIsBranch, WindowOrPending, BranchTo, Elements
  <1>5. Cardinality(stored') = Cardinality(stored) - 1 /\ Cardinality(stored) \in Nat
    BY <1>1, <1>2, FS_RemoveElement, FS_CardinalityType
  <1>6. BudgetIsWindow'
    BY <1>1, <1>2, <1>5 DEF WInv, BudgetIsWindow
  <1> QED
    BY <1>1, <1>3, <1>4, <1>6 DEF WInv, HaltIsJustified

LEMMA FailRollbackWInv ==
    ASSUME IInv, WInv, FailRollback
    PROVE  WInv'
  <1>1. /\ pc \in {"walk", "rollback"} /\ pc' = "walk" /\ tip' = tip /\ stored' = stored /\ undoBlocks' = undoBlocks
        /\ blocksDeleted' = blocksDeleted /\ budget' = budget /\ view' = view
    BY DEF FailRollback, disk
  <1>2. StoredHasNoGap'
    BY <1>1 DEF WInv, StoredHasNoGap, RunsUpTo
  <1>3. budget \in Nat /\ blocksDeleted \in Nat
    BY DEF IInv, TypeOK
  <1>4. BudgetIsWindow'
    BY <1>1, <1>3 DEF WInv, BudgetIsWindow
  <1>5. WindowIsBranch' /\ WindowOrPending'
    <2>1. CASE lastBlocks' \in SortedByHeight(stored) /\ reload' = "ok"
      <3>1. Elements(lastBlocks') = stored /\ (RunsUpTo(stored, tip) => BranchTo(lastBlocks', tip))
        BY <2>1, ReloadedWindow
      <3>2. view = "whole" => RunsUpTo(stored, tip)
        BY DEF WInv, StoredHasNoGap
      <3> QED
        BY <1>1, <2>1, <3>1, <3>2 DEF WindowIsBranch, WindowOrPending, BranchTo, Elements
    <2>2. CASE pc = "rollback" /\ lastBlocks' = lastBlocks /\ reload' = "failed"
      <3>1. tip \notin Elements(lastBlocks)
        BY <2>2 DEF IInv, WindowIsStored
      <3> QED
        BY <1>1, <2>2, <3>1 DEF WInv, WindowIsBranch, WindowOrPending, BranchTo, Elements
    <2>3. CASE pc = "walk" /\ lastBlocks' = lastBlocks /\ reload' = reload
      BY <1>1, <2>3 DEF WInv, WindowIsBranch, WindowOrPending, BranchTo, Elements
    <2> QED
      BY <1>1, <2>1, <2>2, <2>3 DEF FailRollback
  <1> QED
    BY <1>1, <1>2, <1>4, <1>5 DEF WInv, HaltIsJustified

\* A walk that may not go on has used the whole setting or emptied the window.
LEMMA HaltWInv ==
    ASSUME IInv, WInv, HaltForResync
    PROVE  WInv'
  <1>1. /\ pc = "walk" /\ pc' = "halted" /\ tip' = tip /\ stored' = stored /\ undoBlocks' = undoBlocks
        /\ blocksDeleted' = blocksDeleted /\ lastBlocks' = lastBlocks /\ reload' = reload /\ view' = view
        /\ \/ blocksDeleted >= budget
           \/ lastBlocks = <<>>
           \/ tip \notin Elements(lastBlocks) \cup stored
    BY DEF HaltForResync, disk, window, walk
  <1>2. /\ budget \in Nat /\ blocksDeleted \in Nat /\ blocksDeleted <= budget
        /\ budget = undoBlocks \/ Cardinality(stored) = budget - blocksDeleted
    BY <1>1 DEF IInv, TypeOK, WInv, BudgetIsWindow
  <1>3. IsFiniteSet(stored) /\ (Cardinality(stored) = 0 => stored = {})
    BY TreeAssumption, FS_Subset, FS_EmptySet DEF IInv, TypeOK
  <1>4. \/ tip \notin stored \/ blocksDeleted = undoBlocks
        \/ reload = "failed" /\ lastBlocks = <<>> /\ stored = {tip}
    <2>1. CASE blocksDeleted >= budget
      BY <1>2, <1>3, <2>1
    <2>2. CASE tip \notin Elements(lastBlocks) \cup stored
      BY <2>2
    <2>3. CASE lastBlocks = <<>>
      <3>1. Elements(lastBlocks) = {}
        BY <2>3 DEF Elements
      <3>2. CASE reload = "ok"
        BY <1>1, <3>1, <3>2 DEF WInv, WindowOrPending
      <3>3. CASE reload = "failed"
        <4>1. stored \subseteq {tip}
          BY <1>1, <3>1, <3>3 DEF WInv, WindowOrPending
        <4> QED
          BY <2>3, <3>3, <4>1
      <3> QED
        BY <3>2, <3>3 DEF IInv, TypeOK
    <2> QED
      BY <1>1, <2>1, <2>2, <2>3
  <1>5. StoredHasNoGap'
    BY <1>1 DEF WInv, StoredHasNoGap, RunsUpTo
  <1>6. HaltIsJustified'
    BY <1>1, <1>4 DEF HaltIsJustified
  <1> QED
    BY <1>1, <1>5, <1>6 DEF WInv, WindowIsBranch, WindowOrPending, BudgetIsWindow

\* A walk that ends on a popped window leaves it torn.
LEMMA EndWalkWInv ==
    ASSUME IInv, WInv, EndWalk
    PROVE  WInv'
  <1>1. /\ pc = "walk" /\ pc' = afterWalk /\ cursor' = tip /\ tip' = tip /\ stored' = stored
        /\ lastBlocks' = lastBlocks /\ pendingKMCleanup' = pendingKMCleanup /\ stagedBlocks' = stagedBlocks
        /\ view' = IF reload = "failed" THEN "torn" ELSE view
    BY DEF EndWalk, disk, batch, window
  <1>2. stagedBlocks = {} /\ afterWalk \in {"index", "cleanup"}
    BY <1>1 DEF IInv, TypeOK, BatchOnlyWhileIndexing
  <1>5. view' = "whole" => view = "whole" /\ reload = "ok"
    BY <1>1 DEF IInv, TypeOK
  <1>3. StoredHasNoGap'
    BY <1>1, <1>2, <1>5 DEF WInv, StoredHasNoGap, RunsUpTo
  <1>4. WindowIsBranch' /\ WindowOrPending'
    BY <1>1, <1>2, <1>5 DEF WInv, WindowIsBranch, WindowOrPending, BranchTo, Elements
  <1> QED
    BY <1>1, <1>2, <1>3, <1>4 DEF WInv, BudgetIsWindow, HaltIsJustified

LEMMA NextWInv == IInv /\ WInv /\ [Next]_vars => WInv'
  <1> SUFFICES ASSUME IInv, WInv, [Next]_vars PROVE WInv'
    OBVIOUS
  <1>1. ASSUME NEW setting \in UndoSettings, Start(setting) PROVE WInv'
    BY <1>1, StartWInv
  <1>2. CASE Crash
    <2>1. pc' = "down" /\ stored' = stored /\ tip' = tip /\ view' = view
      BY <1>2 DEF Crash, disk
    <2> QED
      BY <2>1 DEF WInv, StoredHasNoGap, RunsUpTo, WindowIsBranch, WindowOrPending, BudgetIsWindow,
                  HaltIsJustified
  <1>3. ASSUME NEW b \in Block, StageBlock(b) PROVE WInv'
    BY <1>3, StageBlockWInv
  <1>4. CASE Flush
    BY <1>4, FlushWInv
  <1>5. CASE CleanupAgedBlocks
    BY <1>5, CleanupWInv
  <1>6. CASE ReorgDetected \/ TipBelowOurs
    BY <1>6, DiscardAndWalkWInv DEF ReorgDetected, TipBelowOurs
  <1>7. CASE StageRollback
    BY <1>7, StageRollbackWInv
  <1>8. CASE CommitRollback
    BY <1>8, CommitRollbackWInv
  <1>9. CASE FailRollback
    BY <1>9, FailRollbackWInv
  <1>10. CASE HaltForResync
    BY <1>10, HaltWInv
  <1>11. CASE EndWalk
    BY <1>11, EndWalkWInv
  <1>12. CASE UNCHANGED vars
    BY <1>12 DEF vars, disk, batch, window, walk, WInv, StoredHasNoGap, RunsUpTo, WindowIsBranch, BranchTo,
                 WindowOrPending, Elements, BudgetIsWindow, HaltIsJustified
  <1> QED
    BY <1>1, <1>2, <1>3, <1>4, <1>5, <1>6, <1>7, <1>8, <1>9, <1>10, <1>11, <1>12 DEF Next

LEMMA SpecWInv == Spec => []WInv
  BY InitWInv, NextWInv, SpecIInv, PTL DEF Spec

(***************************************************************************)
(* No undo record is stranded: none outlives its N record, and every N     *)
(* record is in the live window or queued for cleanupAgedBlocks, whatever  *)
(* crashes, restarts with another UNDO_BLOCKS and walks happen between.    *)
(***************************************************************************)
THEOREM NothingStranded == Spec => []NoStrandedUndoRecords
  <1>1. IInv /\ WInv => NoStrandedUndoRecords
    BY DEF IInv, NoUndoOutsideWindow, WInv, WindowOrPending, NoStrandedUndoRecords
  <1> QED
    BY <1>1, SpecIInv, SpecWInv, PTL

(***************************************************************************)
(* The in-memory window is an unbroken run of the branch that ends in the  *)
(* block the next step works on, so removeFromLastBlocks never meets       *)
(* another block (addToLastBlocks, loadLastBlocksSortedByHeight), until a  *)
(* walk ends on a window that a failed commit and a failed reload left     *)
(* without the tip.                                                        *)
(***************************************************************************)
THEOREM WindowUnbroken == Spec => []WindowFollowsBranch
  <1>1. ASSUME IInv, WInv PROVE WindowFollowsBranch
    <2>1. CASE pc = "walk"
      BY <1>1, <2>1 DEF IInv, TypeOK, WInv, WindowIsBranch, BranchTo, WindowFollowsBranch
    <2>2. CASE pc = "rollback"
      BY <1>1, <2>2 DEF WInv, WindowIsBranch, BranchTo, WindowFollowsBranch
    <2>3. CASE pc \in {"index", "cleanup"}
      BY <1>1, <2>3 DEF WInv, WindowIsBranch, BranchTo, WindowFollowsBranch
    <2> QED
      BY <2>1, <2>2, <2>3 DEF WindowFollowsBranch
  <1> QED
    BY <1>1, SpecIInv, SpecWInv, PTL

(***************************************************************************)
(* The tracker halts for a resync only when the tip's undo records are     *)
(* gone, the walk has rolled back all that UNDO_BLOCKS allows, or the last *)
(* block of the window was popped by an attempt whose commit and reload    *)
(* failed (refuseRollbackPastWindow, removeFromLastBlocks).                *)
(***************************************************************************)
THEOREM HaltJustified == Spec => []HaltIsJustified
  <1>1. WInv => HaltIsJustified
    BY DEF WInv
  <1> QED
    BY <1>1, SpecWInv, PTL

-----------------------------------------------------------------------------
(***************************************************************************)
(* HistoryIndex, for every script and transaction set: the first-seen      *)
(* heights and the transaction index are those of the branch of the        *)
(* committed tip, the per-block records hold what a rollback has to        *)
(* delete, and the persisted watermark was reached.  The store's own       *)
(* invariant is used throughout: every step of HNext is a step of Next.    *)
(***************************************************************************)

(***************************************************************************)
(* The strengthening.  A commit is exact because the batch over the disk   *)
(* is the history of the cursor; staging is exact because the cache names  *)
(* only scripts the branch has paid, in whichever state the walk, a failed *)
(* rollback or a discarded batch left it.                                  *)
(***************************************************************************)

\* The scripts block b is the first of its branch to pay.
FirstPaid(b) == {s \in Pays(b) : Seen[b][s] = Height[b]}

HTyped ==
    /\ seenIn \in [Block -> SUBSET Script] /\ txRecovery \in [Block -> SUBSET Tx]
    /\ stagedSeenIn \in [Block -> SUBSET Script]
    /\ stagedSeen \in [Script -> Stored] /\ stagedTx \in [Tx -> Tip]

\* No history is staged outside indexing.
HistoryOnlyWhileIndexing ==
    pc # "index" => stagedSeen = NoScripts /\ stagedSeenIn = PerBlock /\ stagedTx = NoTxs

\* The batch applied to the disk is the history of the cursor.
BatchIsHistoryOfCursor ==
    pc \in {"index", "cleanup"} =>
        /\ \A s \in Script : Seen[cursor][s] = IF stagedSeen[s] # NoRec THEN stagedSeen[s] ELSE Seen[tip][s]
        /\ \A x \in Tx : Mined[cursor][x] = IF stagedTx[x] # Root THEN stagedTx[x] ELSE Mined[tip][x]

\* Each staged block has its Z records staged, and no other block has.
StagedSeenInComplete ==
    \A b \in Block : stagedSeenIn[b] = IF b \in stagedBlocks THEN FirstPaid(b) ELSE {}

\* A cached script has been paid on the branch the process works on.
KnownIsSeen ==
    \A s \in knownScripts \cap Script :
        /\ pc \in {"index", "cleanup"} => Seen[cursor][s] # NoRec
        /\ pc = "walk" => Seen[tip][s] # NoRec
        /\ pc = "rollback" => Seen[Parent[tip]][s] # NoRec

HistInv ==
    /\ HTyped /\ FirstSeenExact /\ TxIndexExact /\ ReverseIndexesComplete
    /\ HistoryOnlyWhileIndexing /\ BatchIsHistoryOfCursor /\ StagedSeenInComplete /\ KnownIsSeen

(***************************************************************************)
(* The watermark.  A staged mark is one the flush reaches; the tracker's   *)
(* copy may exceed what was reached, but only when its persisted copy says *)
(* the same, and then it is not staged again.                              *)
(***************************************************************************)
MarkInv ==
    /\ {mark, stagedMark, undoWindowWatermark, undoWindowWatermarkPersisted, deepest} \subseteq Nat
    /\ MarkWasReached
    /\ undoWindowWatermark <= deepest \/ undoWindowWatermarkPersisted = undoWindowWatermark
    /\ stagedMark # NoPut => /\ pc = "index" /\ stagedBlocks # {}
                             /\ stagedMark <= deepest \/ stagedMark <= Len(lastBlocks)
    /\ pc = "index" /\ stagedBlocks # {} => Len(lastBlocks) <= undoBlocks

HInv == IInv /\ HistInv /\ MarkInv

-----------------------------------------------------------------------------
\* One block's part of the history.
LEMMA BlockHistory ==
    ASSUME NEW b \in Block
    PROVE  /\ Pays(b) \subseteq Script /\ TxsIn(b) \subseteq Tx
           /\ Seen[b] = [s \in Script |-> Seen[b][s]] /\ Mined[b] = [x \in Tx |-> Mined[b][x]]
           /\ \A s \in Script : Seen[b][s] = IF Seen[Parent[b]][s] = NoRec /\ s \in Pays(b)
                                             THEN Height[b] ELSE Seen[Parent[b]][s]
           /\ \A x \in Tx : Mined[b][x] = IF x \in TxsIn(b) THEN b ELSE Mined[Parent[b]][x]
           /\ \A x \in TxsIn(b) : Mined[Parent[b]][x] = Root
  <1>1. Creates[b] \subseteq Out
    BY BlockFacts
  <1>2. PaysTo \in [Out -> Script] /\ TxOf \in [Out -> Tx]
    BY HistoryAssumption
  <1>3. Pays(b) \subseteq Script /\ TxsIn(b) \subseteq Tx
    BY <1>1, <1>2 DEF Pays, TxsIn
  <1>4. /\ Seen[b] = [s \in Script |-> IF Seen[Parent[b]][s] = NoRec /\ s \in Pays(b)
                                       THEN Height[b] ELSE Seen[Parent[b]][s]]
        /\ Mined[b] = [x \in Tx |-> IF x \in TxsIn(b) THEN b ELSE Mined[Parent[b]][x]]
        /\ \A x \in TxsIn(b) : Mined[Parent[b]][x] = Root
    BY HistoryAssumption
  <1> QED
    BY <1>3, <1>4

\* No script was first paid above the tip of its branch.
LEMMA SeenIsBelow ==
    ASSUME NEW t \in Tip, NEW s \in Script
    PROVE  Seen[t][s] \in Stored /\ Seen[t][s] <= Height[t]
  <1> DEFINE S == {u \in Tip : Seen[u][s] \in Stored /\ Seen[u][s] <= Height[u]}
  <1>1. Root \in S
    BY HistoryAssumption, TreeAssumption DEF Tip, NoRec, Stored
  <1>2. ASSUME NEW b \in Block, Parent[b] \in S PROVE b \in S
    <2>1. b \in Tip /\ Parent[b] \in Tip /\ Height[b] \in Nat /\ Height[b] = Height[Parent[b]] + 1
      BY BlockFacts
    <2>2. Height[Parent[b]] \in Int
      BY <2>1, TipFacts
    <2>3. Seen[b][s] = Height[b] \/ Seen[b][s] = Seen[Parent[b]][s]
      BY BlockHistory
    <2>4. Seen[Parent[b]][s] \in Stored /\ Seen[Parent[b]][s] <= Height[Parent[b]]
      BY <1>2
    <2>5. Seen[b][s] \in Stored /\ Seen[b][s] <= Height[b]
      BY <2>1, <2>2, <2>3, <2>4 DEF Stored, NoRec
    <2> QED
      BY <2>1, <2>5
  <1>3. Tip \subseteq S
    <2> HIDE DEF S
    <2> QED
      BY <1>1, <1>2, TreeInduction
  <1> QED
    BY <1>3

\* The history of a tip is a function on the scripts and the transactions.
LEMMA HistoryOfTip ==
    ASSUME NEW t \in Tip
    PROVE  /\ Seen[t] \in [Script -> Stored]
           /\ Mined[t] = [x \in Tx |-> Mined[t][x]]
  <1>1. Seen[t] = [s \in Script |-> Seen[t][s]] /\ Mined[t] = [x \in Tx |-> Mined[t][x]]
    <2>1. CASE t = Root
      BY <2>1, HistoryAssumption
    <2>2. CASE t \in Block
      BY <2>2, BlockHistory
    <2> QED
      BY <2>1, <2>2 DEF Tip
  <1>2. \A s \in Script : Seen[t][s] \in Stored
    BY SeenIsBelow
  <1> QED
    BY <1>1, <1>2

\* The scripts a block pays first are those its parent's branch has not paid;
\* they and no others change their height with it.
LEMMA FirstPaidFacts ==
    ASSUME NEW b \in Block
    PROVE  /\ FirstPaid(b) = {s \in Pays(b) : Seen[Parent[b]][s] = NoRec}
           /\ FirstPaid(b) \subseteq Script
           /\ \A s \in Script : Seen[b][s] = IF s \in FirstPaid(b) THEN Height[b] ELSE Seen[Parent[b]][s]
           /\ \A s \in FirstPaid(b) : Seen[Parent[b]][s] = NoRec
           /\ \A s \in Pays(b) : Seen[b][s] # NoRec
           /\ Height[b] # NoRec
  <1>1. /\ Parent[b] \in Tip /\ Height[b] \in Nat /\ Height[b] = Height[Parent[b]] + 1
        /\ Pays(b) \subseteq Script
    BY BlockFacts, BlockHistory
  <1>2. Height[Parent[b]] \in Int /\ Height[b] # NoRec
    BY <1>1, TipFacts DEF NoRec
  <1>3. ASSUME NEW s \in Script
        PROVE  Seen[Parent[b]][s] # Height[b]
    BY <1>1, <1>2, SeenIsBelow DEF Stored, NoRec
  <1>4. \A s \in Script : Seen[b][s] = IF Seen[Parent[b]][s] = NoRec /\ s \in Pays(b)
                                       THEN Height[b] ELSE Seen[Parent[b]][s]
    BY BlockHistory
  <1> QED
    BY <1>1, <1>2, <1>3, <1>4 DEF FirstPaid

-----------------------------------------------------------------------------
\* A step of the history is a step of the store.
LEMMA HNextIsNext == [HNext]_hvars => [Next]_vars
  <1> SUFFICES ASSUME [HNext]_hvars PROVE [Next]_vars
    OBVIOUS
  <1>1. CASE HNext
    BY <1>1 DEF HNext, Next, HStart, HCrash, HStageBlock, HFlush, HCleanup, HReorgDetected, HTipBelowOurs,
                HStageRollback, HCommitRollback, HFailRollback, HEndWalk, HHalt
  <1>2. CASE UNCHANGED hvars
    BY <1>2 DEF hvars
  <1> QED
    BY <1>1, <1>2

LEMMA HNextIInv == IInv /\ [HNext]_hvars => IInv'
  BY HNextIsNext, NextIInv

\* The empty store has the empty history.
LEMMA InitHistInv == HInit => HistInv
  <1> SUFFICES ASSUME HInit PROVE HistInv
    OBVIOUS
  <1>1. /\ Seen[Root] = NoScripts /\ Mined[Root] = NoTxs /\ Root \in Tip
    BY HistoryAssumption DEF NoScripts, NoTxs, Tip
  <1>2. tip = Root /\ cursor = Root /\ pc = "down" /\ stored = {} /\ stagedBlocks = {}
    BY DEF HInit, Init
  <1>3. HTyped
    BY <1>1 DEF HInit, HTyped, PerBlock, NoScripts, NoTxs, Stored
  <1>4. FirstSeenExact /\ TxIndexExact
    BY <1>1, <1>2 DEF HInit, FirstSeenExact, TxIndexExact
  <1>5. ReverseIndexesComplete /\ StagedSeenInComplete
    BY <1>2 DEF HInit, ReverseIndexesComplete, StagedSeenInComplete, PerBlock
  <1>6. HistoryOnlyWhileIndexing /\ BatchIsHistoryOfCursor /\ KnownIsSeen
    BY <1>2 DEF HInit, HistoryOnlyWhileIndexing, BatchIsHistoryOfCursor, KnownIsSeen
  <1> QED
    BY <1>3, <1>4, <1>5, <1>6 DEF HistInv

-----------------------------------------------------------------------------
(***************************************************************************)
(* A step that leaves the disk as it is and no batch open: a start, a      *)
(* crash, the entry and the end of a walk, a rollback staged or failed.    *)
(* What is left to show of it is that the cache agrees with the branch.    *)
(***************************************************************************)
LEMMA NoBatchHistInv ==
    ASSUME IInv, HistInv, UNCHANGED <<history, tip, stored>>,
           stagedSeen' = NoScripts, stagedSeenIn' = PerBlock, stagedTx' = NoTxs, stagedBlocks' = {},
           pc' \in {"index", "cleanup"} => cursor' = tip, KnownIsSeen'
    PROVE  HistInv'
  <1>1. tip \in Tip
    BY DEF IInv, TypeOK
  <1>2. HTyped'
    BY DEF HistInv, HTyped, history, PerBlock, NoScripts, NoTxs, Stored, Tip
  <1>3. FirstSeenExact' /\ TxIndexExact' /\ ReverseIndexesComplete'
    BY DEF HistInv, FirstSeenExact, TxIndexExact, ReverseIndexesComplete, history
  <1>4. HistoryOnlyWhileIndexing' /\ StagedSeenInComplete'
    BY DEF HistoryOnlyWhileIndexing, StagedSeenInComplete, PerBlock
  <1>5. BatchIsHistoryOfCursor'
    BY DEF BatchIsHistoryOfCursor, NoScripts, NoTxs
  <1> QED
    BY <1>2, <1>3, <1>4, <1>5 DEF HistInv

LEMMA StartHistInv ==
    ASSUME IInv, HistInv, NEW setting \in UndoSettings, HStart(setting)
    PROVE  HistInv'
  <1>1. pc = "down" /\ cursor' = tip /\ UNCHANGED <<tip, stored, stagedBlocks>> /\ knownScripts' = {}
        /\ UNCHANGED <<history, stagedSeen, stagedSeenIn, stagedTx>>
    BY DEF HStart, Start, disk, batch, hbatch
  <1>2. /\ stagedSeen = NoScripts /\ stagedSeenIn = PerBlock /\ stagedTx = NoTxs /\ stagedBlocks = {}
    BY <1>1 DEF HistInv, HistoryOnlyWhileIndexing, IInv, BatchOnlyWhileIndexing
  <1> QED
    BY <1>1, <1>2, NoBatchHistInv DEF KnownIsSeen

LEMMA CrashHistInv ==
    ASSUME IInv, HistInv, HCrash
    PROVE  HistInv'
  BY NoBatchHistInv DEF HCrash, Crash, disk, NoHistoryStaged, KnownIsSeen

\* The cache is emptied with the batch; without a batch it is of the tip.
LEMMA DiscardHistInv ==
    ASSUME IInv, HistInv, HReorgDetected \/ HTipBelowOurs
    PROVE  HistInv'
  <1>1. /\ pc = "index" /\ pc' = "walk" /\ UNCHANGED <<tip, stored>> /\ UNCHANGED history
        /\ stagedSeen' = NoScripts /\ stagedSeenIn' = PerBlock /\ stagedTx' = NoTxs /\ stagedBlocks' = {}
        /\ knownScripts' = {} \/ (stagedBlocks = {} /\ knownScripts' = knownScripts)
    BY DEF HReorgDetected, HTipBelowOurs, ReorgDetected, TipBelowOurs, DiscardAndWalk, NoHistoryStaged,
           KnownAfterDiscard
  <1>2. stagedBlocks = {} => cursor = tip
    BY <1>1 DEF IInv, BatchIsBranch
  <1>3. KnownIsSeen'
    BY <1>1, <1>2 DEF HistInv, KnownIsSeen
  <1> QED
    BY <1>1, <1>3, NoBatchHistInv

\* removeOutputScriptsInBlock empties the cache when the tip was the first to
\* pay a script; otherwise its parent's branch has paid the same ones.
LEMMA StageRollbackHistInv ==
    ASSUME IInv, HistInv, HStageRollback
    PROVE  HistInv'
  <1>1. /\ pc = "walk" /\ pc' = "rollback" /\ UNCHANGED <<tip, stored, stagedBlocks, history>>
        /\ UNCHANGED <<stagedSeen, stagedSeenIn, stagedTx>>
        /\ knownScripts' = IF seenIn[tip] # {} THEN {} ELSE knownScripts
    BY DEF HStageRollback, StageRollback, disk, batch, hbatch
  <1>2. stagedSeen = NoScripts /\ stagedSeenIn = PerBlock /\ stagedTx = NoTxs /\ stagedBlocks = {}
    BY <1>1 DEF HistInv, HistoryOnlyWhileIndexing, IInv, BatchOnlyWhileIndexing
  <1>3. tip \in stored
    <2>1. StageRollback
      BY DEF HStageRollback
    <2>2. IInv'
      BY <2>1, StageRollbackIInv
    <2> QED
      BY <1>1, <2>2 DEF IInv, StoredIsBranch
  <1>4. tip \in Block
    BY <1>3 DEF IInv, TypeOK
  <1>5. seenIn[tip] = FirstPaid(tip)
    BY <1>3, <1>4 DEF HistInv, ReverseIndexesComplete, FirstPaid
  <1>6. ASSUME NEW s \in Script, seenIn[tip] = {}
        PROVE  Seen[tip][s] = Seen[Parent[tip]][s]
    <2>1. Seen[tip][s] = IF s \in FirstPaid(tip) THEN Height[tip] ELSE Seen[Parent[tip]][s]
      BY <1>4, FirstPaidFacts
    <2> QED
      BY <1>5, <1>6, <2>1
  <1>7. KnownIsSeen'
    BY <1>1, <1>6 DEF HistInv, KnownIsSeen
  <1> QED
    BY <1>1, <1>2, <1>7, NoBatchHistInv

LEMMA FailRollbackHistInv ==
    ASSUME IInv, HistInv, HFailRollback
    PROVE  HistInv'
  <1>1. /\ pc \in {"walk", "rollback"} /\ pc' = "walk" /\ UNCHANGED <<tip, stored, stagedBlocks, history>>
        /\ UNCHANGED <<stagedSeen, stagedSeenIn, stagedTx>> /\ knownScripts' = {}
    BY DEF HFailRollback, FailRollback, disk, batch, hbatch, KnownAfterDiscard
  <1>2. stagedSeen = NoScripts /\ stagedSeenIn = PerBlock /\ stagedTx = NoTxs /\ stagedBlocks = {}
    BY <1>1 DEF HistInv, HistoryOnlyWhileIndexing, IInv, BatchOnlyWhileIndexing
  <1> QED
    BY <1>1, <1>2, NoBatchHistInv DEF KnownIsSeen

LEMMA EndWalkHistInv ==
    ASSUME IInv, HistInv, HEndWalk \/ HHalt
    PROVE  HistInv'
  <1>1. /\ pc = "walk" /\ UNCHANGED <<tip, stored, stagedBlocks, history>>
        /\ UNCHANGED <<stagedSeen, stagedSeenIn, stagedTx, knownScripts>>
        /\ pc' = "halted" \/ (cursor' = tip /\ pc' \in {"index", "cleanup"})
    BY DEF HEndWalk, EndWalk, HHalt, HaltForResync, disk, batch, hbatch, IInv, TypeOK
  <1>2. stagedSeen = NoScripts /\ stagedSeenIn = PerBlock /\ stagedTx = NoTxs /\ stagedBlocks = {}
    BY <1>1 DEF HistInv, HistoryOnlyWhileIndexing, IInv, BatchOnlyWhileIndexing
  <1>3. KnownIsSeen'
    BY <1>1 DEF HistInv, KnownIsSeen
  <1> QED
    BY <1>1, <1>2, <1>3, NoBatchHistInv

-----------------------------------------------------------------------------
(***************************************************************************)
(* Staging a block: insertOutputScriptBlock writes an S record for exactly *)
(* the scripts its branch pays for the first time, since a trusted cache   *)
(* entry stands for a record of the branch.                                *)
(***************************************************************************)
LEMMA NewScriptsExact ==
    ASSUME HistInv, pc = "index", NEW b \in Block, Parent[b] = cursor,
           NEW trusted, trusted \subseteq knownScripts
    PROVE  NewScripts(b, trusted) = FirstPaid(b)
  <1>1. FirstPaid(b) = {s \in Pays(b) : Seen[cursor][s] = NoRec} /\ Pays(b) \subseteq Script
    BY FirstPaidFacts, BlockHistory
  <1>2. ASSUME NEW s \in Script
        PROVE  (stagedSeen[s] = NoRec /\ firstSeen[s] = NoRec) <=> Seen[cursor][s] = NoRec
    BY DEF HistInv, BatchIsHistoryOfCursor, FirstSeenExact
  <1>3. \A s \in trusted \cap Script : Seen[cursor][s] # NoRec
    BY DEF HistInv, KnownIsSeen
  <1> QED
    BY <1>1, <1>2, <1>3 DEF NewScripts

LEMMA StageBlockHistInv ==
    ASSUME IInv, HistInv, NEW b \in Block, HStageBlock(b)
    PROVE  HistInv'
  <1>1. /\ pc = "index" /\ pc' = "index" /\ Parent[b] = cursor /\ cursor' = b /\ stored' = stored /\ tip' = tip
        /\ stagedBlocks' = stagedBlocks \cup {b} /\ UNCHANGED history
    BY DEF HStageBlock, StageBlock, disk
  <1>2. PICK trusted \in SUBSET knownScripts :
            StageHistory(b, trusted) /\ knownScripts' \subseteq knownScripts \cup Pays(b)
    BY DEF HStageBlock
  <1>3. NewScripts(b, trusted) = FirstPaid(b)
    BY <1>1, NewScriptsExact
  <1>4. /\ stagedSeen' = [s \in Script |-> IF s \in FirstPaid(b) THEN Height[b] ELSE stagedSeen[s]]
        /\ stagedSeenIn' = [stagedSeenIn EXCEPT ![b] = @ \cup FirstPaid(b)]
        /\ stagedTx' = [x \in Tx |-> IF x \in TxsIn(b) THEN b ELSE stagedTx[x]]
    BY <1>2, <1>3 DEF StageHistory
  <1>5. /\ FirstPaid(b) \subseteq Script /\ Height[b] \in Nat /\ Height[b] # NoRec /\ b \in Tip /\ b # Root
        /\ \A s \in Script : Seen[b][s] = IF s \in FirstPaid(b) THEN Height[b] ELSE Seen[cursor][s]
        /\ \A s \in Pays(b) : Seen[b][s] # NoRec
    BY <1>1, FirstPaidFacts, BlockFacts, TreeAssumption
  <1>6. HTyped'
    <2>1. stagedSeen' \in [Script -> Stored]
      BY <1>4, <1>5 DEF HistInv, HTyped, Stored
    <2>2. stagedTx' \in [Tx -> Tip]
      BY <1>4, <1>5 DEF HistInv, HTyped
    <2>3. stagedSeenIn' \in [Block -> SUBSET Script]
      BY <1>4, <1>5 DEF HistInv, HTyped
    <2> QED
      BY <1>1, <2>1, <2>2, <2>3 DEF HistInv, HTyped, history
  <1>7. FirstSeenExact' /\ TxIndexExact' /\ ReverseIndexesComplete'
    BY <1>1 DEF HistInv, FirstSeenExact, TxIndexExact, ReverseIndexesComplete, history
  <1>8. HistoryOnlyWhileIndexing'
    BY <1>1 DEF HistoryOnlyWhileIndexing
  <1>9. BatchIsHistoryOfCursor'
    <2>1. ASSUME NEW s \in Script
          PROVE  Seen[b][s] = IF stagedSeen'[s] # NoRec THEN stagedSeen'[s] ELSE Seen[tip][s]
      <3>1. Seen[cursor][s] = IF stagedSeen[s] # NoRec THEN stagedSeen[s] ELSE Seen[tip][s]
        BY <1>1 DEF HistInv, BatchIsHistoryOfCursor
      <3> QED
        BY <1>4, <1>5, <3>1
    <2>2. ASSUME NEW x \in Tx
          PROVE  Mined[b][x] = IF stagedTx'[x] # Root THEN stagedTx'[x] ELSE Mined[tip][x]
      <3>1. Mined[cursor][x] = IF stagedTx[x] # Root THEN stagedTx[x] ELSE Mined[tip][x]
        BY <1>1 DEF HistInv, BatchIsHistoryOfCursor
      <3>2. Mined[b][x] = IF x \in TxsIn(b) THEN b ELSE Mined[cursor][x]
        BY <1>1, BlockHistory
      <3> QED
        BY <1>4, <1>5, <3>1, <3>2
    <2> QED
      BY <1>1, <2>1, <2>2 DEF BatchIsHistoryOfCursor
  <1>10. StagedSeenInComplete'
    <2> SUFFICES ASSUME NEW c \in Block
                 PROVE  stagedSeenIn'[c] = IF c \in stagedBlocks' THEN FirstPaid(c) ELSE {}
      BY DEF StagedSeenInComplete, FirstPaid, Pays
    <2>1. stagedSeenIn[c] = IF c \in stagedBlocks THEN FirstPaid(c) ELSE {}
      BY DEF HistInv, StagedSeenInComplete
    <2>2. stagedSeenIn'[c] = IF c = b THEN stagedSeenIn[c] \cup FirstPaid(c) ELSE stagedSeenIn[c]
      BY <1>4 DEF HistInv, HTyped
    <2> QED
      BY <1>1, <2>1, <2>2
  <1>11. KnownIsSeen'
    <2> SUFFICES ASSUME NEW s \in knownScripts' \cap Script PROVE Seen[b][s] # NoRec
      BY <1>1 DEF KnownIsSeen
    <2>1. CASE s \in Pays(b)
      BY <1>5, <2>1
    <2>2. CASE s \notin Pays(b)
      <3>1. Seen[cursor][s] # NoRec
        BY <1>1, <1>2, <2>2 DEF HistInv, KnownIsSeen
      <3> QED
        BY <1>5, <3>1
    <2> QED
      BY <2>1, <2>2
  <1> QED
    BY <1>6, <1>7, <1>8, <1>9, <1>10, <1>11 DEF HistInv

\* The commit makes the history of the cursor that of the tip.
LEMMA FlushHistInv ==
    ASSUME IInv, HistInv, HFlush
    PROVE  HistInv'
  <1>1. /\ pc = "index" /\ pc' = "cleanup" /\ cursor' = cursor /\ tip' = cursor /\ stagedBlocks' = {}
        /\ stored' = stored \cup stagedBlocks /\ stagedBlocks \subseteq Block /\ stored \subseteq Block
        /\ stagedSeen' = NoScripts /\ stagedSeenIn' = PerBlock /\ stagedTx' = NoTxs
        /\ knownScripts' = knownScripts /\ cursor \in Tip
    BY DEF HFlush, Flush, NoHistoryStaged, IInv, TypeOK
  <1>2. FirstSeenExact' /\ TxIndexExact'
    <2>1. /\ Seen[cursor] \in [Script -> Stored] /\ Mined[cursor] = [x \in Tx |-> Mined[cursor][x]]
      BY <1>1, HistoryOfTip
    <2>2. /\ firstSeen' = [s \in Script |-> IF stagedSeen[s] # NoRec THEN stagedSeen[s] ELSE Seen[tip][s]]
          /\ txBlock' = [x \in Tx |-> IF stagedTx[x] # Root THEN stagedTx[x] ELSE Mined[tip][x]]
      BY DEF HFlush, HistInv, FirstSeenExact, TxIndexExact
    <2>3. /\ \A s \in Script : Seen[cursor][s] = IF stagedSeen[s] # NoRec THEN stagedSeen[s] ELSE Seen[tip][s]
          /\ \A x \in Tx : Mined[cursor][x] = IF stagedTx[x] # Root THEN stagedTx[x] ELSE Mined[tip][x]
      BY <1>1 DEF HistInv, BatchIsHistoryOfCursor
    <2>4. firstSeen' = Seen[cursor]
      BY <2>1, <2>2, <2>3
    <2>5. txBlock' = Mined[cursor]
      BY <2>1, <2>2, <2>3
    <2> QED
      BY <1>1, <2>4, <2>5 DEF FirstSeenExact, TxIndexExact
  <1>3. ASSUME NEW b \in Block
        PROVE  /\ seenIn'[b] = IF b \in stored' THEN FirstPaid(b) ELSE {}
               /\ txRecovery'[b] = IF b \in stored' THEN TxsIn(b) ELSE {}
    <2>1. /\ seenIn[b] = IF b \in stored THEN FirstPaid(b) ELSE {}
          /\ txRecovery[b] = IF b \in stored THEN TxsIn(b) ELSE {}
      BY DEF HistInv, ReverseIndexesComplete, FirstPaid
    <2>2. stagedSeenIn[b] = IF b \in stagedBlocks THEN FirstPaid(b) ELSE {}
      BY DEF HistInv, StagedSeenInComplete
    <2>3. /\ seenIn'[b] = seenIn[b] \cup stagedSeenIn[b]
          /\ txRecovery'[b] = IF b \in stagedBlocks THEN txRecovery[b] \cup TxsIn(b) ELSE txRecovery[b]
      BY DEF HFlush
    <2> QED
      BY <1>1, <2>1, <2>2, <2>3
  <1>4. ReverseIndexesComplete'
    BY <1>3 DEF ReverseIndexesComplete, FirstPaid, Pays, TxsIn
  <1>5. HTyped'
    <2>1. seenIn' \in [Block -> SUBSET Script]
      BY DEF HFlush, HistInv, HTyped
    <2>2. txRecovery' \in [Block -> SUBSET Tx]
      BY BlockHistory DEF HFlush, HistInv, HTyped
    <2> QED
      BY <1>1, <2>1, <2>2 DEF HTyped, PerBlock, NoScripts, NoTxs, Stored, Tip
  <1>6. HistoryOnlyWhileIndexing' /\ StagedSeenInComplete'
    BY <1>1 DEF HistoryOnlyWhileIndexing, StagedSeenInComplete, PerBlock
  <1>7. BatchIsHistoryOfCursor' /\ KnownIsSeen'
    BY <1>1 DEF HistInv, BatchIsHistoryOfCursor, KnownIsSeen, NoScripts, NoTxs
  <1> QED
    BY <1>2, <1>4, <1>5, <1>6, <1>7 DEF HistInv

\* Pruning takes the Z and Y records with the N record, and nothing else.
LEMMA CleanupHistInv ==
    ASSUME IInv, HistInv, HCleanup
    PROVE  HistInv'
  <1>1. /\ pc = "cleanup" /\ pc' = "index" /\ UNCHANGED <<tip, cursor, stagedBlocks>>
        /\ stored' = stored \ ToClean /\ UNCHANGED <<stagedSeen, stagedSeenIn, stagedTx, knownScripts>>
        /\ firstSeen' = firstSeen /\ txBlock' = txBlock
        /\ seenIn' = [b \in Block |-> IF b \in ToClean THEN {} ELSE seenIn[b]]
        /\ txRecovery' = [b \in Block |-> IF b \in ToClean THEN {} ELSE txRecovery[b]]
    BY DEF HCleanup, CleanupAgedBlocks, FirstSeenKept, batch, hbatch
  <1>2. HTyped'
    <2>1. seenIn' \in [Block -> SUBSET Script] /\ txRecovery' \in [Block -> SUBSET Tx]
      BY <1>1 DEF HistInv, HTyped
    <2> QED
      BY <1>1, <2>1 DEF HistInv, HTyped
  <1>3. FirstSeenExact' /\ TxIndexExact'
    BY <1>1 DEF HistInv, FirstSeenExact, TxIndexExact
  <1>4. ReverseIndexesComplete'
    BY <1>1 DEF HistInv, ReverseIndexesComplete
  <1>5. HistoryOnlyWhileIndexing' /\ BatchIsHistoryOfCursor' /\ StagedSeenInComplete' /\ KnownIsSeen'
    BY <1>1 DEF HistInv, HistoryOnlyWhileIndexing, BatchIsHistoryOfCursor, StagedSeenInComplete, KnownIsSeen
  <1> QED
    BY <1>2, <1>3, <1>4, <1>5 DEF HistInv

(***************************************************************************)
(* A committed rollback: the S records the tip wrote and the T records of  *)
(* its transactions go, and that is the parent's history.                  *)
(***************************************************************************)
LEMMA CommitRollbackHistInv ==
    ASSUME IInv, HistInv, HCommitRollback
    PROVE  HistInv'
  <1>1. /\ pc = "rollback" /\ pc' = "walk" /\ tip' = Parent[tip] /\ stored' = stored \ {tip}
        /\ UNCHANGED <<stagedBlocks, stagedSeen, stagedSeenIn, stagedTx, knownScripts>>
        /\ firstSeen' = [s \in Script |-> IF s \in seenIn[tip] THEN NoRec ELSE firstSeen[s]]
        /\ seenIn' = [seenIn EXCEPT ![tip] = {}]
        /\ txBlock' = [x \in Tx |-> IF x \in RolledBackTxs(tip) THEN Root ELSE txBlock[x]]
        /\ txRecovery' = [txRecovery EXCEPT ![tip] = @ \ {TxOf[o] : o \in created[tip]}]
    BY DEF HCommitRollback, CommitRollback, RecoveryRemoved, batch, hbatch
  <1>2. tip \in stored /\ tip \in Block
    BY <1>1 DEF IInv, StoredIsBranch, TypeOK
  <1>3. Parent[tip] \in Tip
    BY <1>2, BlockFacts
  <1>4. {TxOf[o] : o \in created[tip]} = TxsIn(tip)
    BY <1>2 DEF IInv, UndoRecordsComplete, TxsIn
  <1>5. seenIn[tip] = FirstPaid(tip) /\ txRecovery[tip] = TxsIn(tip)
    BY <1>2 DEF HistInv, ReverseIndexesComplete, FirstPaid
  <1>6. firstSeen' = Seen[Parent[tip]]
    <2>1. Seen[Parent[tip]] \in [Script -> Stored]
      BY <1>3, HistoryOfTip
    <2>2. /\ \A s \in Script : Seen[tip][s] = IF s \in FirstPaid(tip) THEN Height[tip] ELSE Seen[Parent[tip]][s]
          /\ \A s \in FirstPaid(tip) : Seen[Parent[tip]][s] = NoRec
      BY <1>2, FirstPaidFacts
    <2>3. firstSeen' = [s \in Script |-> IF s \in FirstPaid(tip) THEN NoRec ELSE Seen[tip][s]]
      BY <1>1, <1>5 DEF HistInv, FirstSeenExact
    <2> QED
      BY <2>1, <2>2, <2>3
  <1>7. txBlock' = Mined[Parent[tip]]
    <2>1. Mined[Parent[tip]] = [x \in Tx |-> Mined[Parent[tip]][x]]
      BY <1>3, HistoryOfTip
    <2>2. /\ \A x \in Tx : Mined[tip][x] = IF x \in TxsIn(tip) THEN tip ELSE Mined[Parent[tip]][x]
          /\ \A x \in TxsIn(tip) : Mined[Parent[tip]][x] = Root
          /\ TxsIn(tip) \subseteq Tx
      BY <1>2, BlockHistory
    <2>3. \A x \in TxsIn(tip) : txBlock[x] = tip
      BY <2>2 DEF HistInv, TxIndexExact
    <2>4. RolledBackTxs(tip) = TxsIn(tip)
      BY <1>4, <2>3 DEF RolledBackTxs
    <2>5. txBlock' = [x \in Tx |-> IF x \in TxsIn(tip) THEN Root ELSE Mined[tip][x]]
      BY <1>1, <2>4 DEF HistInv, TxIndexExact
    <2> QED
      BY <2>1, <2>2, <2>5
  <1>8. FirstSeenExact' /\ TxIndexExact'
    BY <1>1, <1>6, <1>7 DEF FirstSeenExact, TxIndexExact
  <1>9. HTyped'
    <2>1. seenIn' \in [Block -> SUBSET Script] /\ txRecovery' \in [Block -> SUBSET Tx]
      BY <1>1 DEF HistInv, HTyped
    <2> QED
      BY <1>1, <2>1 DEF HistInv, HTyped
  <1>10. ReverseIndexesComplete'
    <2> SUFFICES ASSUME NEW b \in Block
                 PROVE  /\ seenIn'[b] = IF b \in stored' THEN FirstPaid(b) ELSE {}
                        /\ txRecovery'[b] = IF b \in stored' THEN TxsIn(b) ELSE {}
      BY DEF ReverseIndexesComplete, FirstPaid, Pays, TxsIn
    <2>1. /\ seenIn[b] = IF b \in stored THEN FirstPaid(b) ELSE {}
          /\ txRecovery[b] = IF b \in stored THEN TxsIn(b) ELSE {}
      BY DEF HistInv, ReverseIndexesComplete, FirstPaid
    <2>2. /\ seenIn'[b] = IF b = tip THEN {} ELSE seenIn[b]
          /\ txRecovery'[b] = IF b = tip THEN txRecovery[b] \ TxsIn(b) ELSE txRecovery[b]
      BY <1>1, <1>4 DEF HistInv, HTyped
    <2> QED
      BY <1>1, <2>1, <2>2
  <1>11. HistoryOnlyWhileIndexing' /\ BatchIsHistoryOfCursor' /\ StagedSeenInComplete'
    BY <1>1 DEF HistInv, HistoryOnlyWhileIndexing, BatchIsHistoryOfCursor, StagedSeenInComplete
  <1>12. KnownIsSeen'
    BY <1>1 DEF HistInv, KnownIsSeen
  <1> QED
    BY <1>8, <1>9, <1>10, <1>11, <1>12 DEF HistInv

\* One step per action.
LEMMA NextHistInv == IInv /\ HistInv /\ [HNext]_hvars => HistInv'
  <1> SUFFICES ASSUME IInv, HistInv, [HNext]_hvars PROVE HistInv'
    OBVIOUS
  <1>1. ASSUME NEW setting \in UndoSettings, HStart(setting) PROVE HistInv'
    BY <1>1, StartHistInv
  <1>2. CASE HCrash
    BY <1>2, CrashHistInv
  <1>3. ASSUME NEW b \in Block, HStageBlock(b) PROVE HistInv'
    BY <1>3, StageBlockHistInv
  <1>4. CASE HFlush
    BY <1>4, FlushHistInv
  <1>5. CASE HCleanup
    BY <1>5, CleanupHistInv
  <1>6. CASE HReorgDetected \/ HTipBelowOurs
    BY <1>6, DiscardHistInv
  <1>7. CASE HStageRollback
    BY <1>7, StageRollbackHistInv
  <1>8. CASE HCommitRollback
    BY <1>8, CommitRollbackHistInv
  <1>9. CASE HFailRollback
    BY <1>9, FailRollbackHistInv
  <1>10. CASE HEndWalk \/ HHalt
    BY <1>10, EndWalkHistInv
  <1>11. CASE UNCHANGED hvars
    BY <1>11 DEF hvars, vars, disk, batch, history, hbatch, HistInv, HTyped, FirstSeenExact, TxIndexExact,
                 ReverseIndexesComplete, HistoryOnlyWhileIndexing, BatchIsHistoryOfCursor,
                 StagedSeenInComplete, KnownIsSeen
  <1> QED
    BY <1>1, <1>2, <1>3, <1>4, <1>5, <1>6, <1>7, <1>8, <1>9, <1>10, <1>11 DEF HNext

-----------------------------------------------------------------------------
\* The window after addToLastBlocks: within the setting, and no shorter than
\* one that was within it before.
LEMMA WindowLength ==
    ASSUME TypeOK, NEW b \in Block, AddToLastBlocks(b)
    PROVE  /\ Len(lastBlocks') \in Nat /\ Len(lastBlocks') <= undoBlocks
           /\ Len(lastBlocks) <= undoBlocks => Len(lastBlocks) <= Len(lastBlocks')
  <1> DEFINE s == Append(lastBlocks, b)
  <1> DEFINE k == Excess(s)
  <1> DEFINE n == Len(s)
  <1>1. lastBlocks \in Seq(Block) /\ undoBlocks \in Nat \ {0}
    BY WindowAssumption DEF TypeOK
  <1>2. s \in Seq(Block) /\ n \in Nat /\ n = Len(lastBlocks) + 1 /\ Len(lastBlocks) \in Nat
    BY <1>1
  <1>3. k = IF n > undoBlocks THEN n - undoBlocks ELSE 0
    BY DEF Excess
  <1>4. lastBlocks' = SubSeq(s, k + 1, n)
    BY DEF AddToLastBlocks
  <1> HIDE DEF s, k, n
  <1>5. k \in Nat /\ k < n
    BY <1>1, <1>2, <1>3
  <1>6. Len(lastBlocks') = n - k
    <2>1. k + 1 \in Int /\ n \in Int /\ \A i \in k + 1 .. n : s[i] \in Block
      <3>1. \A i \in k + 1 .. n : i \in 1 .. n
        BY <1>2, <1>5
      <3> QED
        BY <1>2, <1>5, <3>1, ElementOfSeq DEF n
    <2>2. Len(lastBlocks') = IF k + 1 <= n THEN n - (k + 1) + 1 ELSE 0
      BY <1>4, <2>1, SubSeqProperties
    <2>3. k + 1 <= n /\ n - (k + 1) + 1 = n - k
      BY <1>2, <1>5
    <2> QED
      BY <2>2, <2>3
  <1> QED
    BY <1>1, <1>2, <1>3, <1>6

\* Staging a block stages a mark only for a depth the flush will have reached.
LEMMA StageBlockMarkInv ==
    ASSUME IInv, MarkInv, NEW b \in Block, HStageBlock(b)
    PROVE  MarkInv'
  <1> DEFINE len == Len(lastBlocks')
  <1>1. /\ pc = "index" /\ pc' = "index" /\ stagedBlocks' # {} /\ undoBlocks' = undoBlocks
        /\ AddToLastBlocks(b) /\ RecordUndoWindowWatermark
    BY DEF HStageBlock, StageBlock
  <1>2. /\ len \in Nat /\ len <= undoBlocks /\ Len(lastBlocks) \in Nat /\ undoBlocks \in Nat
        /\ Len(lastBlocks) <= undoBlocks => Len(lastBlocks) <= len
    BY <1>1, WindowLength, WindowAssumption DEF IInv, TypeOK
  <1>3. /\ undoWindowWatermark' = IF len > undoWindowWatermark THEN len ELSE undoWindowWatermark
        /\ undoWindowWatermarkPersisted' = undoWindowWatermark' /\ mark' = mark /\ deepest' = deepest
        /\ \/ stagedMark' = stagedMark
           \/ stagedMark' = undoWindowWatermark' /\ undoWindowWatermarkPersisted # undoWindowWatermark'
    BY <1>1 DEF RecordUndoWindowWatermark, StageMark
  <1>4. /\ mark \in Nat /\ stagedMark \in Nat /\ undoWindowWatermark \in Nat
        /\ undoWindowWatermarkPersisted \in Nat /\ deepest \in Nat
        /\ mark <= deepest
        /\ undoWindowWatermark <= deepest \/ undoWindowWatermarkPersisted = undoWindowWatermark
        /\ stagedMark # NoPut => /\ Len(lastBlocks) <= undoBlocks
                                 /\ stagedMark <= deepest \/ stagedMark <= Len(lastBlocks)
    BY <1>1 DEF MarkInv, MarkWasReached
  <1> HIDE DEF len
  <1>5. undoWindowWatermark' \in Nat /\ stagedMark' \in Nat
    BY <1>2, <1>3, <1>4
  <1>6. stagedMark' # NoPut => stagedMark' <= deepest \/ stagedMark' <= len
    BY <1>2, <1>3, <1>4
  <1> QED
    BY <1>1, <1>2, <1>3, <1>4, <1>5, <1>6 DEF MarkInv, MarkWasReached, len

LEMMA FlushMarkInv ==
    ASSUME IInv, MarkInv, HFlush
    PROVE  MarkInv'
  <1> DEFINE len == Len(lastBlocks)
  <1>1. /\ pc' = "cleanup" /\ stagedMark' = NoPut
        /\ mark' = IF stagedMark = NoPut THEN mark ELSE stagedMark
        /\ deepest' = IF len > deepest THEN len ELSE deepest
        /\ UNCHANGED <<undoWindowWatermark, undoWindowWatermarkPersisted>>
    BY DEF HFlush, Flush
  <1>2. /\ mark \in Nat /\ stagedMark \in Nat /\ undoWindowWatermark \in Nat
        /\ undoWindowWatermarkPersisted \in Nat /\ deepest \in Nat
        /\ mark <= deepest
        /\ undoWindowWatermark <= deepest \/ undoWindowWatermarkPersisted = undoWindowWatermark
        /\ stagedMark # NoPut => stagedMark <= deepest \/ stagedMark <= len
    BY DEF MarkInv, MarkWasReached
  <1>3. len \in Nat
    BY DEF IInv, TypeOK
  <1> HIDE DEF len
  <1>4. mark' \in Nat /\ deepest' \in Nat /\ mark' <= deepest' /\ deepest <= deepest'
    BY <1>1, <1>2, <1>3
  <1>5. undoWindowWatermark <= deepest' \/ undoWindowWatermarkPersisted = undoWindowWatermark
    BY <1>2, <1>4
  <1> QED
    BY <1>1, <1>2, <1>4, <1>5 DEF MarkInv, MarkWasReached, NoPut

\* Every other action leaves the marks, loads them or drops the staged one.
LEMMA NextMarkInv == IInv /\ MarkInv /\ [HNext]_hvars => MarkInv'
  <1> SUFFICES ASSUME IInv, MarkInv, [HNext]_hvars PROVE MarkInv'
    OBVIOUS
  <1>1. ASSUME NEW setting \in UndoSettings, HStart(setting) PROVE MarkInv'
    <2>1. /\ undoWindowWatermarkPersisted' = mark /\ UNCHANGED <<mark, stagedMark, deepest, stagedBlocks>>
          /\ pc = "down"
          /\ undoWindowWatermark' = IF mark < setting THEN mark ELSE setting
      BY <1>1 DEF HStart, Start, Clamped, batch
    <2>2. /\ mark \in Nat /\ deepest \in Nat /\ mark <= deepest /\ setting \in Nat /\ stagedMark = NoPut
          /\ stagedMark \in Nat /\ stagedBlocks = {}
      BY <2>1, WindowAssumption DEF MarkInv, MarkWasReached, IInv, BatchOnlyWhileIndexing
    <2>3. undoWindowWatermark' \in Nat /\ undoWindowWatermark' <= deepest
      BY <2>1, <2>2
    <2> QED
      BY <2>1, <2>2, <2>3 DEF MarkInv, MarkWasReached
  <1>2. CASE HCrash
    BY <1>2 DEF HCrash, Crash, MarkInv, MarkWasReached, NoPut
  <1>3. ASSUME NEW b \in Block, HStageBlock(b) PROVE MarkInv'
    BY <1>3, StageBlockMarkInv
  <1>4. CASE HFlush
    BY <1>4, FlushMarkInv
  <1>5. CASE HReorgDetected \/ HTipBelowOurs
    BY <1>5 DEF HReorgDetected, HTipBelowOurs, ReorgDetected, TipBelowOurs, DiscardAndWalk, MarkDiscarded,
                MarkInv, MarkWasReached, NoPut
  <1>6. CASE HCleanup \/ HStageRollback \/ HCommitRollback \/ HFailRollback \/ HEndWalk \/ HHalt
    <2>1. UNCHANGED <<mark, stagedMark, undoWindowWatermark, undoWindowWatermarkPersisted, deepest>>
      BY <1>6 DEF HCleanup, HStageRollback, HCommitRollback, HFailRollback, HEndWalk, HHalt, marks
    <2>2. pc # "index" /\ UNCHANGED stagedBlocks
      BY <1>6 DEF HCleanup, HStageRollback, HCommitRollback, HFailRollback, HEndWalk, HHalt, CleanupAgedBlocks,
                  StageRollback, CommitRollback, FailRollback, EndWalk, HaltForResync, batch
    <2>3. stagedMark = NoPut /\ stagedBlocks = {}
      BY <2>2 DEF MarkInv, IInv, BatchOnlyWhileIndexing
    <2> QED
      BY <2>1, <2>2, <2>3 DEF MarkInv, MarkWasReached
  <1>7. CASE UNCHANGED hvars
    BY <1>7 DEF hvars, vars, batch, window, marks, MarkInv, MarkWasReached
  <1> QED
    BY <1>1, <1>2, <1>3, <1>4, <1>5, <1>6, <1>7 DEF HNext

-----------------------------------------------------------------------------
LEMMA HSpecHInv == HSpec => []HInv
  <1>1. HInit => HInv
    <2> SUFFICES ASSUME HInit PROVE HInv
      OBVIOUS
    <2>1. IInv
      BY InitIInv DEF HInit
    <2>2. MarkInv
      BY DEF HInit, Init, MarkInv, MarkWasReached, NoPut
    <2> QED
      BY <2>1, <2>2, InitHistInv DEF HInv
  <1>2. HInv /\ [HNext]_hvars => HInv'
    BY HNextIInv, NextHistInv, NextMarkInv DEF HInv
  <1> QED
    BY <1>1, <1>2, PTL DEF HSpec

(***************************************************************************)
(* A behaviour of the history is one of the store: what UtxoStoreProofs    *)
(* proves of Spec holds of every behaviour with these records as well.     *)
(***************************************************************************)
THEOREM HistoryExtendsStore == HSpec => Spec
  <1>1. HInit => Init
    BY DEF HInit
  <1> QED
    BY <1>1, HNextIsNext, PTL DEF HSpec, Spec

(***************************************************************************)
(* getFirstSeen is exact for every tree of payments: no cache entry ever   *)
(* keeps insertOutputScriptBlock from writing a height, and no rollback    *)
(* deletes one of an earlier block.                                        *)
(***************************************************************************)
THEOREM FirstSeenIsExact == HSpec => []FirstSeenExact
  <1>1. HInv => FirstSeenExact
    BY DEF HInv, HistInv
  <1> QED
    BY <1>1, HSpecHInv, PTL

(***************************************************************************)
(* getTxBlock names the block of the committed branch that mined the       *)
(* transaction, through any sequence of reorgs that mine it again.         *)
(***************************************************************************)
THEOREM TxIndexIsExact == HSpec => []TxIndexExact
  <1>1. HInv => TxIndexExact
    BY DEF HInv, HistInv
  <1> QED
    BY <1>1, HSpecHInv, PTL

(***************************************************************************)
(* The Z and Y records of the window are what a rollback deletes, and no   *)
(* other block has any: pruneAgedBlockRecords leaves nothing behind.       *)
(***************************************************************************)
THEOREM ReverseIndexes == HSpec => []ReverseIndexesComplete
  <1>1. HInv => ReverseIndexesComplete
    BY DEF HInv, HistInv
  <1> QED
    BY <1>1, HSpecHInv, PTL

(***************************************************************************)
(* recordUndoWindowWatermark never persists a depth no committed window    *)
(* had, whatever settings the restarts use and whichever batches a crash   *)
(* or a reorg discards.                                                    *)
(***************************************************************************)
THEOREM MarkReached == HSpec => []MarkWasReached
  <1>1. HInv => MarkWasReached
    BY DEF HInv, MarkInv
  <1> QED
    BY <1>1, HSpecHInv, PTL
=============================================================================
