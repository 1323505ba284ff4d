--------------------------- MODULE BulkSyncProofs ---------------------------
(***************************************************************************)
(* Proofs about BulkSync for every chain, chunk size, number of workers    *)
(* and window: type correctness, that a seed is the exact ledger of its    *)
(* tip, that no phase finds its input freed, that the join reads whole     *)
(* streams, and that a seed ends below the undo window.                    *)
(***************************************************************************)
EXTENDS BulkSync, FiniteSetTheorems, SequenceTheorems, WellFoundedInduction, TLAPS

Sortable == {"outputs", "spends"}

(***************************************************************************)
(* The strengthening.  First the types, in parts, with the shape of the    *)
(* tables.                                                                 *)
(***************************************************************************)
FlagsOK ==
    /\ conf \in [mainnet : BOOLEAN, inside : BOOLEAN]
    /\ args \in [auto : BOOLEAN, to : Heights \cup {Absent}, skipDump : BOOLEAN, skipParse : BOOLEAN]
    /\ cut \in BOOLEAN

StoreOK ==
    /\ node \in Heights /\ db \in {"empty", "partial", "seeded"}
    /\ seed \in [blocks : Ranges, utxos : SUBSET Outputs, outs : Ranges] \cup {Absent}
    /\ downs \in 0..MaxEvents /\ reruns \in 0..MaxReruns

ChunksOK == dumps \in SUBSET Ranges /\ parsed \in [Streams -> SUBSET Ranges]

MergeTyped(m) ==
    /\ m = [f \in MergeFiles |-> m[f]]
    /\ \A s \in Streams : m[AllFile(s)] \in Ranges \cup {Absent}
    /\ \A s \in Sortable :
          m[SortedFile(s)] \in [of : Ranges, size : 0..Cardinality(Outputs)] \cup {Absent}
    /\ m[LiveUtxos] \in (SUBSET Outputs) \cup {Absent}

ManifestTyped(m) == m = [s \in Sortable |-> m[s]] /\ \A s \in Sortable : m[s] \in Ranges \cup {Absent}

KeysOK == keys \in [blocks : Ranges \cup {Absent}, utxos : (SUBSET Outputs) \cup {Absent},
                    outs : Ranges \cup {Absent}]

RunOK ==
    /\ pc \in Idle \cup Phases
    /\ \/ st = "outputs"
       \/ st = "spends" /\ pc \in {"concat", "sort", "sorting", "manifest"}
       \/ st = "meta" /\ pc = "concat"
    /\ end \in Heights /\ at \in 0..(MaxHeight + 1)
    /\ DOMAIN stage \subseteq dumps /\ (\A r \in DOMAIN stage : stage[r] \in 0..3)
    /\ pc \notin {"parse", "rmdumps"} => DOMAIN stage = {}
    /\ queue \in Seq(MergeFiles)

Typed == FlagsOK /\ StoreOK /\ ChunksOK /\ MergeTyped(merge) /\ ManifestTyped(manifest) /\ KeysOK /\ RunOK

\* What was dumped and parsed lies below the undo window of the node.
BelowWindow ==
    /\ \A r \in dumps : r[2] <= node - UndoBlocks
    /\ \A s \in Streams : \A r \in parsed[s] : r[2] <= node - UndoBlocks
    /\ pc = "dump" => end <= node - UndoBlocks

\* The chunks of which all three streams are in place.
Done == {r \in Ranges : \A s \in Streams : r \in parsed[s]}

FromGenesis(R) == \E r \in R : r[1] = 0

(***************************************************************************)
(* As long as no parse was cut short: outside a parse the streams hold the *)
(* same chunks, and within one a chunk that only some have is still to be  *)
(* parsed; there is a first chunk among them once there is any.            *)
(***************************************************************************)
StreamsInStep ==
    /\ pc = "dump" /\ at > 0 => dumps # {}
    /\ pc = "parse" => \A r \in DOMAIN stage :
         \A i \in 1..3 : i <= stage[r] => r \in parsed[<<"outputs", "spends", "meta">>[i]]
    /\ pc = "rmdumps" => dumps \subseteq Done
    /\ ~cut => /\ \A s \in Streams : parsed[s] \subseteq IF pc = "parse" THEN Done \cup dumps ELSE Done
               /\ dumps # {} \/ Done # {} => FromGenesis(dumps \cup Done)
               /\ pc # "parse" /\ Done # {} => FromGenesis(Done)

\* A concatenated file of this run, a sorted one, and the live outputs.
Concatenated(s) == parsed[s] # {} /\ merge[AllFile(s)] = Span(parsed[s])

Sorted(s) == merge[SortedFile(s)] = [of |-> Span(parsed[s]), size |-> Size(s, Span(parsed[s]))]

LiveOutputs ==
    Unspent(Records("outputs", Span(parsed["outputs"])), Records("spends", Span(parsed["spends"])))

\* What is in place before each phase of the merge.
PhaseInputs ==
    /\ pc = "concat" => /\ st # "outputs" => Concatenated("outputs")
                        /\ st = "meta" => Concatenated("spends")
    /\ pc \in {"sort", "sorting", "manifest"} => \A s \in Streams : Concatenated(s)
    /\ pc \in {"sort", "sorting", "manifest"} /\ st = "spends" => Sorted("outputs")
    /\ pc = "sorting" => merge[SortedFile(st)] # Absent /\ merge[SortedFile(st)].of = Span(parsed[st])
    /\ pc = "manifest" => Sorted(st)
    /\ pc = "join" => Sorted("outputs") /\ Sorted("spends")
    /\ pc \in {"join", "meta", "live", "script", "load"} => \A s \in Streams : parsed[s] # {}
    /\ pc \in {"join", "meta", "live", "script"} => Concatenated("outputs")
    /\ pc \in {"join", "meta"} => Concatenated("meta")
    /\ pc \in {"meta", "live"} => merge[LiveUtxos] = LiveOutputs
    /\ pc \in {"live", "script", "load"} => keys.blocks = Span(parsed["meta"])
    /\ pc \in {"script", "load"} => keys.utxos = LiveOutputs
    /\ pc = "load" => keys.outs = Span(parsed["outputs"])

\* The files that have no reader left in the run, when it is in phase p: only
\* these are queued for removal.
Spare(p) ==
    CASE p = "join"   -> {AllFile("spends")}
      [] p = "meta"   -> {AllFile("spends"), SortedFile("outputs")}
      [] p = "live"   -> {AllFile("spends"), SortedFile("outputs"), AllFile("meta")}
      [] p = "script" -> {AllFile("spends"), SortedFile("outputs"), AllFile("meta"), LiveUtxos}
      [] p \in {"load", "loading", "exit"} -> MergeFiles
      [] OTHER -> {}

QueueDone == \A i \in 1..Len(queue) : queue[i] \in Spare(pc)

\* One range lies within another.
Within(r, q) == q[1] <= r[1] /\ r[2] <= q[2]

(***************************************************************************)
(* Why a manifest can be trusted: parsed files are only ever added, so the *)
(* manifest, the source of the sorted file and what is parsed now are      *)
(* ranges each within the next, and if the first is the last all agree.    *)
(***************************************************************************)
ManifestsNest ==
    \A s \in Sortable :
        LET file == merge[SortedFile(s)]
        IN  /\ manifest[s] # Absent => parsed[s] # {} /\ Within(manifest[s], Span(parsed[s]))
            /\ file # Absent => parsed[s] # {} /\ Within(file.of, Span(parsed[s]))
            /\ manifest[s] # Absent /\ file # Absent => Within(manifest[s], file.of)

\* The target: a load starts from nothing, and what it writes is exact.
Target ==
    /\ db = "empty" => seed = Absent
    /\ pc = "loading" \/ db = "seeded" =>
         /\ seed \in [blocks : Ranges, utxos : SUBSET Outputs, outs : Ranges]
         /\ seed.blocks[2] <= node - UndoBlocks
         /\ ~cut => ExactSeed(seed)

IInv ==
    /\ Typed /\ BelowWindow /\ StreamsInStep /\ PhaseInputs /\ QueueDone /\ ManifestsNest
    /\ Target
-----------------------------------------------------------------------------
(***************************************************************************)
(* Numbers and ranges.                                                     *)
(***************************************************************************)
LessThan == {p \in Nat \X Nat : p[1] < p[2]}

\* Every set of naturals has a least element, and a bounded one a greatest.
LEMMA LeastOf ==
    ASSUME NEW S \in SUBSET Nat, S # {}
    PROVE  Min(S) \in S /\ \A y \in S : Min(S) <= y
  <1>1. IsWellFoundedOn(LessThan, Nat)
    <2>1. OpToRel(<, Nat) = LessThan
      BY DEF OpToRel, LessThan
    <2> QED
      BY <2>1, NatLessThanWellFounded
  <1>2. PICK n \in S : \A m \in S : ~(<<m, n>> \in LessThan)
    BY <1>1, WFMin
  <1>3. ASSUME NEW m \in S PROVE n <= m
    <2>1. m \in Nat /\ n \in Nat /\ <<m, n>> \notin LessThan
      BY <1>2
    <2> QED
      BY <2>1 DEF LessThan
  <1>4. \E x \in S : \A y \in S : x =< y
    BY <1>3
  <1> QED
    BY <1>4 DEF Min

LEMMA GreatestOf ==
    ASSUME NEW n \in Nat, NEW S \in SUBSET (0..n), S # {}
    PROVE  Max(S) \in S /\ \A y \in S : y <= Max(S)
  <1> DEFINE T == {n - x : x \in S}
  <1>1. T \in SUBSET Nat /\ T # {}
    <2>1. \A x \in S : x \in 0..n
      OBVIOUS
    <2>2. \A x \in S : n - x \in Nat
      BY <2>1
    <2> QED
      BY <2>2
  <1>2. Min(T) \in T /\ \A y \in T : Min(T) <= y
    <2> HIDE DEF T
    <2> QED
      BY <1>1, LeastOf
  <1>3. PICK x \in S : Min(T) = n - x
    BY <1>2
  <1>4. \A y \in S : n - x <= n - y
    BY <1>2, <1>3
  <1>5. \A y \in S : y <= x
    BY <1>4
  <1>6. \E z \in S : \A y \in S : z >= y
    BY <1>5
  <1> QED
    BY <1>6 DEF Max

LEMMA OfTwo ==
    ASSUME NEW a \in Int, NEW b \in Int
    PROVE  /\ Min({a, b}) \in {a, b} /\ Min({a, b}) <= a /\ Min({a, b}) <= b
           /\ Max({a, b}) \in {a, b} /\ a <= Max({a, b}) /\ b <= Max({a, b})
  <1>1. \E x \in {a, b} : \A y \in {a, b} : x =< y
    <2>1. CASE a <= b
      BY <2>1
    <2>2. CASE ~(a <= b)
      BY <2>2
    <2> QED
      BY <2>1, <2>2
  <1>2. \E x \in {a, b} : \A y \in {a, b} : x >= y
    <2>1. CASE a <= b
      BY <2>1
    <2>2. CASE ~(a <= b)
      BY <2>2
    <2> QED
      BY <2>1, <2>2
  <1> QED
    BY <1>1, <1>2 DEF Min, Max

LEMMA RangeFacts ==
    ASSUME NEW r \in Ranges
    PROVE  r[1] \in Heights /\ r[2] \in Heights /\ r[1] <= r[2] /\ r = <<r[1], r[2]>>
           /\ r[1] \in Nat /\ r[2] \in Nat
  BY BulkAssumption DEF Ranges, Heights

\* The span of a set of chunks is a range, and the least that holds them all.
LEMMA SpanFacts ==
    ASSUME NEW R \in SUBSET Ranges, R # {}
    PROVE  /\ Span(R) \in Ranges
           /\ \A r \in R : Within(r, Span(R))
           /\ \E r \in R : Span(R)[1] = r[1]
           /\ \E r \in R : Span(R)[2] = r[2]
  <1> DEFINE A == {r[1] : r \in R}
  <1> DEFINE B == {r[2] : r \in R}
  <1>1. A \in SUBSET Nat /\ A # {} /\ B \in SUBSET (0..MaxHeight) /\ B # {} /\ MaxHeight \in Nat
    BY RangeFacts, BulkAssumption DEF Heights
  <1>2. Min(A) \in A /\ \A y \in A : Min(A) <= y
    <2> HIDE DEF A
    <2> QED
      BY <1>1, LeastOf
  <1>3. Max(B) \in B /\ \A y \in B : y <= Max(B)
    <2> HIDE DEF B
    <2> QED
      BY <1>1, GreatestOf
  <1>4. Span(R) = <<Min(A), Max(B)>>
    BY DEF Span
  <1> DEFINE lo == Min(A)
  <1> DEFINE hi == Max(B)
  <1>5. Span(R)[1] = lo /\ Span(R)[2] = hi
    BY <1>4
  <1>6. PICK p \in R : lo = p[1]
    BY <1>2
  <1>7. PICK q \in R : hi = q[2]
    BY <1>3
  <1>8. \A r \in R : lo <= r[1] /\ r[2] <= hi
    BY <1>2, <1>3
  <1>9. Span(R) = <<lo, hi>>
    BY <1>4
  <1> HIDE DEF lo, hi
  <1>10. lo \in Heights /\ hi \in Heights /\ lo <= hi
    <2>1. lo <= p[1] /\ p[1] <= p[2] /\ p[2] <= hi /\ p[1] \in Nat /\ p[2] \in Nat
      BY <1>8, RangeFacts
    <2>2. lo \in Heights /\ hi \in Heights /\ lo \in Nat /\ hi \in Nat
      BY <1>6, <1>7, RangeFacts
    <2> QED
      BY <2>1, <2>2
  <1>11. Span(R) \in Ranges
    BY <1>9, <1>10 DEF Ranges
  <1> QED
    BY <1>5, <1>6, <1>7, <1>8, <1>11 DEF Within

LEMMA WithinOrder ==
    ASSUME NEW p \in Ranges, NEW q \in Ranges, NEW r \in Ranges
    PROVE  /\ Within(p, p)
           /\ Within(p, q) /\ Within(q, r) => Within(p, r)
           /\ Within(p, q) /\ Within(q, p) => p = q
  <1>1. /\ p[1] \in Nat /\ p[2] \in Nat /\ p = <<p[1], p[2]>>
        /\ q[1] \in Nat /\ q[2] \in Nat /\ q = <<q[1], q[2]>>
        /\ r[1] \in Nat /\ r[2] \in Nat
    BY RangeFacts
  <1>2. Within(p, p)
    BY <1>1 DEF Within
  <1>3. Within(p, q) /\ Within(q, r) => Within(p, r)
    BY <1>1 DEF Within
  <1>4. ASSUME Within(p, q), Within(q, p) PROVE p = q
    <2>1. p[1] = q[1] /\ p[2] = q[2]
      BY <1>1, <1>4 DEF Within
    <2> QED
      BY <1>1, <2>1
  <1> QED
    BY <1>2, <1>3, <1>4

\* More chunks, a wider span.
LEMMA SpanGrows ==
    ASSUME NEW R \in SUBSET Ranges, NEW Q \in SUBSET Ranges, R # {}, R \subseteq Q
    PROVE  Within(Span(R), Span(Q))
  <1>1. PICK p \in R : Span(R)[1] = p[1]
    BY SpanFacts
  <1>2. PICK q \in R : Span(R)[2] = q[2]
    BY SpanFacts
  <1>3. Within(p, Span(Q)) /\ Within(q, Span(Q))
    BY SpanFacts
  <1> QED
    BY <1>1, <1>2, <1>3 DEF Within

\* A span from genesis that no chunk starts below.
LEMMA SpanFromGenesis ==
    ASSUME NEW R \in SUBSET Ranges, FromGenesis(R)
    PROVE  Span(R) = <<0, Span(R)[2]>> /\ Span(R)[1] = 0
  <1>1. PICK r \in R : r[1] = 0
    BY DEF FromGenesis
  <1>2. Span(R) \in Ranges /\ Within(r, Span(R))
    BY SpanFacts
  <1>3. Span(R)[1] \in Nat /\ Span(R)[1] <= 0 /\ Span(R) = <<Span(R)[1], Span(R)[2]>>
    BY <1>1, <1>2, RangeFacts DEF Within
  <1>4. Span(R)[1] = 0
    BY <1>3
  <1> QED
    BY <1>3, <1>4

\* What the files hold are outputs of the chain, finitely many.
LEMMA RecordsFacts ==
    ASSUME NEW s \in Streams, NEW r \in Ranges
    PROVE  /\ Records(s, r) \in SUBSET Outputs
           /\ Size(s, r) \in 0..Cardinality(Outputs) /\ Size(s, r) \in Nat
           /\ Cardinality(Outputs) \in Nat
  <1>1. r[1]..r[2] \subseteq Heights
    BY RangeFacts, BulkAssumption DEF Heights
  <1>2. \A h \in Heights : Created[h] \subseteq Outputs
    BY DEF Outputs
  <1>3. ASSUME NEW h \in Heights PROVE Spent[h] \subseteq Outputs
    <2>1. Spent[h] \subseteq UNION {Created[g] : g \in 0..h}
      BY BulkAssumption
    <2>2. 0..h \subseteq Heights
      BY BulkAssumption DEF Heights
    <2> QED
      BY <2>1, <2>2 DEF Outputs
  <1>4. Records(s, r) \subseteq Outputs
    <2>1. CASE s = "spends"
      BY <1>1, <1>3, <2>1 DEF Records
    <2>2. CASE s # "spends"
      BY <1>1, <1>2, <2>2 DEF Records
    <2> QED
      BY <2>1, <2>2
  <1>5. IsFiniteSet(Outputs)
    <2> DEFINE C == {Created[h] : h \in Heights}
    <2>1. IsFiniteSet(Heights)
      <3>1. 0 \in Int /\ MaxHeight \in Int
        BY BulkAssumption
      <3>2. IsFiniteSet(0..MaxHeight)
        BY <3>1, FS_Interval
      <3> QED
        BY <3>2 DEF Heights
    <2>2. IsFiniteSet(C)
      <3> DEFINE f == [h \in Heights |-> Created[h]]
      <3>1. f \in Surjection(Heights, C)
        BY DEF Surjection
      <3> QED
        BY <2>1, <3>1, FS_Surjection
    <2>3. \A T \in C : IsFiniteSet(T)
      BY BulkAssumption
    <2> HIDE DEF C
    <2>4. IsFiniteSet(UNION C)
      BY <2>2, <2>3, FS_UNION
    <2> QED
      BY <2>4 DEF Outputs, C
  <1>6. /\ IsFiniteSet(Records(s, r)) /\ Cardinality(Records(s, r)) <= Cardinality(Outputs)
    BY <1>4, <1>5, FS_Subset
  <1>7. Cardinality(Records(s, r)) \in Nat /\ Cardinality(Outputs) \in Nat
    BY <1>5, <1>6, FS_CardinalityType
  <1> QED
    BY <1>4, <1>6, <1>7 DEF Size

-----------------------------------------------------------------------------
(***************************************************************************)
(* The files of merge/.                                                    *)
(***************************************************************************)
LEMMA FileNames ==
    /\ \A s \in Streams : AllFile(s) \in MergeFiles
    /\ \A s \in Sortable : SortedFile(s) \in MergeFiles
    /\ LiveUtxos \in MergeFiles
    /\ \A f \in MergeFiles : \/ \E s \in Streams : f = AllFile(s)
                             \/ \E s \in Sortable : f = SortedFile(s)
                             \/ f = LiveUtxos
    /\ \A s \in Streams, t \in Streams : s # t => AllFile(s) # AllFile(t) /\ SortedFile(s) # SortedFile(t)
    /\ \A s \in Streams, t \in Streams : AllFile(s) # SortedFile(t)
    /\ \A s \in Streams : AllFile(s) # LiveUtxos /\ SortedFile(s) # LiveUtxos
  BY DEF Streams, Sortable, AllFile, SortedFile, LiveUtxos, MergeFiles

(***************************************************************************)
(* CleanupManager: of the files queued, old and new, some are gone and the *)
(* rest are still queued; no other file changes.                           *)
(***************************************************************************)
LEMMA FreedFacts ==
    ASSUME queue \in Seq(MergeFiles), NEW fs \in Seq(MergeFiles), NEW m, EnqueueAndFree(fs, m)
    PROVE  /\ queue' \in Seq(MergeFiles)
           /\ \A i \in 1..Len(queue') : \/ \E j \in 1..Len(queue) : queue'[i] = queue[j]
                                        \/ \E j \in 1..Len(fs) : queue'[i] = fs[j]
           /\ merge' = [f \in MergeFiles |-> merge'[f]]
           /\ \A f \in MergeFiles : merge'[f] = Absent \/ merge'[f] = m[f]
           /\ \A f \in MergeFiles :
                (\A j \in 1..Len(queue) : queue[j] # f) /\ (\A j \in 1..Len(fs) : fs[j] # f) => merge'[f] = m[f]
  <1> DEFINE all == queue \o fs
  <1>1. /\ all \in Seq(MergeFiles) /\ Len(all) = Len(queue) + Len(fs)
        /\ \A i \in 1..Len(all) : all[i] = IF i <= Len(queue) THEN queue[i] ELSE fs[i - Len(queue)]
    BY ConcatProperties
  <1>2. Len(queue) \in Nat /\ Len(fs) \in Nat
    OBVIOUS
  <1>3. PICK k \in 0..Len(all) :
          /\ queue' = SubSeq(all, k + 1, Len(all))
          /\ merge' = [f \in MergeFiles |-> IF \E i \in 1..k : all[i] = f THEN Absent ELSE m[f]]
    <2>1. PICK c \in Freed(all, m) : queue' = c.queue /\ merge' = c.merge
      BY DEF EnqueueAndFree
    <2> HIDE DEF all
    <2>2. PICK k \in 0..Len(all) :
            c = [queue |-> SubSeq(all, k + 1, Len(all)),
                 merge |-> [f \in MergeFiles |-> IF \E i \in 1..k : all[i] = f THEN Absent ELSE m[f]]]
      BY <2>1 DEF Freed
    <2> QED
      BY <2>1, <2>2
  <1> HIDE DEF all
  <1>4. ASSUME NEW i \in 1..Len(all)
        PROVE  \/ \E j \in 1..Len(queue) : all[i] = queue[j]
               \/ \E j \in 1..Len(fs) : all[i] = fs[j]
    <2>1. CASE i <= Len(queue)
      BY <1>1, <1>2, <2>1
    <2>2. CASE ~(i <= Len(queue))
      <3>1. i - Len(queue) \in 1..Len(fs) /\ all[i] = fs[i - Len(queue)]
        BY <1>1, <1>2, <2>2
      <3> QED
        BY <3>1
    <2> QED
      BY <2>1, <2>2
  <1>5. k \in Nat /\ Len(all) \in Nat /\ k <= Len(all)
    BY <1>1, <1>2
  <1>6. /\ queue' \in Seq(MergeFiles) /\ Len(queue') = Len(all) - k
        /\ \A i \in 1..Len(queue') : queue'[i] = all[k + i]
    <2>1. \A i \in k + 1 .. Len(all) : all[i] \in MergeFiles
      BY <1>1, <1>5
    <2>2. /\ queue' \in Seq(MergeFiles)
          /\ Len(queue') = IF k + 1 <= Len(all) THEN Len(all) - (k + 1) + 1 ELSE 0
          /\ \A i \in 1 .. Len(all) - (k + 1) + 1 : queue'[i] = all[(k + 1) + i - 1]
      BY <1>3, <1>5, <2>1, SubSeqProperties
    <2>3. Len(queue') = Len(all) - k
      BY <1>5, <2>2
    <2>4. ASSUME NEW i \in 1..Len(queue') PROVE queue'[i] = all[k + i]
      <3>1. i \in 1 .. Len(all) - (k + 1) + 1 /\ (k + 1) + i - 1 = k + i
        BY <1>5, <2>3
      <3> QED
        BY <2>2, <3>1
    <2> QED
      BY <2>2, <2>3, <2>4
  <1>7. ASSUME NEW i \in 1..Len(queue')
        PROVE  \/ \E j \in 1..Len(queue) : queue'[i] = queue[j]
               \/ \E j \in 1..Len(fs) : queue'[i] = fs[j]
    <2>1. k + i \in 1..Len(all) /\ queue'[i] = all[k + i]
      BY <1>5, <1>6
    <2> QED
      BY <1>4, <2>1
  <1>8. ASSUME NEW f \in MergeFiles, \A j \in 1..Len(queue) : queue[j] # f, \A j \in 1..Len(fs) : fs[j] # f
        PROVE  merge'[f] = m[f]
    <2>1. \A i \in 1..k : all[i] # f
      <3> SUFFICES ASSUME NEW i \in 1..k PROVE all[i] # f
        OBVIOUS
      <3>1. i \in 1..Len(all)
        BY <1>5
      <3> QED
        BY <1>4, <1>8, <3>1
    <2> QED
      BY <1>3, <2>1
  <1>9. merge' = [f \in MergeFiles |-> merge'[f]] /\ \A f \in MergeFiles : merge'[f] = Absent \/ merge'[f] = m[f]
    BY <1>3
  <1> QED
    BY <1>6, <1>7, <1>8, <1>9

\* A file written: it holds the new content, the others what they held.
LEMMA PutFile ==
    ASSUME NEW m, m = [f \in MergeFiles |-> m[f]], NEW g \in MergeFiles, NEW v, NEW n,
           n = [m EXCEPT ![g] = v]
    PROVE  /\ n = [f \in MergeFiles |-> n[f]]
           /\ n[g] = v
           /\ \A f \in MergeFiles : f # g => n[f] = m[f]
  OBVIOUS

\* Typing a table with one file written.
LEMMA PutTyped ==
    ASSUME NEW m, MergeTyped(m), NEW g \in MergeFiles, NEW v, NEW n, n = [m EXCEPT ![g] = v],
           \A s \in Streams : g = AllFile(s) => v \in Ranges \cup {Absent},
           \A s \in Sortable : g = SortedFile(s) =>
              v \in [of : Ranges, size : 0..Cardinality(Outputs)] \cup {Absent},
           g = LiveUtxos => v \in (SUBSET Outputs) \cup {Absent}
    PROVE  MergeTyped(n)
  <1>1. /\ n = [f \in MergeFiles |-> n[f]]
        /\ n[g] = v
        /\ \A f \in MergeFiles : f # g => n[f] = m[f]
    BY PutFile DEF MergeTyped
  <1>2. ASSUME NEW s \in Streams PROVE n[AllFile(s)] \in Ranges \cup {Absent}
    BY <1>1, FileNames DEF MergeTyped
  <1>3. ASSUME NEW s \in Sortable
        PROVE  n[SortedFile(s)] \in [of : Ranges, size : 0..Cardinality(Outputs)] \cup {Absent}
    <2>1. CASE g = SortedFile(s)
      BY <1>1, <2>1
    <2>2. CASE g # SortedFile(s)
      <3>1. n[SortedFile(s)] = m[SortedFile(s)]
        BY <1>1, <2>2, FileNames
      <3> QED
        BY <3>1 DEF MergeTyped
    <2> QED
      BY <2>1, <2>2
  <1>4. n[LiveUtxos] \in (SUBSET Outputs) \cup {Absent}
    BY <1>1, FileNames DEF MergeTyped
  <1> QED
    BY <1>1, <1>2, <1>3, <1>4 DEF MergeTyped

\* A phase ends: what it was the last to read is queued and may be freed, and
\* nothing a later phase reads is.
LEMMA FreeStep ==
    ASSUME queue \in Seq(MergeFiles), QueueDone, NEW fs \in Seq(MergeFiles), NEW m, MergeTyped(m),
           EnqueueAndFree(fs, m), Spare(pc) \subseteq Spare(pc'),
           \A j \in 1..Len(fs) : fs[j] \in Spare(pc')
    PROVE  /\ queue' \in Seq(MergeFiles) /\ QueueDone' /\ MergeTyped(merge')
           /\ \A f \in MergeFiles : merge'[f] = Absent \/ merge'[f] = m[f]
           /\ \A f \in MergeFiles : f \notin Spare(pc') => merge'[f] = m[f]
  <1>1. /\ queue' \in Seq(MergeFiles)
        /\ \A i \in 1..Len(queue') : \/ \E j \in 1..Len(queue) : queue'[i] = queue[j]
                                     \/ \E j \in 1..Len(fs) : queue'[i] = fs[j]
        /\ merge' = [f \in MergeFiles |-> merge'[f]]
        /\ \A f \in MergeFiles : merge'[f] = Absent \/ merge'[f] = m[f]
        /\ \A f \in MergeFiles :
             (\A j \in 1..Len(queue) : queue[j] # f) /\ (\A j \in 1..Len(fs) : fs[j] # f) => merge'[f] = m[f]
    BY FreedFacts
  <1>2. QueueDone'
    BY <1>1 DEF QueueDone
  <1>3. \A f \in MergeFiles : f \notin Spare(pc') => merge'[f] = m[f]
    BY <1>1 DEF QueueDone
  <1>4. MergeTyped(merge')
    <2>1. ASSUME NEW s \in Streams PROVE merge'[AllFile(s)] \in Ranges \cup {Absent}
      BY <1>1, FileNames DEF MergeTyped
    <2>2. ASSUME NEW s \in Sortable
          PROVE  merge'[SortedFile(s)] \in [of : Ranges, size : 0..Cardinality(Outputs)] \cup {Absent}
      <3>1. merge'[SortedFile(s)] = Absent \/ merge'[SortedFile(s)] = m[SortedFile(s)]
        BY <1>1, FileNames
      <3> QED
        BY <3>1 DEF MergeTyped
    <2>3. merge'[LiveUtxos] \in (SUBSET Outputs) \cup {Absent}
      BY <1>1, FileNames DEF MergeTyped
    <2> QED
      BY <1>1, <2>1, <2>2, <2>3 DEF MergeTyped
  <1> QED
    BY <1>1, <1>2, <1>3, <1>4

-----------------------------------------------------------------------------
(***************************************************************************)
(* What keeps each part of the invariant.                                  *)
(***************************************************************************)
LEMMA WindowKept ==
    ASSUME BelowWindow, node' = node, dumps' \subseteq dumps, parsed' = parsed, pc' # "dump"
    PROVE  BelowWindow'
  BY DEF BelowWindow

LEMMA InStepKept ==
    ASSUME StreamsInStep, dumps' = dumps, parsed' = parsed, cut => cut', pc # "parse",
           pc' \notin {"dump", "parse", "rmdumps"}
    PROVE  StreamsInStep'
  <1>1. Done' = Done
    BY DEF Done
  <1> QED
    BY <1>1 DEF StreamsInStep

LEMMA TargetKept ==
    ASSUME Target, db' = db, seed' = seed, node' = node, cut => cut', pc' = "loading" => pc = "loading"
    PROVE  Target'
  BY DEF Target

\* Sorted files may go, or be rewritten from the same source.
LEMMA ManifestsKept ==
    ASSUME ManifestsNest, parsed' = parsed, manifest' = manifest,
           \A s \in Sortable : merge'[SortedFile(s)] # Absent =>
              /\ merge[SortedFile(s)] # Absent
              /\ merge'[SortedFile(s)].of = merge[SortedFile(s)].of
    PROVE  ManifestsNest'
  BY DEF ManifestsNest

\* Outside the phases of the merge nothing is asked of its inputs, and the
\* queue is empty.
LEMMA NoInputs ==
    ASSUME pc' \notin {"concat", "sort", "sorting", "manifest", "join", "meta", "live", "script", "load"}
    PROVE  PhaseInputs'
  BY DEF PhaseInputs

LEMMA QueueEmpty ==
    ASSUME QueueDone, queue' = queue, Spare(pc) = {}
    PROVE  QueueDone'
  BY DEF QueueDone

LEMMA SpareNone ==
    ASSUME NEW p, p \notin {"join", "meta", "live", "script", "load", "loading", "exit"}
    PROVE  Spare(p) = {}
  BY DEF Spare

\* What is parsed is a set of ranges, stream by stream.
LEMMA ParsedTyped ==
    ASSUME ChunksOK, NEW s \in Streams
    PROVE  parsed[s] \in SUBSET Ranges
  BY DEF ChunksOK

-----------------------------------------------------------------------------
LEMMA NoFilesTyped == MergeTyped(NoFiles) /\ ManifestTyped(NoManifests)
  <1>1. \A f \in MergeFiles : NoFiles[f] = Absent
    BY DEF NoFiles
  <1>2. MergeTyped(NoFiles)
    BY <1>1, FileNames DEF MergeTyped, NoFiles
  <1>3. ManifestTyped(NoManifests)
    BY DEF ManifestTyped, NoManifests, Sortable
  <1> QED
    BY <1>2, <1>3

\* Nothing dumped, parsed or merged.
LEMMA WipedFiles ==
    ASSUME dumps' = {}, parsed' = NoParsed, merge' = NoFiles, manifest' = NoManifests,
           pc' \in {"down", "tracker"}
    PROVE  /\ ChunksOK' /\ MergeTyped(merge') /\ ManifestTyped(manifest')
           /\ BelowWindow' /\ StreamsInStep' /\ ManifestsNest'
  <1>1. \A s \in Streams : parsed'[s] = {}
    BY DEF NoParsed
  <1>2. ChunksOK'
    BY DEF ChunksOK, NoParsed
  <1>3. BelowWindow'
    BY <1>1 DEF BelowWindow
  <1>4. Done' = {}
    BY <1>1 DEF Done, Streams
  <1>5. StreamsInStep'
    BY <1>1, <1>4 DEF StreamsInStep
  <1>6. \A s \in Sortable : merge'[SortedFile(s)] = Absent /\ manifest'[s] = Absent
    BY FileNames DEF NoFiles, NoManifests, Sortable
  <1>7. ManifestsNest'
    BY <1>6 DEF ManifestsNest
  <1> QED
    BY <1>2, <1>3, <1>5, <1>7, NoFilesTyped

\* What a process knows when it starts.
LEMMA ForgetRunTyped ==
    ASSUME ForgetRun, pc' \in {"down", "tracker"}
    PROVE  /\ args' \in [auto : BOOLEAN, to : Heights \cup {Absent}, skipDump : BOOLEAN, skipParse : BOOLEAN]
           /\ KeysOK' /\ RunOK' /\ QueueDone' /\ PhaseInputs'
  <1>1. args' \in [auto : BOOLEAN, to : Heights \cup {Absent}, skipDump : BOOLEAN, skipParse : BOOLEAN]
    BY DEF ForgetRun, NoArgs
  <1>2. KeysOK'
    BY DEF ForgetRun, KeysOK
  <1>3. RunOK'
    <2>1. DOMAIN stage' = {} /\ queue' \in Seq(MergeFiles)
      BY DEF ForgetRun
    <2>2. end' \in Heights /\ at' \in 0..(MaxHeight + 1) /\ st' = "outputs"
      BY BulkAssumption DEF ForgetRun, Heights
    <2> QED
      BY <2>1, <2>2 DEF RunOK, Idle, Streams
  <1>4. QueueDone'
    BY DEF ForgetRun, QueueDone
  <1> QED
    BY <1>1, <1>2, <1>3, <1>4, NoInputs

LEMMA InitIInv == Init => IInv
  <1> SUFFICES ASSUME Init PROVE IInv
    OBVIOUS
  <1>1. FlagsOK
    BY DEF Init, FlagsOK, NoArgs
  <1>2. StoreOK
    BY BulkAssumption DEF Init, StoreOK
  <1>3. MergeTyped(merge) /\ ManifestTyped(manifest)
    BY NoFilesTyped DEF Init
  <1>4. ChunksOK /\ KeysOK
    BY DEF Init, ChunksOK, KeysOK, NoParsed
  <1>5. RunOK
    <2>1. DOMAIN stage = {} /\ queue \in Seq(MergeFiles)
      BY DEF Init
    <2>2. end \in Heights /\ at \in 0..(MaxHeight + 1)
      BY BulkAssumption DEF Init, Heights
    <2> QED
      BY <2>1, <2>2 DEF Init, RunOK, Idle, Streams
  <1>6. \A s \in Streams : parsed[s] = {}
    BY DEF Init, NoParsed
  <1>7. Done = {}
    BY <1>6 DEF Done, Streams
  <1>8. BelowWindow /\ StreamsInStep
    BY <1>6, <1>7 DEF Init, BelowWindow, StreamsInStep
  <1>9. PhaseInputs /\ QueueDone
    BY DEF Init, PhaseInputs, QueueDone
  <1>10. ManifestsNest
    <2>1. \A s \in Sortable : merge[SortedFile(s)] = Absent /\ manifest[s] = Absent
      BY FileNames DEF Init, NoFiles, NoManifests, Sortable
    <2> QED
      BY <2>1 DEF ManifestsNest
  <1>11. Target
    BY DEF Init, Target
  <1> QED
    BY <1>1, <1>2, <1>3, <1>4, <1>5, <1>8, <1>9, <1>10, <1>11 DEF IInv, Typed

\* What a run that goes down leaves of the work directory.
FilesWiped == dumps' = {} /\ parsed' = NoParsed /\ merge' = NoFiles /\ manifest' = NoManifests

FilesKept ==
    /\ parsed' = parsed /\ manifest' = manifest
    /\ dumps' = dumps \/ (pc = "rmdumps" /\ dumps' \in SUBSET dumps)
    /\ MergeTyped(merge')
    /\ \A s \in Sortable : merge'[SortedFile(s)] # Absent =>
          /\ merge[SortedFile(s)] # Absent
          /\ merge'[SortedFile(s)].of = merge[SortedFile(s)].of

(***************************************************************************)
(* A run goes down: by a FATAL, a crash or a stop, or because it is over.  *)
(* Its memory is lost; its files are wiped, or stay, a removal or a sort   *)
(* under way excepted.                                                     *)
(***************************************************************************)
LEMMA DownIInv ==
    ASSUME IInv, ForgetRun, pc' \in {"down", "tracker"},
           UNCHANGED <<conf, node>>, downs' \in 0..MaxEvents, reruns' \in 0..MaxReruns,
           cut' \in BOOLEAN, cut => cut', pc = "parse" => cut',
           (UNCHANGED <<db, seed>>) \/ (db' = "empty" /\ seed' = Absent),
           FilesWiped \/ FilesKept
    PROVE  IInv'
  <1>1. FlagsOK'
    BY ForgetRunTyped DEF IInv, Typed, FlagsOK
  <1>2. StoreOK'
    BY DEF IInv, Typed, StoreOK
  <1>3. Target'
    <2>1. CASE UNCHANGED <<db, seed>>
      BY <2>1, TargetKept DEF IInv
    <2>2. CASE db' = "empty" /\ seed' = Absent
      BY <2>2 DEF Target
    <2> QED
      BY <2>1, <2>2
  <1>4. CASE FilesWiped
    BY <1>1, <1>2, <1>3, <1>4, WipedFiles, ForgetRunTyped DEF IInv, Typed, FilesWiped
  <1>5. CASE FilesKept
    <2> USE DEF FilesKept
    <2>1. ChunksOK' /\ ManifestTyped(manifest')
      BY <1>5 DEF IInv, Typed, ChunksOK
    <2>2. BelowWindow'
      BY <1>5, WindowKept DEF IInv
    <2>3. ManifestsNest'
      BY <1>5, ManifestsKept DEF IInv
    <2>4. StreamsInStep'
      <3>1. Done' = Done
        BY <1>5 DEF Done
      <3>2. SUFFICES ASSUME ~cut'
                     PROVE  /\ \A s \in Streams : parsed[s] \subseteq Done
                            /\ dumps' # {} \/ Done # {} => FromGenesis(dumps' \cup Done)
                            /\ Done # {} => FromGenesis(Done)
        BY <1>5, <3>1 DEF StreamsInStep
      <3>3. ~cut /\ pc # "parse"
        BY <3>2
      <3>4. /\ \A s \in Streams : parsed[s] \subseteq Done
            /\ dumps # {} \/ Done # {} => FromGenesis(dumps \cup Done)
            /\ Done # {} => FromGenesis(Done)
            /\ pc = "rmdumps" => dumps \subseteq Done
        BY <3>3 DEF IInv, StreamsInStep
      <3>5. CASE dumps' = dumps
        BY <3>4, <3>5
      <3>6. CASE pc = "rmdumps" /\ dumps' \in SUBSET dumps
        BY <3>4, <3>6 DEF FromGenesis
      <3> QED
        BY <1>5, <3>4, <3>5, <3>6
    <2> QED
      BY <1>1, <1>2, <1>3, <1>5, <2>1, <2>2, <2>3, <2>4, ForgetRunTyped DEF IInv, Typed
  <1> QED
    BY <1>4, <1>5

LEMMA KilledKeeps ==
    ASSUME IInv, KilledFiles
    PROVE  FilesKept
  <1>0. MergeTyped(merge)
    BY DEF IInv, Typed
  <1>1. CASE pc = "rmdumps" /\ dumps' \in SUBSET dumps /\ UNCHANGED <<parsed, merge, manifest>>
    BY <1>0, <1>1 DEF FilesKept
  <1>2. ASSUME pc = "sorting", NEW n \in 0..Size(st, merge[AllFile(st)]),
               merge' = [merge EXCEPT ![SortedFile(st)].size = n],
               UNCHANGED <<dumps, parsed, manifest>>
        PROVE  FilesKept
    <2>1. st \in Sortable /\ st \in Streams /\ Concatenated(st)
      BY <1>2 DEF IInv, Typed, RunOK, PhaseInputs, Streams, Sortable
    <2>2. merge[AllFile(st)] \in Ranges
      BY <2>1, ParsedTyped, SpanFacts DEF Concatenated, IInv, Typed
    <2>3. n \in 0..Cardinality(Outputs)
      <3>1. Size(st, merge[AllFile(st)]) \in 0..Cardinality(Outputs) /\ Cardinality(Outputs) \in Nat
        BY <2>1, <2>2, RecordsFacts
      <3> QED
        BY <3>1
    <2>4. merge[SortedFile(st)] # Absent
      BY <1>2 DEF IInv, PhaseInputs
    <2>5. merge[SortedFile(st)] \in [of : Ranges, size : 0..Cardinality(Outputs)]
      BY <1>0, <2>1, <2>4 DEF MergeTyped
    <2> DEFINE file == [merge[SortedFile(st)] EXCEPT !.size = n]
    <2>6. merge' = [merge EXCEPT ![SortedFile(st)] = file]
      BY <1>2
    <2>7. file \in [of : Ranges, size : 0..Cardinality(Outputs)] /\ file.of = merge[SortedFile(st)].of
      BY <2>3, <2>5
    <2> HIDE DEF file
    <2>8. SortedFile(st) \in MergeFiles /\ \A s \in Streams : SortedFile(st) # AllFile(s)
      BY <2>1, FileNames
    <2>9. SortedFile(st) # LiveUtxos
      BY <2>1, FileNames
    <2>10. MergeTyped(merge')
      BY <1>0, <2>6, <2>7, <2>8, <2>9, PutTyped
    <2>11. merge'[SortedFile(st)] = file /\ \A f \in MergeFiles : f # SortedFile(st) => merge'[f] = merge[f]
      BY <1>0, <2>6, <2>8, PutFile DEF MergeTyped
    <2>12. ASSUME NEW s \in Sortable, merge'[SortedFile(s)] # Absent
           PROVE  /\ merge[SortedFile(s)] # Absent
                  /\ merge'[SortedFile(s)].of = merge[SortedFile(s)].of
      <3>1. CASE SortedFile(s) = SortedFile(st)
        BY <2>4, <2>7, <2>11, <3>1
      <3>2. CASE SortedFile(s) # SortedFile(st)
        BY <2>11, <2>12, <3>2, FileNames
      <3> QED
        BY <3>1, <3>2
    <2> QED
      BY <1>2, <2>10, <2>12 DEF FilesKept
  <1>3. CASE pc \notin {"rmdumps", "sorting"} /\ UNCHANGED files
    BY <1>0, <1>3 DEF FilesKept, files
  <1> QED
    BY <1>1, <1>2, <1>3 DEF KilledFiles

\* The bound on crashes, stops and reruns.
LEMMA EventTyped ==
    ASSUME StoreOK, downs + reruns < MaxEvents
    PROVE  downs + 1 \in 0..MaxEvents
  <1>1. downs \in 0..MaxEvents /\ reruns \in 0..MaxReruns /\ MaxEvents \in Nat /\ MaxReruns \in Nat
    BY BulkAssumption DEF StoreOK
  <1> QED
    BY <1>1

LEMMA CrashIInv ==
    ASSUME IInv, Crash
    PROVE  IInv'
  <1>1. downs' \in 0..MaxEvents /\ reruns' \in 0..MaxReruns
    BY EventTyped DEF Crash, IInv, Typed, StoreOK
  <1>2. cut' \in BOOLEAN /\ (cut => cut') /\ (pc = "parse" => cut')
    BY DEF Crash
  <1>3. FilesKept
    BY KilledKeeps DEF Crash
  <1> QED
    BY <1>1, <1>2, <1>3, DownIInv DEF Crash, Fatal

LEMMA StopIInv ==
    ASSUME IInv, StopBulkBoot
    PROVE  IInv'
  <1>1. downs' \in 0..MaxEvents /\ reruns' \in 0..MaxReruns
    BY EventTyped DEF StopBulkBoot, IInv, Typed, StoreOK
  <1>2. cut' \in BOOLEAN /\ (cut => cut') /\ (pc = "parse" => cut')
    BY DEF StopBulkBoot
  <1>3. CASE pc = "exit"
    <2>1. UNCHANGED <<db, seed>> /\ UNCHANGED files
      BY <1>3 DEF StopBulkBoot
    <2>2. FilesKept
      BY <2>1 DEF FilesKept, files, IInv, Typed
    <2> QED
      BY <1>1, <1>2, <2>1, <2>2, DownIInv DEF StopBulkBoot, Fatal
  <1>4. CASE pc # "exit"
    <2>1. db' = "empty" /\ seed' = Absent
      BY <1>4 DEF StopBulkBoot
    <2>2. FilesWiped \/ FilesKept
      <3>1. CASE conf.inside
        BY <1>4, <3>1 DEF StopBulkBoot, FilesWiped
      <3>2. CASE ~conf.inside
        BY <1>4, <3>2, KilledKeeps DEF StopBulkBoot
      <3> QED
        BY <3>1, <3>2
    <2> QED
      BY <1>1, <1>2, <2>1, <2>2, DownIInv DEF StopBulkBoot, Fatal
  <1> QED
    BY <1>3, <1>4

\* A phase ends in a FATAL, or the run is over.
LEMMA FatalIInv ==
    ASSUME IInv, pc # "parse", pc' \in {"down", "tracker"}, ForgetRun,
           UNCHANGED <<conf, node, db, seed, count>>, FilesWiped \/ FilesKept
    PROVE  IInv'
  <1>1. downs' \in 0..MaxEvents /\ reruns' \in 0..MaxReruns
    BY DEF count, IInv, Typed, StoreOK
  <1>2. cut' = cut
    BY DEF count
  <1>3. cut' \in BOOLEAN /\ (cut => cut') /\ (pc = "parse" => cut')
    BY <1>2 DEF IInv, Typed, FlagsOK
  <1> QED
    BY <1>1, <1>3, DownIInv

LEMMA SameFilesKept ==
    ASSUME IInv, UNCHANGED <<dumps, parsed, merge, manifest>>
    PROVE  FilesKept
  BY DEF FilesKept, IInv, Typed

LEMMA RunEndsIInv ==
    ASSUME IInv, RunEnds
    PROVE  IInv'
  <1>1. FilesWiped \/ FilesKept
    BY SameFilesKept DEF RunEnds, FilesWiped, files
  <1>2. pc' \in {"down", "tracker"}
    BY DEF RunEnds
  <1> QED
    BY <1>1, <1>2, FatalIInv DEF RunEnds

\* The node's chain only grows away from what was dumped.
LEMMA NodeGrowsIInv ==
    ASSUME IInv, NodeGrows
    PROVE  IInv'
  <1> USE DEF NodeGrows, files, run, count
  <1>1. node \in Nat /\ node < MaxHeight /\ node' = node + 1 /\ MaxHeight \in Nat /\ UndoBlocks \in Nat
    BY BulkAssumption DEF IInv, Typed, StoreOK, Heights
  <1>2. node' \in Heights
    BY <1>1 DEF Heights
  <1>3. \A x \in Int : x <= node - UndoBlocks => x <= node' - UndoBlocks
    BY <1>1
  <1>4. FlagsOK'
    BY DEF IInv, Typed, FlagsOK
  <1>5. StoreOK' /\ ChunksOK' /\ MergeTyped(merge') /\ ManifestTyped(manifest') /\ KeysOK' /\ RunOK'
    BY <1>2 DEF IInv, Typed, StoreOK, ChunksOK, KeysOK, RunOK
  <1>6. BelowWindow'
    <2>1. \A r \in dumps : r[2] \in Int
      BY RangeFacts DEF IInv, Typed, ChunksOK
    <2>2. \A s \in Streams : \A r \in parsed[s] : r[2] \in Int
      BY ParsedTyped, RangeFacts DEF IInv, Typed
    <2>3. end \in Int
      BY BulkAssumption DEF IInv, Typed, RunOK, Heights
    <2> QED
      BY <1>3, <2>1, <2>2, <2>3 DEF IInv, BelowWindow
  <1>7. StreamsInStep'
    <2>1. Done' = Done
      BY DEF Done
    <2> QED
      BY <2>1 DEF IInv, StreamsInStep
  <1>8. PhaseInputs' /\ QueueDone' /\ ManifestsNest'
    BY DEF IInv, PhaseInputs, QueueDone, ManifestsNest, Concatenated, Sorted, LiveOutputs
  <1>9. Target'
    <2>1. seed \in [blocks : Ranges, utxos : SUBSET Outputs, outs : Ranges] => seed.blocks[2] \in Int
      BY RangeFacts
    <2> QED
      BY <1>3, <2>1 DEF IInv, Target
  <1> QED
    BY <1>4, <1>5, <1>6, <1>7, <1>8, <1>9 DEF IInv, Typed

(***************************************************************************)
(* Steps that leave the store, its bounds and the chunks alone, outside    *)
(* the dump, the parse and the load.                                       *)
(***************************************************************************)
LEMMA FrameIInv ==
    ASSUME IInv, pc \notin {"parse"}, pc' \notin {"dump", "parse", "rmdumps", "loading"},
           UNCHANGED <<conf, node, db, seed, dumps, parsed, downs, cut>>,
           reruns' \in 0..MaxReruns,
           args' \in [auto : BOOLEAN, to : Heights \cup {Absent}, skipDump : BOOLEAN, skipParse : BOOLEAN],
           MergeTyped(merge'), ManifestTyped(manifest'), KeysOK', RunOK',
           PhaseInputs', QueueDone', ManifestsNest'
    PROVE  IInv'
  <1>1. FlagsOK'
    BY DEF IInv, Typed, FlagsOK
  <1>2. StoreOK'
    BY DEF IInv, Typed, StoreOK
  <1>3. ChunksOK'
    BY DEF IInv, Typed, ChunksOK
  <1>4. BelowWindow'
    BY WindowKept DEF IInv
  <1>5. StreamsInStep'
    BY InStepKept DEF IInv
  <1>6. Target'
    BY TargetKept DEF IInv
  <1> QED
    BY <1>1, <1>2, <1>3, <1>4, <1>5, <1>6 DEF IInv, Typed

\* A boot, and a run started by hand.
LEMMA BootIInv ==
    ASSUME IInv, pc = "down", pc' \in {"refused", "tracker", "start", "verify"},
           UNCHANGED <<conf, node, db, seed, files, st, end, at, stage, queue, keys, downs, cut>>,
           reruns' \in 0..MaxReruns,
           args' \in [auto : BOOLEAN, to : Heights \cup {Absent}, skipDump : BOOLEAN, skipParse : BOOLEAN]
    PROVE  IInv'
  <1> USE DEF files
  <1>1. MergeTyped(merge') /\ ManifestTyped(manifest') /\ KeysOK'
    BY DEF IInv, Typed, KeysOK
  <1>2. RunOK'
    BY DEF IInv, Typed, RunOK, Idle, Phases
  <1>3. QueueDone'
    BY QueueEmpty, SpareNone DEF IInv
  <1>4. ManifestsNest'
    BY ManifestsKept DEF IInv
  <1> QED
    BY <1>1, <1>2, <1>3, <1>4, NoInputs, FrameIInv

LEMMA BootsIInv ==
    ASSUME IInv, Boot \/ OperatorRun
    PROVE  IInv'
  <1>0. args \in [auto : BOOLEAN, to : Heights \cup {Absent}, skipDump : BOOLEAN, skipParse : BOOLEAN]
        /\ reruns \in 0..MaxReruns
    BY DEF IInv, Typed, FlagsOK, StoreOK
  <1>1. CASE BootRefused \/ BootTracker
    BY <1>0, <1>1, BootIInv DEF BootRefused, BootTracker, run, count
  <1>2. CASE BootBulkSync
    <2> DEFINE a == [NoArgs EXCEPT !.auto = TRUE, !.skipParse = ResumeSkipsParse]
    <2>1. Launch(a) /\ pc = "down" /\ reruns' = reruns
      BY <1>2 DEF BootBulkSync
    <2>2. a \in [auto : BOOLEAN, to : Heights \cup {Absent}, skipDump : BOOLEAN, skipParse : BOOLEAN]
      BY DEF NoArgs, ResumeSkipsParse
    <2> HIDE DEF a
    <2> QED
      BY <1>0, <2>1, <2>2, BootIInv DEF Launch
  <1>3. CASE OperatorRun
    <2>1. PICK to \in Heights \cup {Absent}, sd \in BOOLEAN, sp \in BOOLEAN :
            Launch([auto |-> FALSE, to |-> to, skipDump |-> sd, skipParse |-> sp])
      BY <1>3 DEF OperatorRun
    <2> DEFINE a == [auto |-> FALSE, to |-> to, skipDump |-> sd, skipParse |-> sp]
    <2>2. a \in [auto : BOOLEAN, to : Heights \cup {Absent}, skipDump : BOOLEAN, skipParse : BOOLEAN]
      OBVIOUS
    <2>3. reruns' \in 0..MaxReruns
      <3>1. reruns \in 0..MaxReruns /\ reruns < MaxReruns /\ reruns' = reruns + 1 /\ MaxReruns \in Nat
        BY <1>0, <1>3, BulkAssumption DEF OperatorRun
      <3> QED
        BY <3>1
    <2>4. Launch(a)
      BY <2>1
    <2> HIDE DEF a
    <2> QED
      BY <1>3, <2>2, <2>3, <2>4, BootIInv DEF Launch, OperatorRun
  <1> QED
    BY <1>1, <1>2, <1>3 DEF Boot

-----------------------------------------------------------------------------
(***************************************************************************)
(* Dump, verify and parse: chunks are added, and what was merged before    *)
(* stays within them.                                                      *)
(***************************************************************************)
LEMMA ManifestsGrow ==
    ASSUME IInv, ChunksOK', UNCHANGED <<merge, manifest>>, \A s \in Streams : parsed[s] \subseteq parsed'[s]
    PROVE  ManifestsNest'
  <1> SUFFICES ASSUME NEW s \in Sortable
               PROVE  LET file == merge[SortedFile(s)]
                      IN  /\ manifest[s] # Absent => parsed'[s] # {} /\ Within(manifest[s], Span(parsed'[s]))
                          /\ file # Absent => parsed'[s] # {} /\ Within(file.of, Span(parsed'[s]))
                          /\ manifest[s] # Absent /\ file # Absent => Within(manifest[s], file.of)
    BY DEF ManifestsNest
  <1> DEFINE file == merge[SortedFile(s)]
  <1>1. s \in Streams /\ parsed[s] \subseteq parsed'[s]
    BY DEF Streams, Sortable
  <1>2. parsed[s] \in SUBSET Ranges /\ parsed'[s] \in SUBSET Ranges
    BY <1>1 DEF ChunksOK, IInv, Typed
  <1>3. /\ manifest[s] # Absent => manifest[s] \in Ranges
        /\ file # Absent => file.of \in Ranges
    BY DEF IInv, Typed, ManifestTyped, MergeTyped
  <1>4. /\ manifest[s] # Absent => parsed[s] # {} /\ Within(manifest[s], Span(parsed[s]))
        /\ file # Absent => parsed[s] # {} /\ Within(file.of, Span(parsed[s]))
        /\ manifest[s] # Absent /\ file # Absent => Within(manifest[s], file.of)
    BY DEF IInv, ManifestsNest
  <1> HIDE DEF file
  <1>5. parsed[s] # {} => /\ Span(parsed[s]) \in Ranges /\ Span(parsed'[s]) \in Ranges
                          /\ Within(Span(parsed[s]), Span(parsed'[s]))
    BY <1>1, <1>2, SpanFacts, SpanGrows
  <1>6. manifest[s] # Absent => parsed'[s] # {} /\ Within(manifest[s], Span(parsed'[s]))
    BY <1>1, <1>3, <1>4, <1>5, WithinOrder
  <1>7. file # Absent => parsed'[s] # {} /\ Within(file.of, Span(parsed'[s]))
    BY <1>1, <1>3, <1>4, <1>5, WithinOrder
  <1> QED
    BY <1>4, <1>6, <1>7 DEF file

LEMMA ChunksIInv ==
    ASSUME IInv, Spare(pc) = {}, pc' \in {"dump", "parse", "rmdumps", "merge"},
           UNCHANGED <<conf, node, db, seed, merge, manifest, args, queue, keys, count>>,
           \A s \in Streams : parsed[s] \subseteq parsed'[s],
           ChunksOK', RunOK', BelowWindow', StreamsInStep'
    PROVE  IInv'
  <1>1. FlagsOK'
    BY DEF IInv, Typed, FlagsOK, count
  <1>2. StoreOK' /\ MergeTyped(merge') /\ ManifestTyped(manifest') /\ KeysOK'
    BY DEF IInv, Typed, StoreOK, KeysOK, count
  <1>3. ManifestsNest'
    BY ManifestsGrow
  <1>4. cut' = cut
    BY DEF count
  <1>5. Target'
    BY <1>4, TargetKept DEF IInv
  <1>6. QueueDone'
    BY QueueEmpty DEF IInv
  <1> QED
    BY <1>1, <1>2, <1>3, <1>5, <1>6, NoInputs DEF IInv, Typed

\* resolveDumpEnd: the dump ends below the undo window, on either path.
LEMMA DumpBeginIInv ==
    ASSUME IInv, DumpBegin
    PROVE  IInv'
  <1> DEFINE e == DumpEnd(args.to)
  <1>0. pc = "start" /\ UNCHANGED <<conf, node, db, seed, files, count>>
    BY DEF DumpBegin
  <1>1. CASE e < 0 \/ (args.to # Absent /\ e > node - UndoBlocks)
    BY <1>0, <1>1, SameFilesKept, FatalIInv DEF DumpBegin, Fatal, files
  <1>2. CASE ~(e < 0 \/ (args.to # Absent /\ e > node - UndoBlocks))
    <2>1. pc' = "dump" /\ end' = e /\ at' = 0 /\ UNCHANGED <<st, args, stage, queue, keys>>
      BY <1>2 DEF DumpBegin
    <2>2. /\ node \in Nat /\ node <= MaxHeight /\ MaxHeight \in Nat
          /\ UndoBlocks \in Nat /\ TipSafety \in Nat
      BY BulkAssumption DEF IInv, Typed, StoreOK, Heights
    <2>3. e \in Heights /\ e <= node - UndoBlocks
      <3>1. CASE args.to = Absent
        <4>1. e = node - EffectiveTipSafety
          BY <3>1 DEF DumpEnd
        <4>2. EffectiveTipSafety \in Nat /\ UndoBlocks <= EffectiveTipSafety
          BY <2>2, OfTwo DEF EffectiveTipSafety
        <4>3. ~(e < 0)
          BY <1>2
        <4> HIDE DEF e
        <4> QED
          BY <2>2, <4>1, <4>2, <4>3 DEF Heights
      <3>2. CASE args.to # Absent
        <4>1. e = args.to /\ args.to \in Heights
          BY <3>2 DEF DumpEnd, IInv, Typed, FlagsOK
        <4>2. ~(e > node - UndoBlocks)
          BY <1>2, <3>2
        <4> HIDE DEF e
        <4> QED
          BY <2>2, <4>1, <4>2 DEF Heights
      <3> QED
        BY <3>1, <3>2
    <2> HIDE DEF e
    <2>4. RunOK'
      BY <1>0, <2>1, <2>2, <2>3 DEF IInv, Typed, RunOK, Phases, files
    <2>5. ChunksOK' /\ BelowWindow'
      BY <1>0, <2>1, <2>3 DEF IInv, Typed, ChunksOK, BelowWindow, files
    <2>6. StreamsInStep'
      <3>1. Done' = Done
        BY <1>0 DEF Done, files
      <3>2. dumps' = dumps /\ parsed' = parsed /\ cut' = cut
        BY <1>0 DEF files, count
      <3> QED
        BY <1>0, <2>1, <3>1, <3>2 DEF IInv, StreamsInStep
    <2>7. Spare(pc) = {}
      BY <1>0, SpareNone
    <2> QED
      BY <1>0, <2>1, <2>4, <2>5, <2>6, <2>7, ChunksIInv DEF files
  <1> QED
    BY <1>1, <1>2

LEMMA DumpChunkIInv ==
    ASSUME IInv, DumpChunk
    PROVE  IInv'
  <1> DEFINE last == Min({at + ChunkSize - 1, end})
  <1> DEFINE chunk == <<at, last>>
  <1>1. /\ pc = "dump" /\ pc' = "dump" /\ at <= end /\ dumps' = dumps \cup {chunk} /\ at' = chunk[2] + 1
        /\ UNCHANGED <<conf, node, db, seed, parsed, merge, manifest, st, args, end, stage, queue, keys, count>>
    BY DEF DumpChunk
  <1>2. at' = last + 1
    BY <1>1
  <1>3. at \in Nat /\ end \in Nat /\ end <= MaxHeight /\ ChunkSize \in Nat \ {0} /\ MaxHeight \in Nat
    BY BulkAssumption DEF IInv, Typed, RunOK, Heights
  <1>4. last \in Int /\ at <= last /\ last <= end
    <2>1. at + ChunkSize - 1 \in Int /\ at <= at + ChunkSize - 1 /\ end \in Int
      BY <1>3
    <2>2. last \in {at + ChunkSize - 1, end} /\ last <= end
      BY <2>1, OfTwo
    <2> HIDE DEF last
    <2> QED
      BY <1>1, <1>3, <2>1, <2>2
  <1> HIDE DEF last
  <1>5. at \in Heights /\ last \in Heights /\ last + 1 \in 0..(MaxHeight + 1) /\ last + 1 > 0
    BY <1>3, <1>4 DEF Heights
  <1>6. chunk \in Ranges /\ chunk[1] = at /\ chunk[2] = last
    BY <1>4, <1>5 DEF Ranges
  <1> HIDE DEF chunk
  <1>7. ChunksOK'
    BY <1>1, <1>6 DEF IInv, Typed, ChunksOK
  <1>8. RunOK'
    BY <1>1, <1>2, <1>5 DEF IInv, Typed, RunOK
  <1>9. BelowWindow'
    <2>1. end <= node - UndoBlocks
      BY <1>1 DEF IInv, BelowWindow
    <2>2. last <= node - UndoBlocks
      <3>1. node - UndoBlocks \in Int
        BY BulkAssumption DEF IInv, Typed, StoreOK, Heights
      <3> QED
        BY <1>3, <1>4, <2>1, <3>1
    <2> QED
      BY <1>1, <1>6, <2>1, <2>2 DEF IInv, BelowWindow
  <1>10. StreamsInStep'
    <2>1. Done' = Done /\ parsed' = parsed /\ cut' = cut
      BY <1>1 DEF Done, count
    <2>2. ASSUME ~cut PROVE FromGenesis(dumps' \cup Done)
      <3>1. CASE at = 0
        BY <1>1, <1>6, <3>1 DEF FromGenesis
      <3>2. CASE at # 0
        <4>1. at > 0
          BY <1>3, <3>2
        <4>2. FromGenesis(dumps \cup Done)
          BY <1>1, <2>2, <4>1 DEF IInv, StreamsInStep
        <4> QED
          BY <1>1, <4>2 DEF FromGenesis
      <3> QED
        BY <3>1, <3>2
    <2>3. dumps' # {}
      BY <1>1
    <2> QED
      BY <1>1, <2>1, <2>2, <2>3 DEF IInv, StreamsInStep
  <1>11. Spare(pc) = {}
    BY <1>1, SpareNone
  <1> QED
    BY <1>1, <1>7, <1>8, <1>9, <1>10, <1>11, ChunksIInv

\* From one phase to the next before the merge, files as they are.
LEMMA NextPhaseIInv ==
    ASSUME IInv, Spare(pc) = {}, pc # "parse", pc' \in {"verify", "merge"}, pc # "rmdumps", st = "outputs",
           UNCHANGED <<conf, node, db, seed, files, run, count>>
    PROVE  IInv'
  <1> USE DEF files, run, count
  <1>1. MergeTyped(merge') /\ ManifestTyped(manifest') /\ KeysOK'
    BY DEF IInv, Typed, KeysOK
  <1>2. RunOK'
    BY DEF IInv, Typed, RunOK, Phases
  <1>3. QueueDone'
    BY QueueEmpty DEF IInv
  <1>4. ManifestsNest'
    BY ManifestsKept DEF IInv
  <1>5. /\ args \in [auto : BOOLEAN, to : Heights \cup {Absent}, skipDump : BOOLEAN, skipParse : BOOLEAN]
        /\ reruns \in 0..MaxReruns
    BY DEF IInv, Typed, FlagsOK, StoreOK
  <1> QED
    BY <1>1, <1>2, <1>3, <1>4, <1>5, NoInputs, FrameIInv

LEMMA DumpDoneIInv ==
    ASSUME IInv, DumpDone
    PROVE  IInv'
  <1>1. st = "outputs" /\ Spare(pc) = {}
    BY SpareNone DEF DumpDone, IInv, Typed, RunOK
  <1> QED
    BY <1>1, NextPhaseIInv DEF DumpDone

LEMMA VerifyIInv ==
    ASSUME IInv, VerifyDumpChain
    PROVE  IInv'
  <1>0. pc = "verify" /\ UNCHANGED <<conf, node, db, seed, files, count>>
    BY DEF VerifyDumpChain
  <1>1. st = "outputs" /\ Spare(pc) = {}
    BY <1>0, SpareNone DEF IInv, Typed, RunOK
  <1>2. CASE conf.mainnet /\ ~DumpsLinkUp
    BY <1>0, <1>2, SameFilesKept, FatalIInv DEF VerifyDumpChain, Fatal, files
  <1>3. CASE ~(conf.mainnet /\ ~DumpsLinkUp)
    <2>1. pc' \in {"merge", "parse"} /\ UNCHANGED run
      BY <1>3 DEF VerifyDumpChain
    <2>2. CASE pc' = "merge"
      BY <1>0, <1>1, <2>1, <2>2, NextPhaseIInv
    <2>3. CASE pc' = "parse"
      <3>1. RunOK' /\ ChunksOK' /\ BelowWindow'
        BY <1>0, <1>1, <2>1, <2>3 DEF IInv, Typed, RunOK, Phases, ChunksOK, BelowWindow, files, run
      <3>2. StreamsInStep'
        <4>1. Done' = Done /\ dumps' = dumps /\ parsed' = parsed /\ cut' = cut
          BY <1>0 DEF Done, files, count
        <4>2. DOMAIN stage' = {}
          BY <1>0, <2>1 DEF IInv, Typed, RunOK, run
        <4> QED
          BY <1>0, <2>3, <4>1, <4>2 DEF IInv, StreamsInStep
      <3> QED
        BY <1>0, <1>1, <2>1, <2>3, <3>1, <3>2, ChunksIInv DEF files, run
    <2> QED
      BY <2>1, <2>2, <2>3
  <1> QED
    BY <1>2, <1>3

LEMMA StartBatchIInv ==
    ASSUME IInv, StartBatch
    PROVE  IInv'
  <1> DEFINE todo == dumps \ DOMAIN stage
  <1> DEFINE batch == {r \in todo : Cardinality({p \in todo : Before(p, r)}) < Workers}
  <1>1. /\ pc = "parse" /\ pc' = "parse" /\ \A r \in DOMAIN stage : stage[r] = 3
        /\ stage' = [r \in DOMAIN stage \cup batch |-> IF r \in DOMAIN stage \/ AlreadyParsed(r) THEN 3 ELSE 0]
        /\ UNCHANGED <<conf, node, db, seed, files, st, args, end, at, queue, keys, count>>
    BY DEF StartBatch
  <1>2. batch \subseteq dumps
    OBVIOUS
  <1> HIDE DEF batch
  <1>3. DOMAIN stage' = DOMAIN stage \cup batch
    BY <1>1
  <1>4. ASSUME NEW r \in DOMAIN stage'
        PROVE  stage'[r] = 0 \/ (stage'[r] = 3 /\ \A s \in Streams : r \in parsed[s])
    <2>1. stage'[r] = IF r \in DOMAIN stage \/ AlreadyParsed(r) THEN 3 ELSE 0
      BY <1>1, <1>3
    <2>2. CASE r \in DOMAIN stage
      <3>1. \A i \in 1..3 : r \in parsed[<<"outputs", "spends", "meta">>[i]]
        BY <1>1, <2>2 DEF IInv, StreamsInStep
      <3>2. r \in parsed["outputs"] /\ r \in parsed["spends"] /\ r \in parsed["meta"]
        BY <3>1
      <3> QED
        BY <2>1, <2>2, <3>2 DEF Streams
    <2>3. CASE r \notin DOMAIN stage
      BY <2>1, <2>3 DEF AlreadyParsed
    <2> QED
      BY <2>2, <2>3
  <1>5. RunOK'
    <2>1. \A r \in DOMAIN stage' : stage'[r] \in 0..3
      BY <1>4
    <2>2. DOMAIN stage' \subseteq dumps'
      BY <1>1, <1>2, <1>3 DEF IInv, Typed, RunOK, files
    <2> QED
      BY <1>1, <2>1, <2>2 DEF IInv, Typed, RunOK, files
  <1>6. ChunksOK' /\ BelowWindow'
    BY <1>1 DEF IInv, Typed, ChunksOK, BelowWindow, files
  <1>7. StreamsInStep'
    <2>1. Done' = Done /\ dumps' = dumps /\ parsed' = parsed /\ cut' = cut
      BY <1>1 DEF Done, files, count
    <2>2. ASSUME NEW r \in DOMAIN stage', NEW i \in 1..3, i <= stage'[r]
          PROVE  r \in parsed[<<"outputs", "spends", "meta">>[i]]
      <3>1. stage'[r] # 0
        BY <2>2
      <3>2. <<"outputs", "spends", "meta">>[i] \in Streams
        BY DEF Streams
      <3> QED
        BY <1>4, <3>1, <3>2
    <2> QED
      BY <1>1, <2>1, <2>2 DEF IInv, StreamsInStep
  <1>8. Spare(pc) = {}
    BY <1>1, SpareNone
  <1> QED
    BY <1>1, <1>5, <1>6, <1>7, <1>8, ChunksIInv DEF files

LEMMA WorkerClosesIInv ==
    ASSUME IInv, WorkerCloses
    PROVE  IInv'
  <1>1. PICK r \in DOMAIN stage :
          /\ stage[r] < 3
          /\ stage' = [stage EXCEPT ![r] = @ + 1]
          /\ parsed' = [parsed EXCEPT ![<<"outputs", "spends", "meta">>[stage[r] + 1]] = @ \cup {r}]
    BY DEF WorkerCloses
  <1> DEFINE name == <<"outputs", "spends", "meta">>[stage[r] + 1]
  <1>2. /\ pc = "parse" /\ pc' = "parse"
        /\ UNCHANGED <<conf, node, db, seed, dumps, merge, manifest, st, args, end, at, queue, keys, count>>
    BY DEF WorkerCloses
  <1>3. r \in dumps /\ r \in Ranges /\ stage[r] \in 0..3 /\ r[2] <= node - UndoBlocks
    BY DEF IInv, Typed, RunOK, ChunksOK, BelowWindow
  <1>4. stage[r] + 1 \in 1..3
    BY <1>1, <1>3
  <1>5. name \in Streams
    BY <1>4 DEF Streams
  <1>6. DOMAIN stage' = DOMAIN stage /\ \A q \in DOMAIN stage : stage'[q] = IF q = r THEN stage[r] + 1 ELSE stage[q]
    BY <1>1
  <1>7. parsed \in [Streams -> SUBSET Ranges]
    BY DEF IInv, Typed, ChunksOK
  <1>8. /\ parsed'[name] = parsed[name] \cup {r}
        /\ \A s \in Streams : s # name => parsed'[s] = parsed[s]
        /\ parsed' \in [Streams -> SUBSET Ranges]
    <2>1. parsed' = [parsed EXCEPT ![name] = parsed[name] \cup {r}]
      BY <1>1
    <2> HIDE DEF name
    <2> QED
      BY <1>3, <1>5, <1>7, <2>1
  <1>9. ChunksOK'
    BY <1>2, <1>8 DEF IInv, Typed, ChunksOK
  <1>10. RunOK'
    <2>1. \A q \in DOMAIN stage' : stage'[q] \in 0..3
      BY <1>4, <1>6 DEF IInv, Typed, RunOK
    <2> QED
      BY <1>2, <1>6, <2>1 DEF IInv, Typed, RunOK
  <1>11. \A s \in Streams : parsed[s] \subseteq parsed'[s] /\ parsed'[s] \subseteq parsed[s] \cup {r}
    BY <1>8
  <1>12. BelowWindow'
    BY <1>2, <1>3, <1>11 DEF IInv, BelowWindow
  <1>13. StreamsInStep'
    <2>1. Done \subseteq Done' /\ dumps' = dumps /\ cut' = cut
      BY <1>2, <1>11 DEF Done, count
    <2>2. ASSUME NEW q \in DOMAIN stage', NEW i \in 1..3, i <= stage'[q]
          PROVE  q \in parsed'[<<"outputs", "spends", "meta">>[i]]
      <3>1. <<"outputs", "spends", "meta">>[i] \in Streams
        BY DEF Streams
      <3>2. CASE i <= stage[q]
        <4>1. q \in parsed[<<"outputs", "spends", "meta">>[i]]
          BY <1>2, <1>6, <3>2 DEF IInv, StreamsInStep
        <4> QED
          BY <1>11, <3>1, <4>1
      <3>3. CASE ~(i <= stage[q])
        <4>1. q = r /\ i <= stage[r] + 1
          BY <1>6, <2>2, <3>3
        <4>2. i = stage[r] + 1
          BY <1>3, <3>3, <4>1
        <4> QED
          BY <1>8, <4>1, <4>2
      <3> QED
        BY <3>2, <3>3
    <2>3. ASSUME ~cut PROVE \A s \in Streams : parsed'[s] \subseteq Done' \cup dumps
      <3>1. \A s \in Streams : parsed[s] \subseteq Done \cup dumps
        BY <1>2, <2>3 DEF IInv, StreamsInStep
      <3> QED
        BY <1>3, <1>11, <2>1, <3>1
    <2>4. ASSUME ~cut PROVE FromGenesis(dumps \cup Done')
      <3>1. FromGenesis(dumps \cup Done)
        BY <1>3, <2>4 DEF IInv, StreamsInStep
      <3> QED
        BY <2>1, <3>1 DEF FromGenesis
    <2> QED
      BY <1>2, <2>1, <2>2, <2>3, <2>4 DEF StreamsInStep
  <1>14. Spare(pc) = {}
    BY <1>2, SpareNone
  <1> QED
    BY <1>2, <1>9, <1>10, <1>11, <1>12, <1>13, <1>14, ChunksIInv

\* Every worker has closed its three files: the streams hold the same chunks.
LEMMA ParseDoneIInv ==
    ASSUME IInv, ParseDone
    PROVE  IInv'
  <1>1. /\ pc = "parse" /\ DOMAIN stage = dumps /\ \A r \in dumps : stage[r] = 3
        /\ pc' = "rmdumps" /\ UNCHANGED <<conf, node, db, seed, files, run, count>>
    BY DEF ParseDone
  <1>2. dumps \subseteq Done
    <2> SUFFICES ASSUME NEW r \in dumps PROVE r \in Done
      OBVIOUS
    <2>1. \A i \in 1..3 : r \in parsed[<<"outputs", "spends", "meta">>[i]]
      BY <1>1 DEF IInv, StreamsInStep
    <2>2. r \in parsed["outputs"] /\ r \in parsed["spends"] /\ r \in parsed["meta"]
      BY <2>1
    <2>3. r \in Ranges
      BY DEF IInv, Typed, ChunksOK
    <2> QED
      BY <2>2, <2>3 DEF Done, Streams
  <1>3. RunOK' /\ ChunksOK' /\ BelowWindow'
    BY <1>1 DEF IInv, Typed, RunOK, Phases, ChunksOK, BelowWindow, files, run
  <1>4. StreamsInStep'
    <2>1. Done' = Done /\ dumps' = dumps /\ parsed' = parsed /\ cut' = cut
      BY <1>1 DEF Done, files, count
    <2>2. dumps \cup Done = Done /\ Done \cup dumps = Done
      BY <1>2
    <2>3. ASSUME ~cut
          PROVE  (\A s \in Streams : parsed[s] \subseteq Done) /\ (Done # {} => FromGenesis(Done))
      BY <1>1, <2>2, <2>3 DEF IInv, StreamsInStep
    <2> QED
      BY <1>1, <1>2, <2>1, <2>2, <2>3 DEF StreamsInStep
  <1>5. Spare(pc) = {}
    BY <1>1, SpareNone
  <1> QED
    BY <1>1, <1>3, <1>4, <1>5, ChunksIInv DEF files, run

LEMMA RemoveDumpsIInv ==
    ASSUME IInv, RemoveDumps
    PROVE  IInv'
  <1>1. /\ pc = "rmdumps" /\ dumps' = {} /\ stage' = <<>> /\ pc' = "merge"
        /\ UNCHANGED <<conf, node, db, seed, parsed, merge, manifest, st, args, end, at, queue, keys, count>>
    BY DEF RemoveDumps
  <1>2. DOMAIN stage' = {}
    BY <1>1
  <1>3. RunOK'
    BY <1>1, <1>2 DEF IInv, Typed, RunOK, Phases
  <1>4. ChunksOK' /\ BelowWindow'
    BY <1>1 DEF IInv, Typed, ChunksOK, BelowWindow
  <1>5. StreamsInStep'
    <2>1. Done' = Done /\ parsed' = parsed /\ cut' = cut /\ {} \cup Done = Done
      BY <1>1 DEF Done, count
    <2> QED
      BY <1>1, <2>1 DEF IInv, StreamsInStep
  <1>6. Spare(pc) = {}
    BY <1>1, SpareNone
  <1> QED
    BY <1>1, <1>3, <1>4, <1>5, <1>6, ChunksIInv

-----------------------------------------------------------------------------
(***************************************************************************)
(* The merge: the chunks are left alone, files come and go.                *)
(***************************************************************************)
LEMMA MergeIInv ==
    ASSUME IInv, pc # "parse",
           pc' \in {"concat", "sort", "sorting", "manifest", "join", "meta", "live", "script", "load"},
           UNCHANGED <<conf, node, db, seed, dumps, parsed, args, end, at, count>>,
           DOMAIN stage = {}, stage' = stage,
           \/ st' = "outputs"
           \/ st' = "spends" /\ pc' \in {"concat", "sort", "sorting", "manifest"}
           \/ st' = "meta" /\ pc' = "concat",
           queue' \in Seq(MergeFiles), KeysOK', MergeTyped(merge'), ManifestTyped(manifest'),
           PhaseInputs', QueueDone', ManifestsNest'
    PROVE  IInv'
  <1>1. RunOK'
    BY DEF IInv, Typed, RunOK, Phases
  <1>2. args' \in [auto : BOOLEAN, to : Heights \cup {Absent}, skipDump : BOOLEAN, skipParse : BOOLEAN]
    BY DEF IInv, Typed, FlagsOK
  <1>3. reruns' \in 0..MaxReruns /\ downs' = downs /\ cut' = cut
    BY DEF IInv, Typed, StoreOK, count
  <1> QED
    BY <1>1, <1>2, <1>3, FrameIInv

\* What the invariant says in a phase of the merge.
LEMMA MergeFacts ==
    ASSUME IInv, pc \in {"merge", "concat", "sort", "sorting", "manifest", "join", "meta", "live", "script", "load"}
    PROVE  /\ DOMAIN stage = {} /\ st \in Streams /\ queue \in Seq(MergeFiles) /\ QueueDone
           /\ KeysOK /\ MergeTyped(merge) /\ ManifestTyped(manifest)
           /\ pc # "concat" => st \in Sortable
           /\ \A s \in Streams : parsed[s] \in SUBSET Ranges
           /\ \A s \in Streams : parsed[s] # {} => Span(parsed[s]) \in Ranges
  <1>1. \A s \in Streams : parsed[s] \in SUBSET Ranges
    BY ParsedTyped DEF IInv, Typed
  <1>2. \A s \in Streams : parsed[s] # {} => Span(parsed[s]) \in Ranges
    BY <1>1, SpanFacts
  <1> QED
    BY <1>1, <1>2 DEF IInv, Typed, RunOK, Streams, Sortable

\* The meta stream has no record size, so concatenated files are never reused.
LEMMA MergeBeginIInv ==
    ASSUME IInv, MergeBegin
    PROVE  IInv'
  <1>1. ~ConcatReusable
    BY DEF ConcatReusable, ConcatArtifactValid, RecordSize, Streams
  <1>2. pc = "merge" /\ pc' = "concat" /\ UNCHANGED <<conf, node, db, seed, files, run, count>>
    BY <1>1 DEF MergeBegin
  <1>3. st = "outputs"
    BY <1>2 DEF IInv, Typed, RunOK
  <1>4. PhaseInputs'
    BY <1>2, <1>3 DEF PhaseInputs, run
  <1>5. QueueDone'
    BY <1>2, QueueEmpty, SpareNone DEF IInv, run
  <1>6. ManifestsNest'
    BY <1>2, ManifestsKept DEF IInv, files
  <1>7. KeysOK' /\ MergeTyped(merge') /\ ManifestTyped(manifest') /\ queue' \in Seq(MergeFiles) /\ DOMAIN stage = {}
    BY <1>2, MergeFacts DEF KeysOK, files, run
  <1> QED
    BY <1>2, <1>3, <1>4, <1>5, <1>6, <1>7, MergeIInv DEF files, run

LEMMA ConcatIInv ==
    ASSUME IInv, Concat
    PROVE  IInv'
  <1>0. pc = "concat" /\ UNCHANGED <<conf, node, db, seed, dumps, parsed, manifest, count>>
    BY DEF Concat
  <1>1. CASE parsed[st] = {} \/ ~Contiguous(parsed[st])
    BY <1>0, <1>1, SameFilesKept, FatalIInv DEF Concat, Fatal
  <1>2. CASE ~(parsed[st] = {} \/ ~Contiguous(parsed[st]))
    <2>1. /\ parsed[st] # {} /\ merge' = [merge EXCEPT ![AllFile(st)] = Span(parsed[st])]
          /\ UNCHANGED <<args, end, at, stage, queue, keys>>
      BY <1>2 DEF Concat
    <2>2. /\ st = "outputs" => pc' = "concat" /\ st' = "spends"
          /\ st = "spends" => pc' = "concat" /\ st' = "meta"
          /\ st = "meta" => pc' = "sort" /\ st' = "outputs"
      BY <1>2 DEF Concat
    <2>3. st \in Streams /\ Span(parsed[st]) \in Ranges /\ MergeTyped(merge)
      BY <1>0, <2>1, MergeFacts
    <2>4. AllFile(st) \in MergeFiles /\ AllFile(st) # LiveUtxos /\ \A s \in Sortable : AllFile(st) # SortedFile(s)
      BY <2>3, FileNames DEF Streams, Sortable
    <2>5. MergeTyped(merge')
      BY <2>1, <2>3, <2>4, PutTyped
    <2>6. /\ merge'[AllFile(st)] = Span(parsed[st])
          /\ \A f \in MergeFiles : f # AllFile(st) => merge'[f] = merge[f]
      BY <2>1, <2>3, <2>4, PutFile DEF MergeTyped
    <2>7. \A s \in Streams : s # st => merge'[AllFile(s)] = merge[AllFile(s)]
      BY <2>3, <2>6, FileNames
    <2>8. ManifestsNest'
      BY <1>0, <2>4, <2>6, FileNames, ManifestsKept DEF IInv
    <2>10. PhaseInputs'
      <3>1. CASE st = "outputs"
        BY <1>0, <2>1, <2>2, <2>6, <3>1 DEF PhaseInputs, Concatenated
      <3>2. CASE st = "spends"
        <4>1. Concatenated("outputs") /\ merge'[AllFile("outputs")] = merge[AllFile("outputs")]
          BY <1>0, <2>7, <3>2 DEF IInv, PhaseInputs, Streams
        <4> QED
          BY <1>0, <2>1, <2>2, <2>6, <3>2, <4>1 DEF PhaseInputs, Concatenated
      <3>3. CASE st = "meta"
        <4>1. /\ Concatenated("outputs") /\ merge'[AllFile("outputs")] = merge[AllFile("outputs")]
              /\ Concatenated("spends") /\ merge'[AllFile("spends")] = merge[AllFile("spends")]
          BY <1>0, <2>7, <3>3 DEF IInv, PhaseInputs, Streams
        <4> QED
          BY <1>0, <2>1, <2>2, <2>6, <3>3, <4>1 DEF PhaseInputs, Concatenated, Streams
      <3> QED
        BY <2>3, <3>1, <3>2, <3>3 DEF Streams
    <2>11. QueueDone'
      BY <1>0, <2>1, QueueEmpty, SpareNone DEF IInv
    <2>12. KeysOK' /\ ManifestTyped(manifest') /\ queue' \in Seq(MergeFiles) /\ DOMAIN stage = {}
      BY <1>0, <2>1, MergeFacts DEF KeysOK
    <2>13. /\ pc' \in {"concat", "sort"}
           /\ \/ st' = "outputs"
              \/ st' = "spends" /\ pc' \in {"concat", "sort", "sorting", "manifest"}
              \/ st' = "meta" /\ pc' = "concat"
      BY <2>2, <2>3 DEF Streams
    <2> QED
      BY <1>0, <2>1, <2>5, <2>8, <2>10, <2>11, <2>12, <2>13, MergeIInv
  <1> QED
    BY <1>1, <1>2

\* A stream is sorted: the next one, or the join.
LEMMA AfterSortIInv ==
    ASSUME IInv, pc \in {"sort", "manifest"}, Sorted(st), AfterSort,
           UNCHANGED <<conf, node, db, seed, dumps, parsed, args, end, at, stage, keys, count>>,
           ManifestTyped(manifest'),
           \A s \in Sortable : manifest'[s] = manifest[s] \/ (s = st /\ manifest'[s] = Span(parsed[s]))
    PROVE  IInv'
  <1>0. /\ DOMAIN stage = {} /\ st \in Sortable /\ queue \in Seq(MergeFiles) /\ QueueDone
        /\ KeysOK /\ MergeTyped(merge)
        /\ \A s \in Streams : parsed[s] # {} /\ merge[AllFile(s)] = Span(parsed[s]) /\ Span(parsed[s]) \in Ranges
    BY MergeFacts DEF IInv, PhaseInputs, Concatenated
  <1>1. KeysOK'
    BY <1>0 DEF KeysOK
  <1>2. ASSUME \A s \in Sortable : merge'[SortedFile(s)] = merge[SortedFile(s)]
        PROVE  ManifestsNest'
    <2> SUFFICES ASSUME NEW s \in Sortable
                 PROVE  LET file == merge[SortedFile(s)]
                        IN  /\ manifest'[s] # Absent => parsed[s] # {} /\ Within(manifest'[s], Span(parsed[s]))
                            /\ file # Absent => parsed[s] # {} /\ Within(file.of, Span(parsed[s]))
                            /\ manifest'[s] # Absent /\ file # Absent => Within(manifest'[s], file.of)
      BY <1>2 DEF ManifestsNest
    <2>1. CASE manifest'[s] = manifest[s]
      BY <2>1 DEF IInv, ManifestsNest
    <2>2. CASE s = st /\ manifest'[s] = Span(parsed[s])
      <3>1. s \in Streams /\ parsed[s] # {} /\ Span(parsed[s]) \in Ranges
        BY <1>0 DEF Streams, Sortable
      <3>2. Within(Span(parsed[s]), Span(parsed[s]))
        BY <3>1, WithinOrder
      <3>3. merge[SortedFile(s)].of = Span(parsed[s])
        BY <2>2 DEF Sorted
      <3> QED
        BY <2>2, <3>1, <3>2, <3>3
    <2> QED
      BY <2>1, <2>2
  <1>3. CASE st = "outputs"
    <2>1. pc' = "sort" /\ st' = "spends" /\ UNCHANGED <<queue, merge>>
      BY <1>3 DEF AfterSort
    <2>2. PhaseInputs'
      BY <1>0, <1>3, <2>1 DEF PhaseInputs, Concatenated, Sorted
    <2>3. QueueDone'
      BY <2>1, QueueEmpty, SpareNone DEF IInv
    <2> QED
      BY <1>0, <1>1, <1>2, <2>1, <2>2, <2>3, MergeIInv
  <1>4. CASE st = "spends"
    <2>1. pc' = "join" /\ st' = "outputs" /\ EnqueueAndFree(<<AllFile("spends")>>, merge)
      BY <1>4 DEF AfterSort
    <2>2. Spare(pc) = {} /\ Spare(pc') = {AllFile("spends")}
      BY <2>1, SpareNone DEF Spare
    <2>3. <<AllFile("spends")>> \in Seq(MergeFiles) /\ \A j \in 1..Len(<<AllFile("spends")>>) : <<AllFile("spends")>>[j] \in Spare(pc')
      BY <2>2, FileNames DEF Streams
    <2>4. /\ queue' \in Seq(MergeFiles) /\ QueueDone' /\ MergeTyped(merge')
          /\ \A f \in MergeFiles : f # AllFile("spends") => merge'[f] = merge[f]
      BY <1>0, <2>1, <2>2, <2>3, FreeStep
    <2>5. /\ \A s \in Sortable : merge'[SortedFile(s)] = merge[SortedFile(s)]
          /\ merge'[AllFile("outputs")] = merge[AllFile("outputs")]
          /\ merge'[AllFile("meta")] = merge[AllFile("meta")]
      BY <2>4, FileNames DEF Streams, Sortable
    <2>6. Sorted("outputs") /\ Sorted("spends")
      BY <1>4 DEF IInv, PhaseInputs
    <2>7. /\ Sorted("outputs")' /\ Sorted("spends")'
      BY <2>5, <2>6 DEF Sorted, Sortable
    <2>8. Concatenated("outputs")' /\ Concatenated("meta")'
      BY <1>0, <2>5 DEF Concatenated, Streams
    <2>9. PhaseInputs'
      BY <1>0, <2>1, <2>7, <2>8 DEF PhaseInputs
    <2> QED
      BY <1>0, <1>1, <1>2, <2>1, <2>4, <2>5, <2>9, MergeIInv
  <1> QED
    BY <1>0, <1>3, <1>4 DEF Sortable

\* A sorted file with a manifest of this source, and of its size, is whole.
LEMMA SortReusedIInv ==
    ASSUME IInv, SortReused
    PROVE  IInv'
  <1>1. /\ pc = "sort" /\ SortedReusable(st) /\ AfterSort
        /\ UNCHANGED <<conf, node, db, seed, dumps, parsed, manifest, args, end, at, stage, keys, count>>
    BY DEF SortReused
  <1>2. st \in Sortable /\ st \in Streams /\ MergeTyped(merge) /\ ManifestTyped(manifest)
    BY <1>1, MergeFacts
  <1>3. Concatenated(st) /\ Span(parsed[st]) \in Ranges
    BY <1>1, <1>2, MergeFacts DEF IInv, PhaseInputs, Concatenated
  <1> DEFINE file == merge[SortedFile(st)]
  <1>4. /\ file # Absent /\ file.size = Size(st, Span(parsed[st])) /\ manifest[st] = Span(parsed[st])
    BY <1>1, <1>3 DEF SortedReusable, CheckSortedManifest, Concatenated
  <1>5. manifest[st] # Absent
    BY <1>3, <1>4, BulkAssumption
  <1>6. Within(file.of, Span(parsed[st])) /\ Within(Span(parsed[st]), file.of)
    BY <1>2, <1>4, <1>5 DEF IInv, ManifestsNest
  <1>7. file \in [of : Ranges, size : 0..Cardinality(Outputs)]
    BY <1>2, <1>4 DEF MergeTyped
  <1> HIDE DEF file
  <1>8. file.of = Span(parsed[st])
    BY <1>3, <1>6, <1>7, WithinOrder
  <1>9. file = [of |-> Span(parsed[st]), size |-> Size(st, Span(parsed[st]))]
    BY <1>4, <1>7, <1>8
  <1>10. Sorted(st)
    BY <1>9 DEF Sorted, file
  <1> QED
    BY <1>1, <1>2, <1>10, AfterSortIInv

LEMMA SortBeginIInv ==
    ASSUME IInv, SortBegin
    PROVE  IInv'
  <1> DEFINE file == [of |-> merge[AllFile(st)], size |-> 0]
  <1>1. /\ pc = "sort" /\ pc' = "sorting" /\ merge' = [merge EXCEPT ![SortedFile(st)] = file]
        /\ UNCHANGED <<conf, node, db, seed, dumps, parsed, manifest, run, count>>
    BY DEF SortBegin
  <1>2. /\ st \in Sortable /\ st \in Streams /\ MergeTyped(merge) /\ ManifestTyped(manifest) /\ KeysOK
        /\ DOMAIN stage = {} /\ queue \in Seq(MergeFiles)
    BY <1>1, MergeFacts
  <1>3. \A s \in Streams : Concatenated(s)
    BY <1>1 DEF IInv, PhaseInputs
  <1>4. merge[AllFile(st)] = Span(parsed[st]) /\ parsed[st] # {} /\ Span(parsed[st]) \in Ranges
    BY <1>1, <1>2, <1>3, MergeFacts DEF Concatenated
  <1>5. Cardinality(Outputs) \in Nat
    BY <1>2, <1>4, RecordsFacts
  <1>6. /\ file \in [of : Ranges, size : 0..Cardinality(Outputs)] /\ file \in [of : Ranges, size : Nat]
        /\ file.of = Span(parsed[st])
    BY <1>4, <1>5
  <1>7. file # Absent
    BY <1>6, BulkAssumption
  <1> HIDE DEF file
  <1>8. SortedFile(st) \in MergeFiles /\ SortedFile(st) # LiveUtxos /\ \A s \in Streams : SortedFile(st) # AllFile(s)
    BY <1>2, FileNames
  <1>9. MergeTyped(merge')
    BY <1>1, <1>2, <1>6, <1>8, PutTyped
  <1>10. merge'[SortedFile(st)] = file /\ \A f \in MergeFiles : f # SortedFile(st) => merge'[f] = merge[f]
    BY <1>1, <1>2, <1>8, PutFile DEF MergeTyped
  <1>11. /\ \A s \in Streams : merge'[AllFile(s)] = merge[AllFile(s)]
         /\ \A s \in Sortable : s # st => merge'[SortedFile(s)] = merge[SortedFile(s)]
    BY <1>2, <1>8, <1>10, FileNames DEF Streams, Sortable
  <1>12. st' = st /\ keys' = keys /\ queue' = queue /\ stage' = stage /\ UNCHANGED <<args, end, at>>
    BY <1>1 DEF run
  <1>13. PhaseInputs'
    <2>1. \A s \in Streams : Concatenated(s)'
      BY <1>1, <1>3, <1>11 DEF Concatenated
    <2>2. st = "spends" => Sorted("outputs")
      BY <1>1 DEF IInv, PhaseInputs
    <2>3. st' = "spends" => Sorted("outputs")'
      BY <1>1, <1>11, <1>12, <2>2 DEF Sorted, Sortable
    <2>4. merge'[SortedFile(st')] # Absent /\ merge'[SortedFile(st')].of = Span(parsed'[st'])
      BY <1>1, <1>6, <1>7, <1>10, <1>12
    <2> QED
      BY <1>1, <2>1, <2>3, <2>4 DEF PhaseInputs
  <1>14. ManifestsNest'
    <2> SUFFICES ASSUME NEW s \in Sortable
                 PROVE  LET new == merge'[SortedFile(s)]
                        IN  /\ manifest[s] # Absent => parsed[s] # {} /\ Within(manifest[s], Span(parsed[s]))
                            /\ new # Absent => parsed[s] # {} /\ Within(new.of, Span(parsed[s]))
                            /\ manifest[s] # Absent /\ new # Absent => Within(manifest[s], new.of)
      BY <1>1 DEF ManifestsNest
    <2>1. CASE s # st
      BY <1>11, <2>1 DEF IInv, ManifestsNest
    <2>2. CASE s = st
      <3>1. Within(Span(parsed[s]), Span(parsed[s]))
        BY <1>4, <2>2, WithinOrder
      <3>2. manifest[s] # Absent => Within(manifest[s], Span(parsed[s]))
        BY DEF IInv, ManifestsNest
      <3> QED
        BY <1>4, <1>6, <1>10, <2>2, <3>1, <3>2
    <2> QED
      BY <2>1, <2>2
  <1>15. QueueDone'
    BY <1>1, <1>12, QueueEmpty, SpareNone DEF IInv
  <1>16. KeysOK'
    BY <1>2, <1>12 DEF KeysOK
  <1>17. \/ st' = "outputs"
         \/ st' = "spends" /\ pc' \in {"concat", "sort", "sorting", "manifest"}
    BY <1>1, <1>2, <1>12 DEF Sortable
  <1> QED
    BY <1>1, <1>2, <1>9, <1>12, <1>13, <1>14, <1>15, <1>16, <1>17, MergeIInv

LEMMA SortEndIInv ==
    ASSUME IInv, SortEnd
    PROVE  IInv'
  <1> DEFINE file == [of |-> Span(parsed[st]), size |-> Size(st, Span(parsed[st]))]
  <1>1. /\ pc = "sorting" /\ pc' = "manifest"
        /\ merge' = [merge EXCEPT ![SortedFile(st)].size = Size(st, merge[AllFile(st)])]
        /\ UNCHANGED <<conf, node, db, seed, dumps, parsed, manifest, run, count>>
    BY DEF SortEnd
  <1>2. /\ st \in Sortable /\ st \in Streams /\ MergeTyped(merge) /\ ManifestTyped(manifest) /\ KeysOK
        /\ DOMAIN stage = {} /\ queue \in Seq(MergeFiles)
    BY <1>1, MergeFacts
  <1>3. \A s \in Streams : Concatenated(s)
    BY <1>1 DEF IInv, PhaseInputs
  <1>4. merge[AllFile(st)] = Span(parsed[st]) /\ parsed[st] # {} /\ Span(parsed[st]) \in Ranges
    BY <1>1, <1>2, <1>3, MergeFacts DEF Concatenated
  <1>5. merge[SortedFile(st)] # Absent /\ merge[SortedFile(st)].of = Span(parsed[st])
    BY <1>1 DEF IInv, PhaseInputs
  <1>6. merge[SortedFile(st)] \in [of : Ranges, size : 0..Cardinality(Outputs)]
    BY <1>2, <1>5 DEF MergeTyped
  <1>7. [merge[SortedFile(st)] EXCEPT !.size = Size(st, Span(parsed[st]))] = file
    BY <1>5, <1>6
  <1>8. merge' = [merge EXCEPT ![SortedFile(st)] = file]
    BY <1>1, <1>4, <1>7
  <1>9. file \in [of : Ranges, size : 0..Cardinality(Outputs)] /\ file.of = Span(parsed[st])
    BY <1>2, <1>4, RecordsFacts
  <1>10. SortedFile(st) \in MergeFiles /\ SortedFile(st) # LiveUtxos /\ \A s \in Streams : SortedFile(st) # AllFile(s)
    BY <1>2, FileNames
  <1>11. st' = st /\ keys' = keys /\ queue' = queue /\ stage' = stage /\ UNCHANGED <<args, end, at>>
    BY <1>1 DEF run
  <1>12. merge'[SortedFile(st)] = file => Sorted(st)' 
    BY <1>1, <1>11 DEF Sorted
  <1> HIDE DEF file
  <1>13. MergeTyped(merge')
    BY <1>2, <1>8, <1>9, <1>10, PutTyped
  <1>14. merge'[SortedFile(st)] = file /\ \A f \in MergeFiles : f # SortedFile(st) => merge'[f] = merge[f]
    BY <1>2, <1>8, <1>10, PutFile DEF MergeTyped
  <1>15. /\ \A s \in Streams : merge'[AllFile(s)] = merge[AllFile(s)]
         /\ \A s \in Sortable : s # st => merge'[SortedFile(s)] = merge[SortedFile(s)]
    BY <1>2, <1>10, <1>14, FileNames DEF Streams, Sortable
  <1>16. PhaseInputs'
    <2>1. \A s \in Streams : Concatenated(s)'
      BY <1>1, <1>3, <1>15 DEF Concatenated
    <2>2. st = "spends" => Sorted("outputs")
      BY <1>1 DEF IInv, PhaseInputs
    <2>3. st' = "spends" => Sorted("outputs")'
      BY <1>1, <1>11, <1>15, <2>2 DEF Sorted, Sortable
    <2> QED
      BY <1>1, <1>12, <1>14, <2>1, <2>3 DEF PhaseInputs
  <1>17. ManifestsNest'
    <2>1. ASSUME NEW s \in Sortable
          PROVE  merge'[SortedFile(s)] # Absent =>
                   /\ merge[SortedFile(s)] # Absent
                   /\ merge'[SortedFile(s)].of = merge[SortedFile(s)].of
      BY <1>5, <1>9, <1>14, <1>15
    <2> QED
      BY <1>1, <2>1, ManifestsKept DEF IInv
  <1>18. QueueDone'
    BY <1>1, <1>11, QueueEmpty, SpareNone DEF IInv
  <1>19. KeysOK'
    BY <1>2, <1>11 DEF KeysOK
  <1>20. \/ st' = "outputs"
         \/ st' = "spends" /\ pc' \in {"concat", "sort", "sorting", "manifest"}
    BY <1>1, <1>2, <1>11 DEF Sortable
  <1> QED
    BY <1>1, <1>2, <1>11, <1>13, <1>16, <1>17, <1>18, <1>19, <1>20, MergeIInv

LEMMA WriteManifestIInv ==
    ASSUME IInv, WriteSortedManifest
    PROVE  IInv'
  <1>1. /\ pc = "manifest" /\ manifest' = [manifest EXCEPT ![st] = merge[AllFile(st)]] /\ AfterSort
        /\ UNCHANGED <<conf, node, db, seed, dumps, parsed, args, end, at, stage, keys, count>>
    BY DEF WriteSortedManifest
  <1>2. st \in Sortable /\ st \in Streams /\ ManifestTyped(manifest)
    BY <1>1, MergeFacts
  <1>3. merge[AllFile(st)] = Span(parsed[st]) /\ Span(parsed[st]) \in Ranges /\ Sorted(st)
    BY <1>1, <1>2, MergeFacts DEF IInv, PhaseInputs, Concatenated
  <1>4. \A s \in Sortable : manifest'[s] = IF s = st THEN Span(parsed[s]) ELSE manifest[s]
    BY <1>1, <1>2, <1>3 DEF ManifestTyped
  <1>5. manifest' = [s \in Sortable |-> manifest'[s]]
    BY <1>1, <1>2 DEF ManifestTyped
  <1>6. ManifestTyped(manifest')
    BY <1>2, <1>3, <1>4, <1>5 DEF ManifestTyped
  <1> QED
    BY <1>1, <1>3, <1>4, <1>6, AfterSortIInv

\* The join: outputs of whole streams that no whole stream spends.
LEMMA AntiJoinIInv ==
    ASSUME IInv, AntiJoin
    PROVE  IInv'
  <1> DEFINE outs == Records("outputs", merge[SortedFile("outputs")].of)
  <1> DEFINE spends == Records("spends", merge[SortedFile("spends")].of)
  <1> DEFINE new == [merge EXCEPT ![LiveUtxos] = Unspent(outs, spends)]
  <1>0. pc = "join" /\ UNCHANGED <<conf, node, db, seed, dumps, parsed, manifest, count>>
    BY DEF AntiJoin
  <1>1. /\ MergeTyped(merge) /\ ManifestTyped(manifest) /\ KeysOK /\ QueueDone
        /\ DOMAIN stage = {} /\ queue \in Seq(MergeFiles) /\ st = "outputs"
    BY <1>0, MergeFacts DEF IInv, Typed, RunOK
  <1>2. /\ Sorted("outputs") /\ Sorted("spends") /\ Concatenated("outputs") /\ Concatenated("meta")
        /\ \A s \in Streams : parsed[s] # {}
    BY <1>0 DEF IInv, PhaseInputs
  <1>3. /\ merge[SortedFile("outputs")].of = Span(parsed["outputs"])
        /\ merge[SortedFile("spends")].of = Span(parsed["spends"])
    BY <1>2 DEF Sorted
  <1>4. Unspent(outs, spends) = LiveOutputs
    BY <1>3 DEF LiveOutputs
  <1>5. LiveOutputs \in SUBSET Outputs
    <2>1. Span(parsed["outputs"]) \in Ranges /\ "outputs" \in Streams
      BY <1>0, <1>2, MergeFacts DEF Streams
    <2> QED
      BY <2>1, RecordsFacts DEF LiveOutputs, Unspent
  <1>6. new = [merge EXCEPT ![LiveUtxos] = LiveOutputs]
    BY <1>4
  <1>7. \/ Fatal /\ merge' = new
        \/ /\ EnqueueAndFree(<<SortedFile("outputs")>>, new) /\ pc' = "meta"
           /\ UNCHANGED <<st, args, end, at, stage, keys>>
    BY DEF AntiJoin
  <1> HIDE DEF new
  <1>8. /\ LiveUtxos \in MergeFiles /\ (\A s \in Streams : AllFile(s) # LiveUtxos)
        /\ \A s \in Sortable : SortedFile(s) # LiveUtxos
    BY FileNames DEF Streams, Sortable
  <1>9. MergeTyped(new)
    BY <1>1, <1>5, <1>6, <1>8, PutTyped
  <1>10. new[LiveUtxos] = LiveOutputs /\ \A f \in MergeFiles : f # LiveUtxos => new[f] = merge[f]
    BY <1>1, <1>6, <1>8, PutFile DEF MergeTyped
  <1>11. \A s \in Sortable : new[SortedFile(s)] = merge[SortedFile(s)]
    BY <1>8, <1>10, FileNames
  <1>12. CASE Fatal /\ merge' = new
    <2>1. FilesKept
      BY <1>0, <1>9, <1>11, <1>12 DEF FilesKept
    <2> QED
      BY <1>0, <1>12, <2>1, FatalIInv DEF Fatal
  <1>13. CASE /\ EnqueueAndFree(<<SortedFile("outputs")>>, new) /\ pc' = "meta"
              /\ UNCHANGED <<st, args, end, at, stage, keys>>
    <2>1. Spare(pc) = {AllFile("spends")} /\ Spare(pc') = {AllFile("spends"), SortedFile("outputs")}
      BY <1>0, <1>13 DEF Spare
    <2>2. /\ <<SortedFile("outputs")>> \in Seq(MergeFiles)
          /\ \A j \in 1..Len(<<SortedFile("outputs")>>) : <<SortedFile("outputs")>>[j] \in Spare(pc')
      BY <2>1, FileNames DEF Sortable
    <2>3. /\ queue' \in Seq(MergeFiles) /\ QueueDone' /\ MergeTyped(merge')
          /\ \A f \in MergeFiles : merge'[f] = Absent \/ merge'[f] = new[f]
          /\ \A f \in MergeFiles : f \notin Spare(pc') => merge'[f] = new[f]
      BY <1>1, <1>9, <1>13, <2>1, <2>2, FreeStep
    <2>4. /\ merge'[LiveUtxos] = LiveOutputs
          /\ merge'[AllFile("outputs")] = merge[AllFile("outputs")]
          /\ merge'[AllFile("meta")] = merge[AllFile("meta")]
      BY <1>8, <1>10, <2>1, <2>3, FileNames DEF Streams, Sortable
    <2>5. LiveOutputs' = LiveOutputs
      BY <1>0 DEF LiveOutputs
    <2>6. PhaseInputs'
      <3>1. Concatenated("outputs")' /\ Concatenated("meta")'
        BY <1>0, <1>2, <2>4 DEF Concatenated
      <3> QED
        BY <1>0, <1>2, <1>13, <2>4, <2>5, <3>1 DEF PhaseInputs
    <2>7. ManifestsNest'
      <3>1. ASSUME NEW s \in Sortable, merge'[SortedFile(s)] # Absent
            PROVE  /\ merge[SortedFile(s)] # Absent
                   /\ merge'[SortedFile(s)].of = merge[SortedFile(s)].of
        BY <1>11, <2>3, <3>1, FileNames
      <3> QED
        BY <1>0, <3>1, ManifestsKept DEF IInv
    <2>8. KeysOK'
      BY <1>1, <1>13 DEF KeysOK
    <2> QED
      BY <1>0, <1>1, <1>13, <2>3, <2>6, <2>7, <2>8, MergeIInv
  <1> QED
    BY <1>7, <1>12, <1>13

(***************************************************************************)
(* A pass of deriveKeys: its inputs are there, and only they are freed.    *)
(***************************************************************************)
LEMMA DeriveIInv ==
    ASSUME IInv, pc \in {"meta", "live", "script"}, pc' \in {"live", "script", "load"},
           NEW fs \in Seq(MergeFiles), EnqueueAndFree(fs, merge),
           Spare(pc) \subseteq Spare(pc'), \A j \in 1..Len(fs) : fs[j] \in Spare(pc'),
           UNCHANGED <<conf, node, db, seed, dumps, parsed, manifest, st, args, end, at, stage, count>>,
           KeysOK',
           (\A f \in MergeFiles : f \notin Spare(pc') => merge'[f] = merge[f]) => PhaseInputs'
    PROVE  IInv'
  <1>1. /\ MergeTyped(merge) /\ ManifestTyped(manifest) /\ QueueDone
        /\ DOMAIN stage = {} /\ queue \in Seq(MergeFiles) /\ st = "outputs"
    BY MergeFacts DEF IInv, Typed, RunOK
  <1>2. /\ queue' \in Seq(MergeFiles) /\ QueueDone' /\ MergeTyped(merge')
        /\ \A f \in MergeFiles : merge'[f] = Absent \/ merge'[f] = merge[f]
        /\ \A f \in MergeFiles : f \notin Spare(pc') => merge'[f] = merge[f]
    BY <1>1, FreeStep
  <1>3. ManifestsNest'
    <2>1. ASSUME NEW s \in Sortable, merge'[SortedFile(s)] # Absent
          PROVE  /\ merge[SortedFile(s)] # Absent
                 /\ merge'[SortedFile(s)].of = merge[SortedFile(s)].of
      BY <1>2, <2>1, FileNames
    <2> QED
      BY <2>1, ManifestsKept DEF IInv
  <1> QED
    BY <1>1, <1>2, <1>3, MergeIInv

LEMMA DeriveBlockKeysIInv ==
    ASSUME IInv, DeriveBlockKeys
    PROVE  IInv'
  <1>1. /\ pc = "meta" /\ pc' = "live" /\ EnqueueAndFree(<<AllFile("meta")>>, merge)
        /\ keys' = [blocks |-> merge[AllFile("meta")], utxos |-> Absent, outs |-> Absent]
        /\ UNCHANGED <<conf, node, db, seed, dumps, parsed, manifest, st, args, end, at, stage, count>>
    BY DEF DeriveBlockKeys, Consumed
  <1>2. /\ Concatenated("outputs") /\ Concatenated("meta") /\ merge[LiveUtxos] = LiveOutputs
        /\ \A s \in Streams : parsed[s] # {}
    BY <1>1 DEF IInv, PhaseInputs
  <1>3. merge[AllFile("meta")] = Span(parsed["meta"]) /\ merge[AllFile("meta")] \in Ranges
    BY <1>1, <1>2, MergeFacts DEF Concatenated, Streams
  <1>4. KeysOK' /\ keys'.blocks = Span(parsed["meta"])
    BY <1>1, <1>3 DEF KeysOK
  <1>5. /\ Spare(pc) = {AllFile("spends"), SortedFile("outputs")}
        /\ Spare(pc') = {AllFile("spends"), SortedFile("outputs"), AllFile("meta")}
    BY <1>1 DEF Spare
  <1>6. /\ <<AllFile("meta")>> \in Seq(MergeFiles)
        /\ \A j \in 1..Len(<<AllFile("meta")>>) : <<AllFile("meta")>>[j] \in Spare(pc')
    BY <1>5, FileNames DEF Streams
  <1>7. ASSUME \A f \in MergeFiles : f \notin Spare(pc') => merge'[f] = merge[f]
        PROVE  PhaseInputs'
    <2>1. merge'[AllFile("outputs")] = merge[AllFile("outputs")] /\ merge'[LiveUtxos] = merge[LiveUtxos]
      BY <1>5, <1>7, FileNames DEF Streams, Sortable
    <2>2. Concatenated("outputs")' /\ LiveOutputs' = LiveOutputs
      BY <1>1, <1>2, <2>1 DEF Concatenated, LiveOutputs
    <2> QED
      BY <1>1, <1>2, <1>4, <2>1, <2>2 DEF PhaseInputs
  <1> QED
    BY <1>1, <1>4, <1>5, <1>6, <1>7, DeriveIInv

LEMMA DeriveOutputKeysIInv ==
    ASSUME IInv, DeriveOutputKeys
    PROVE  IInv'
  <1>1. /\ pc = "live" /\ pc' = "script" /\ EnqueueAndFree(<<LiveUtxos>>, merge)
        /\ keys' = [keys EXCEPT !.utxos = merge[LiveUtxos]]
        /\ UNCHANGED <<conf, node, db, seed, dumps, parsed, manifest, st, args, end, at, stage, count>>
    BY DEF DeriveOutputKeys, Consumed
  <1>2. /\ Concatenated("outputs") /\ merge[LiveUtxos] = LiveOutputs /\ keys.blocks = Span(parsed["meta"])
        /\ \A s \in Streams : parsed[s] # {}
    BY <1>1 DEF IInv, PhaseInputs
  <1>3. KeysOK /\ merge[LiveUtxos] \in (SUBSET Outputs) \cup {Absent}
    BY <1>1, MergeFacts DEF MergeTyped
  <1>4. KeysOK' /\ keys'.blocks = Span(parsed["meta"]) /\ keys'.utxos = LiveOutputs
    BY <1>1, <1>2, <1>3 DEF KeysOK
  <1>5. /\ Spare(pc) = {AllFile("spends"), SortedFile("outputs"), AllFile("meta")}
        /\ Spare(pc') = {AllFile("spends"), SortedFile("outputs"), AllFile("meta"), LiveUtxos}
    BY <1>1 DEF Spare
  <1>6. /\ <<LiveUtxos>> \in Seq(MergeFiles)
        /\ \A j \in 1..Len(<<LiveUtxos>>) : <<LiveUtxos>>[j] \in Spare(pc')
    BY <1>5, FileNames
  <1>7. ASSUME \A f \in MergeFiles : f \notin Spare(pc') => merge'[f] = merge[f]
        PROVE  PhaseInputs'
    <2>1. merge'[AllFile("outputs")] = merge[AllFile("outputs")]
      BY <1>5, <1>7, FileNames DEF Streams, Sortable
    <2>2. Concatenated("outputs")' /\ LiveOutputs' = LiveOutputs
      BY <1>1, <1>2, <2>1 DEF Concatenated, LiveOutputs
    <2> QED
      BY <1>1, <1>2, <1>4, <2>2 DEF PhaseInputs
  <1> QED
    BY <1>1, <1>4, <1>5, <1>6, <1>7, DeriveIInv

LEMMA DeriveScriptKeysIInv ==
    ASSUME IInv, DeriveScriptKeys
    PROVE  IInv'
  <1> DEFINE fs == <<AllFile("outputs"), SortedFile("spends")>>
  <1>1. /\ pc = "script" /\ pc' = "load" /\ EnqueueAndFree(fs, merge)
        /\ keys' = [keys EXCEPT !.outs = merge[AllFile("outputs")]]
        /\ UNCHANGED <<conf, node, db, seed, dumps, parsed, manifest, st, args, end, at, stage, count>>
    BY DEF DeriveScriptKeys, Consumed
  <1>2. /\ Concatenated("outputs") /\ keys.blocks = Span(parsed["meta"]) /\ keys.utxos = LiveOutputs
        /\ \A s \in Streams : parsed[s] # {}
    BY <1>1 DEF IInv, PhaseInputs
  <1>3. KeysOK /\ merge[AllFile("outputs")] = Span(parsed["outputs"]) /\ Span(parsed["outputs"]) \in Ranges
    BY <1>1, <1>2, MergeFacts DEF Concatenated, Streams
  <1>4. /\ KeysOK' /\ keys'.blocks = Span(parsed["meta"]) /\ keys'.utxos = LiveOutputs
        /\ keys'.outs = Span(parsed["outputs"])
    BY <1>1, <1>2, <1>3 DEF KeysOK
  <1>5. /\ Spare(pc) = {AllFile("spends"), SortedFile("outputs"), AllFile("meta"), LiveUtxos}
        /\ Spare(pc') = MergeFiles
    BY <1>1 DEF Spare
  <1>6. fs \in Seq(MergeFiles) /\ \A j \in 1..Len(fs) : fs[j] \in Spare(pc')
    BY <1>5, FileNames DEF Streams, Sortable
  <1>7. Spare(pc) \subseteq Spare(pc')
    BY <1>5, FileNames DEF Streams, Sortable
  <1>8. PhaseInputs'
    <2>1. LiveOutputs' = LiveOutputs
      BY <1>1 DEF LiveOutputs
    <2> QED
      BY <1>1, <1>2, <1>4, <2>1 DEF PhaseInputs
  <1> HIDE DEF fs
  <1> QED
    BY <1>1, <1>4, <1>6, <1>7, <1>8, DeriveIInv

-----------------------------------------------------------------------------
(***************************************************************************)
(* The load.                                                               *)
(***************************************************************************)

\* Derived from streams in step, the keys are the exact ledger of their tip.
LEMMA KeysExact ==
    ASSUME IInv, pc = "load"
    PROVE  /\ keys \in [blocks : Ranges, utxos : SUBSET Outputs, outs : Ranges]
           /\ keys.blocks[2] <= node - UndoBlocks
           /\ ~cut => ExactSeed(keys)
  <1>1. /\ keys.blocks = Span(parsed["meta"]) /\ keys.utxos = LiveOutputs /\ keys.outs = Span(parsed["outputs"])
        /\ \A s \in Streams : parsed[s] # {}
    BY DEF IInv, PhaseInputs
  <1>2. KeysOK /\ \A s \in Streams : parsed[s] \in SUBSET Ranges /\ Span(parsed[s]) \in Ranges
    BY <1>1, MergeFacts
  <1>3. "outputs" \in Streams /\ "spends" \in Streams /\ "meta" \in Streams
    BY DEF Streams
  <1>4. LiveOutputs \in SUBSET Outputs
    BY <1>2, <1>3, RecordsFacts DEF LiveOutputs, Unspent
  <1>5. keys \in [blocks : Ranges, utxos : SUBSET Outputs, outs : Ranges]
    BY <1>1, <1>2, <1>3, <1>4 DEF KeysOK
  <1>6. keys.blocks[2] <= node - UndoBlocks
    <2>1. PICK r \in parsed["meta"] : Span(parsed["meta"])[2] = r[2]
      BY <1>1, <1>2, <1>3, SpanFacts
    <2> QED
      BY <1>1, <1>3, <2>1 DEF IInv, BelowWindow
  <1>7. ASSUME ~cut PROVE ExactSeed(keys)
    <2>1. \A s \in Streams : parsed[s] = Done
      <3>1. \A s \in Streams : parsed[s] \subseteq Done
        BY <1>7 DEF IInv, StreamsInStep
      <3> QED
        BY <3>1 DEF Done
    <2>2. Done # {} /\ Done \in SUBSET Ranges
      BY <1>1, <1>2, <1>3, <2>1
    <2>3. FromGenesis(Done)
      BY <1>7, <2>2 DEF IInv, StreamsInStep
    <2>4. Span(Done) = <<0, Span(Done)[2]>> /\ Span(Done)[1] = 0
      BY <2>2, <2>3, SpanFromGenesis
    <2>5. keys.blocks = Span(Done) /\ keys.outs = Span(Done)
      BY <1>1, <1>3, <2>1
    <2>6. keys.utxos = Records("outputs", Span(Done)) \ Records("spends", Span(Done))
      BY <1>1, <1>3, <2>1 DEF LiveOutputs, Unspent
    <2>7. keys.utxos = LedgerAt(Span(Done)[2])
      BY <2>4, <2>6 DEF LedgerAt
    <2> QED
      BY <2>4, <2>5, <2>7 DEF ExactSeed
  <1> QED
    BY <1>5, <1>6, <1>7

\* Records are put, then the markers: the run and its files stay as they are.
LEMMA LoadStepIInv ==
    ASSUME IInv, pc \in {"load", "loading"}, pc' \in {"loading", "exit"},
           UNCHANGED <<conf, node, files, run, count>>,
           db' \in {"partial", "seeded"}, seed' \in [blocks : Ranges, utxos : SUBSET Outputs, outs : Ranges],
           Target'
    PROVE  IInv'
  <1> USE DEF files, run, count
  <1>1. FlagsOK'
    BY DEF IInv, Typed, FlagsOK
  <1>2. StoreOK'
    BY DEF IInv, Typed, StoreOK
  <1>3. ChunksOK' /\ MergeTyped(merge') /\ ManifestTyped(manifest') /\ KeysOK'
    BY DEF IInv, Typed, ChunksOK, KeysOK
  <1>4. RunOK'
    BY DEF IInv, Typed, RunOK, Phases
  <1>5. BelowWindow'
    BY WindowKept DEF IInv
  <1>6. StreamsInStep'
    BY InStepKept DEF IInv
  <1>7. QueueDone'
    <2>1. Spare(pc') = MergeFiles
      BY DEF Spare
    <2> QED
      BY <1>4, <2>1 DEF QueueDone, RunOK
  <1>8. ManifestsNest'
    BY ManifestsKept DEF IInv
  <1> QED
    BY <1>1, <1>2, <1>3, <1>4, <1>5, <1>6, <1>7, <1>8, NoInputs DEF IInv, Typed

LEMMA LoadBeginIInv ==
    ASSUME IInv, LoadBegin
    PROVE  IInv'
  <1>0. pc = "load" /\ UNCHANGED <<conf, node, files, count>>
    BY DEF LoadBegin
  <1>1. CASE ~TargetEmpty
    BY <1>0, <1>1, SameFilesKept, FatalIInv DEF LoadBegin, Fatal, files
  <1>2. CASE TargetEmpty
    <2>1. db' = "partial" /\ seed' = Overlay /\ pc' = "loading" /\ UNCHANGED run
      BY <1>2 DEF LoadBegin
    <2>2. seed = Absent
      BY <1>2 DEF TargetEmpty, IInv, Target
    <2>3. keys \in [blocks : Ranges, utxos : SUBSET Outputs, outs : Ranges]
      BY <1>0, KeysExact
    <2>4. Overlay = keys
      <3>1. Overlay = [keys EXCEPT !.utxos = keys.utxos]
        BY <2>2 DEF Overlay
      <3> QED
        BY <2>3, <3>1
    <2>5. Target'
      <3>1. node' = node /\ cut' = cut
        BY <1>0 DEF count
      <3> QED
        BY <1>0, <2>1, <2>3, <2>4, <3>1, KeysExact DEF Target
    <2> QED
      BY <1>0, <2>1, <2>3, <2>4, <2>5, LoadStepIInv
  <1> QED
    BY <1>1, <1>2

LEMMA WriteFinalMarkersIInv ==
    ASSUME IInv, WriteFinalMarkers
    PROVE  IInv'
  <1>1. pc = "loading" /\ db' = "seeded" /\ pc' = "exit" /\ UNCHANGED <<conf, node, seed, files, run, count>>
    BY DEF WriteFinalMarkers
  <1>2. cut' = cut /\ node' = node /\ seed' = seed
    BY <1>1 DEF count
  <1>3. Target' /\ seed' \in [blocks : Ranges, utxos : SUBSET Outputs, outs : Ranges]
    BY <1>1, <1>2 DEF IInv, Target
  <1> QED
    BY <1>1, <1>3, LoadStepIInv

-----------------------------------------------------------------------------
\* One step per action.
LEMMA NextIInv == IInv /\ [Next]_vars => IInv'
  <1> SUFFICES ASSUME IInv, [Next]_vars PROVE IInv'
    OBVIOUS
  <1>1. CASE Crash
    BY <1>1, CrashIInv
  <1>2. CASE StopBulkBoot
    BY <1>2, StopIInv
  <1>3. CASE NodeGrows
    BY <1>3, NodeGrowsIInv
  <1>4. CASE Boot \/ OperatorRun
    BY <1>4, BootsIInv
  <1>5. CASE DumpBegin \/ DumpChunk \/ DumpDone \/ VerifyDumpChain
    BY <1>5, DumpBeginIInv, DumpChunkIInv, DumpDoneIInv, VerifyIInv
  <1>6. CASE StartBatch \/ WorkerCloses \/ ParseDone \/ RemoveDumps
    BY <1>6, StartBatchIInv, WorkerClosesIInv, ParseDoneIInv, RemoveDumpsIInv
  <1>7. CASE MergeBegin \/ Concat \/ SortReused \/ SortBegin \/ SortEnd \/ WriteSortedManifest
    BY <1>7, MergeBeginIInv, ConcatIInv, SortReusedIInv, SortBeginIInv, SortEndIInv, WriteManifestIInv
  <1>8. CASE AntiJoin \/ DeriveBlockKeys \/ DeriveOutputKeys \/ DeriveScriptKeys
    BY <1>8, AntiJoinIInv, DeriveBlockKeysIInv, DeriveOutputKeysIInv, DeriveScriptKeysIInv
  <1>9. CASE LoadBegin \/ WriteFinalMarkers \/ RunEnds
    BY <1>9, LoadBeginIInv, WriteFinalMarkersIInv, RunEndsIInv
  <1>10. CASE UNCHANGED vars
    <2> USE <1>10 DEF vars, files, run, count
    <2>1. FlagsOK'
      BY DEF IInv, Typed, FlagsOK
    <2>2. StoreOK' /\ ChunksOK' /\ MergeTyped(merge') /\ ManifestTyped(manifest') /\ KeysOK' /\ RunOK'
      BY DEF IInv, Typed, StoreOK, ChunksOK, KeysOK, RunOK
    <2>3. BelowWindow' /\ PhaseInputs' /\ QueueDone' /\ ManifestsNest'
      BY DEF IInv, BelowWindow, PhaseInputs, QueueDone, ManifestsNest, Concatenated, Sorted, LiveOutputs
    <2>4. StreamsInStep'
      <3>1. Done' = Done
        BY DEF Done
      <3> QED
        BY <3>1 DEF IInv, StreamsInStep
    <2>5. Target'
      BY DEF IInv, Target
    <2> QED
      BY <2>1, <2>2, <2>3, <2>4, <2>5 DEF IInv, Typed
  <1> QED
    BY <1>1, <1>2, <1>3, <1>4, <1>5, <1>6, <1>7, <1>8, <1>9, <1>10 DEF Next, Pipeline

LEMMA SpecIInv == Spec => []IInv
  BY InitIInv, NextIInv, PTL DEF Spec

-----------------------------------------------------------------------------
\* Types of the work files, the run and the target.
THEOREM TypeCorrect == Spec => []TypeOK
  <1>1. Typed => TypeOK
    BY DEF Typed, FlagsOK, StoreOK, ChunksOK, MergeTyped, ManifestTyped, KeysOK, RunOK, TypeOK, Sortable, Streams
  <1> QED
    BY <1>1, SpecIInv, PTL DEF IInv

(***************************************************************************)
(* Unless a run went down in its parse phase, the store a bulk sync        *)
(* publishes holds exactly the unspent outputs of its tip and indexes      *)
(* every block from genesis, whatever was resumed or rerun on the way.     *)
(***************************************************************************)
THEOREM SeedExact == Spec => []SeedIsExactLedger
  <1>1. IInv => SeedIsExactLedger
    BY DEF IInv, Target, SeedIsExactLedger
  <1> QED
    BY <1>1, SpecIInv, PTL

(***************************************************************************)
(* CleanupManager never unlinks a file that a later phase of the run       *)
(* reads.                                                                  *)
(***************************************************************************)
THEOREM InputsKept == Spec => []InputsNotFreedEarly
  <1>1. ASSUME IInv, NEW f \in Reads(pc) PROVE merge[f] # Absent
    <2>1. CASE pc \in {"sort", "sorting"}
      <3>1. f = AllFile(st)
        BY <1>1, <2>1 DEF Reads
      <3>2. Concatenated(st) /\ st \in Streams
        BY <1>1, <2>1, MergeFacts DEF IInv, PhaseInputs
      <3>3. merge[AllFile(st)] \in Ranges
        BY <1>1, <2>1, <3>2, MergeFacts DEF Concatenated
      <3> QED
        BY <1>1, <3>1, <3>3, BulkAssumption
    <2>2. CASE pc = "join"
      <3>1. PICK s \in Sortable : f = SortedFile(s)
        BY <1>1, <2>2 DEF Reads, Sortable
      <3>2. Sorted(s) /\ s \in Streams /\ Span(parsed[s]) \in Ranges
        BY <1>1, <2>2, MergeFacts DEF IInv, PhaseInputs, Sortable, Streams
      <3>3. Size(s, Span(parsed[s])) \in Nat
        BY <1>1, <3>2, RecordsFacts
      <3>4. merge[SortedFile(s)] \in [of : Ranges, size : Nat]
        BY <1>1, <3>2, <3>3 DEF Sorted
      <3> QED
        BY <1>1, <3>1, <3>4, BulkAssumption
    <2>3. CASE pc = "meta" \/ pc = "script"
      <3>1. PICK s \in Streams : f = AllFile(s) /\ Concatenated(s)
        BY <1>1, <2>3 DEF Reads, Streams, IInv, PhaseInputs
      <3>2. merge[AllFile(s)] \in Ranges
        BY <1>1, <2>3, <3>1, MergeFacts DEF Concatenated
      <3> QED
        BY <1>1, <3>1, <3>2, BulkAssumption
    <2>4. CASE pc = "live"
      <3>1. f = LiveUtxos /\ merge[LiveUtxos] = LiveOutputs
        BY <1>1, <2>4 DEF Reads, IInv, PhaseInputs
      <3>2. "outputs" \in Streams /\ Span(parsed["outputs"]) \in Ranges
        BY <1>1, <2>4, MergeFacts DEF IInv, PhaseInputs, Streams
      <3>3. LiveOutputs \in SUBSET Outputs
        BY <1>1, <3>2, RecordsFacts DEF LiveOutputs, Unspent
      <3> QED
        BY <1>1, <3>1, <3>3, BulkAssumption
    <2> QED
      BY <1>1, <2>1, <2>2, <2>3, <2>4 DEF Reads
  <1>2. IInv => InputsNotFreedEarly
    BY <1>1 DEF InputsNotFreedEarly
  <1> QED
    BY <1>2, SpecIInv, PTL

(***************************************************************************)
(* sortedReusable and its manifest never let the join read a sorted file   *)
(* that is half written or of another range.                               *)
(***************************************************************************)
THEOREM JoinReadsWhole == Spec => []JoinReadsWholeStreams
  <1>1. IInv => JoinReadsWholeStreams
    BY DEF IInv, PhaseInputs, Sorted, JoinReadsWholeStreams
  <1> QED
    BY <1>1, SpecIInv, PTL

(***************************************************************************)
(* A seed ends below the blocks the node can still reorganise: it carries  *)
(* no undo records (effectiveTipSafety, resolveDumpEnd).                   *)
(***************************************************************************)
THEOREM SeedBelowWindow == Spec => []SeedEndsBelowUndoWindow
  <1>1. IInv => SeedEndsBelowUndoWindow
    BY DEF IInv, Target, SeedEndsBelowUndoWindow
  <1> QED
    BY <1>1, SpecIInv, PTL
=============================================================================
