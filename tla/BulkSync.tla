------------------------------ MODULE BulkSync ------------------------------
(* The bulk synchronisation of an empty store: the API's boot spawns an       *)
(* orchestrator that dumps the node's blocks into chunk files, parses each    *)
(* into three streams (outputs, spends, meta), concatenates and sorts them,   *)
(* joins outputs with spends, derives the LevelDB keys and loads them.  Files *)
(* survive a crash; everything else is lost with the process.  A file's       *)
(* content is the range of heights it covers, since the blocks below the tip  *)
(* safety are taken as settled; a sorted file also has a size, because it is  *)
(* written in place.                                                          *)
EXTENDS Integers, Sequences, FiniteSets, FiniteSetsExt

CONSTANTS MaxHeight,    \* the highest tip of the node (bound)
          ChunkSize,    \* blocks of one dump file
          Workers,      \* parse workers that run at a time
          TipSafety,    \* BULK_SYNC_TIP_SAFETY
          UndoBlocks,   \* resolveUndoBlocks(network)
          Created,      \* outputs created by the block of each height
          Spent,        \* outputs spent by the block of each height
          Absent,       \* no file, no value
          MaxEvents,    \* crashes, stops and runs started by an operator (bound)
          MaxReruns     \* of these, runs started by an operator (bound)

Heights == 0..MaxHeight
Ranges == {r \in Heights \X Heights : r[1] <= r[2]}
Streams == {"outputs", "spends", "meta"}
Outputs == UNION {Created[h] : h \in Heights}

ASSUME BulkAssumption ==
    /\ MaxHeight \in Nat /\ TipSafety \in Nat /\ UndoBlocks \in Nat \ {0}
    /\ ChunkSize \in Nat \ {0} /\ Workers \in Nat \ {0}
    /\ MaxEvents \in Nat /\ MaxReruns \in Nat
    /\ \A h \in Heights : IsFiniteSet(Created[h])
    /\ \A h \in Heights : Created[h] \cap UNION {Created[g] : g \in 0..(h - 1)} = {}
    /\ \A h \in Heights : Spent[h] \subseteq UNION {Created[g] : g \in 0..h}
    /\ Absent \notin Ranges /\ Absent \notin [of : Ranges, size : Nat]
    /\ \A S \in SUBSET Outputs : S # Absent

VARIABLES
    conf,       \* the deployment: mainnet, work directory inside the database directory
    node,       \* the node's tip
    db,         \* the target: "empty", "partial" (no tip marker yet) or "seeded"
    seed,       \* what the target holds: blocks, unspent outputs, outputs' history
    dumps,      \* dumps/: ranges of the .xdmp files
    parsed,     \* parsed/: per stream, the ranges of its .dat files
    merge,      \* merge/: file name to content
    manifest,   \* merge/: the manifest beside each sorted file
    pc, st,     \* where the run is, and the stream it handles there
    args,       \* the orchestrator's arguments
    end, at,    \* the dump's last height and next height
    stage,      \* parse workers started: streams each has closed
    queue,      \* CleanupManager.queue
    keys,       \* keys/: what was derived
    downs, reruns,
    cut         \* a run went down in its parse phase (history)

files == <<dumps, parsed, merge, manifest>>
run == <<st, args, end, at, stage, queue, keys>>
count == <<downs, reruns, cut>>
vars == <<conf, node, db, seed, files, pc, run, count>>

-----------------------------------------------------------------------------
(* What files hold.                                                          *)

Records(s, r) == UNION {(IF s = "spends" THEN Spent ELSE Created)[h] : h \in r[1]..r[2]}

Size(s, r) == Cardinality(Records(s, r))

(* The ledger at a height, what a seed of that tip should hold.              *)
LedgerAt(h) == Records("outputs", <<0, h>>) \ Records("spends", <<0, h>>)

(* findFiles sorts by name, so by first and then by last height; each file   *)
(* must start right after the one before it.                                 *)
Contiguous(R) ==
    LET firsts == {r[1] : r \in R}
    IN  /\ Cardinality(firsts) = Cardinality(R)
        /\ \A r \in R : r[1] = Min(firsts) \/ \E p \in R : p[1] < r[1] /\ p[2] + 1 = r[1]

Span(R) == <<Min({r[1] : r \in R}), Max({r[2] : r \in R})>>

\* Mutant: the tip safety is taken as configured.
UnclampedTipSafety == TipSafety

EffectiveTipSafety == Max({TipSafety, UndoBlocks})

DumpEnd(to) == IF to = Absent THEN node - EffectiveTipSafety ELSE to

(* The files of merge/, each named by its kind and its stream.               *)
AllFile(s) == <<"all", s>>
SortedFile(s) == <<"sorted", s>>
LiveUtxos == <<"live", "utxos">>
MergeFiles == {AllFile(s) : s \in Streams} \cup {SortedFile("outputs"), SortedFile("spends"), LiveUtxos}
NoFiles == [f \in MergeFiles |-> Absent]
NoManifests == [s \in {"outputs", "spends"} |-> Absent]
NoParsed == [s \in Streams |-> {}]
NoArgs == [auto |-> FALSE, to |-> Absent, skipDump |-> FALSE, skipParse |-> FALSE]

Idle == {"down", "tracker", "refused"}
Phases == {"start", "dump", "verify", "parse", "rmdumps", "merge", "concat", "sort", "sorting",
           "manifest", "join", "meta", "live", "script", "load", "loading", "exit"}

TypeOK ==
    /\ conf \in [mainnet : BOOLEAN, inside : BOOLEAN] /\ node \in Heights
    /\ db \in {"empty", "partial", "seeded"}
    /\ seed \in [blocks : Ranges, utxos : SUBSET Outputs, outs : Ranges] \cup {Absent}
    /\ dumps \subseteq Ranges
    /\ parsed \in [Streams -> SUBSET Ranges]
    /\ \A s \in Streams : merge[AllFile(s)] \in Ranges \cup {Absent}
    /\ \A s \in {"outputs", "spends"} :
          /\ merge[SortedFile(s)] \in [of : Ranges, size : 0..Cardinality(Outputs)] \cup {Absent}
          /\ manifest[s] \in Ranges \cup {Absent}
    /\ merge[LiveUtxos] \in (SUBSET Outputs) \cup {Absent}
    /\ pc \in Idle \cup Phases /\ st \in Streams
    /\ args \in [auto : BOOLEAN, to : Heights \cup {Absent}, skipDump : BOOLEAN, skipParse : BOOLEAN]
    /\ end \in Heights /\ at \in 0..(MaxHeight + 1)
    /\ DOMAIN stage \subseteq dumps /\ \A r \in DOMAIN stage : stage[r] \in 0..3
    /\ queue \in Seq(MergeFiles)
    /\ keys \in [blocks : Ranges \cup {Absent}, utxos : (SUBSET Outputs) \cup {Absent},
                 outs : Ranges \cup {Absent}]
    /\ downs \in 0..MaxEvents /\ reruns \in 0..MaxReruns /\ cut \in BOOLEAN

Init ==
    /\ conf \in [mainnet : BOOLEAN, inside : BOOLEAN]
    /\ node \in Heights
    /\ db = "empty" /\ seed = Absent
    /\ dumps = {} /\ parsed = NoParsed /\ merge = NoFiles /\ manifest = NoManifests
    /\ pc = "down" /\ st = "outputs" /\ args = NoArgs /\ end = 0 /\ at = 0
    /\ stage = <<>> /\ queue = <<>>
    /\ keys = [blocks |-> Absent, utxos |-> Absent, outs |-> Absent]
    /\ downs = 0 /\ reruns = 0 /\ cut = FALSE

-----------------------------------------------------------------------------
(* The process goes down: its memory is lost.                                *)

ForgetRun ==
    /\ st' = "outputs" /\ args' = NoArgs /\ end' = 0 /\ at' = 0
    /\ stage' = <<>> /\ queue' = <<>>
    /\ keys' = [blocks |-> Absent, utxos |-> Absent, outs |-> Absent]

(* A FATAL of the orchestrator: it exits, and the API with it.               *)
Fatal == pc' = "down" /\ ForgetRun

(* The work files as a kill leaves them: a recursive removal or a sort that  *)
(* writes in place may have got anywhere.                                    *)
KilledFiles ==
    \/ pc = "rmdumps" /\ dumps' \in SUBSET dumps /\ UNCHANGED <<parsed, merge, manifest>>
    \/ /\ pc = "sorting"
       /\ \E n \in 0..Size(st, merge[AllFile(st)]) :
             merge' = [merge EXCEPT ![SortedFile(st)].size = n]
       /\ UNCHANGED <<dumps, parsed, manifest>>
    \/ pc \notin {"rmdumps", "sorting"} /\ UNCHANGED files

Crash ==
    /\ pc \in Phases /\ downs + reruns < MaxEvents
    /\ downs' = downs + 1 /\ cut' = (cut \/ pc = "parse")
    /\ KilledFiles /\ Fatal
    /\ UNCHANGED <<conf, node, db, seed, reruns>>

(* A SIGTERM while the orchestrator runs: stopBulkBoot kills its process     *)
(* group and removes the database directory, with the work directory when it *)
(* lies inside.  Once the child has exited only the boot is abandoned.       *)
StopBulkBoot ==
    /\ pc \in Phases /\ args.auto /\ downs + reruns < MaxEvents
    /\ downs' = downs + 1 /\ cut' = (cut \/ pc = "parse")
    /\ IF pc = "exit" THEN UNCHANGED <<db, seed, files>>
       ELSE /\ db' = "empty" /\ seed' = Absent
            /\ IF conf.inside
                 THEN dumps' = {} /\ parsed' = NoParsed /\ merge' = NoFiles /\ manifest' = NoManifests
                 ELSE KilledFiles
    /\ Fatal
    /\ UNCHANGED <<conf, node, reruns>>

NodeGrows ==
    /\ node < MaxHeight
    /\ node' = node + 1
    /\ UNCHANGED <<conf, db, seed, files, pc, run, count>>

-----------------------------------------------------------------------------
(* Starting a run.                                                           *)

Launch(a) ==
    /\ args' = a
    /\ pc' = IF a.skipParse \/ a.skipDump THEN "verify" ELSE "start"
    /\ UNCHANGED <<conf, node, db, seed, files, st, end, at, stage, queue, keys, downs, cut>>

(* isDbEmpty refuses a target that has records but neither stamp nor tip.    *)
BootRefused ==
    /\ pc = "down" /\ db = "partial"
    /\ pc' = "refused"
    /\ UNCHANGED <<conf, node, db, seed, files, run, count>>

(* The tracker starts on an indexed store, or indexes from genesis a chain   *)
(* too short for a bulk sync.                                                *)
BootTracker ==
    /\ pc = "down"
    /\ db = "seeded" \/ (db = "empty" /\ node < EffectiveTipSafety + 1)
    /\ pc' = "tracker"
    /\ UNCHANGED <<conf, node, db, seed, files, run, count>>

\* Mutant: every boot dumps and parses again.
NeverSkipsParse == FALSE

(* resumeArgsForWorkDir: any .dat file in parsed/.                           *)
ResumeSkipsParse == \E s \in Streams : parsed[s] # {}

BootBulkSync ==
    /\ pc = "down" /\ db = "empty" /\ node >= EffectiveTipSafety + 1
    /\ Launch([NoArgs EXCEPT !.auto = TRUE, !.skipParse = ResumeSkipsParse])
    /\ UNCHANGED reruns

(* An operator runs the orchestrator by hand in the same work directory.     *)
OperatorRun ==
    /\ pc = "down" /\ reruns < MaxReruns /\ downs + reruns < MaxEvents
    /\ reruns' = reruns + 1
    /\ \E to \in Heights \cup {Absent}, sd, sp \in BOOLEAN :
          Launch([auto |-> FALSE, to |-> to, skipDump |-> sd, skipParse |-> sp])

-----------------------------------------------------------------------------
(* Dump, verify, parse.                                                      *)

(* resolveDumpEnd: an explicit --to must lie below the undo window.          *)
DumpBegin ==
    /\ pc = "start"
    /\ LET e == DumpEnd(args.to)
       IN  IF e < 0 \/ (args.to # Absent /\ e > node - UndoBlocks) THEN Fatal
           ELSE pc' = "dump" /\ end' = e /\ at' = 0 /\ UNCHANGED <<st, args, stage, queue, keys>>
    /\ UNCHANGED <<conf, node, db, seed, files, count>>

(* One chunk: an existing file of the same range is kept, a new one is       *)
(* written aside and renamed.                                                *)
DumpChunk ==
    /\ pc = "dump" /\ at <= end
    /\ LET chunk == <<at, Min({at + ChunkSize - 1, end})>>
       IN  dumps' = dumps \cup {chunk} /\ at' = chunk[2] + 1
    /\ UNCHANGED <<conf, node, db, seed, parsed, merge, manifest, pc, st, args, end, stage, queue, keys, count>>

DumpDone ==
    /\ pc = "dump" /\ at > end
    /\ pc' = "verify"
    /\ UNCHANGED <<conf, node, db, seed, files, run, count>>

(* validateChainFiles: there are dump files, and they link up.               *)
DumpsLinkUp == dumps # {} /\ Contiguous(dumps)

(* Only mainnet verifies by default.                                         *)
VerifyDumpChain ==
    /\ pc = "verify"
    /\ IF conf.mainnet /\ ~DumpsLinkUp THEN Fatal
       ELSE pc' = (IF args.skipParse THEN "merge" ELSE "parse") /\ UNCHANGED run
    /\ UNCHANGED <<conf, node, db, seed, files, count>>

Before(p, r) == p[1] < r[1] \/ (p[1] = r[1] /\ p[2] < r[2])

(* A worker that finds its three files complete ends at once.                *)
AlreadyParsed(r) == \A s \in Streams : r \in parsed[s]

(* The next batch of workers, once the one before has ended.                 *)
StartBatch ==
    /\ pc = "parse" /\ \A r \in DOMAIN stage : stage[r] = 3
    /\ LET todo == dumps \ DOMAIN stage
           batch == {r \in todo : Cardinality({p \in todo : Before(p, r)}) < Workers}
       IN  /\ todo # {}
           /\ stage' = [r \in DOMAIN stage \cup batch |->
                          IF r \in DOMAIN stage \/ AlreadyParsed(r) THEN 3 ELSE 0]
    /\ UNCHANGED <<conf, node, db, seed, files, pc, st, args, end, at, queue, keys, count>>

(* finishOutputs: one stream after the other is renamed into place.          *)
WorkerCloses ==
    /\ pc = "parse"
    /\ \E r \in DOMAIN stage :
          /\ stage[r] < 3
          /\ stage' = [stage EXCEPT ![r] = @ + 1]
          /\ parsed' = [parsed EXCEPT ![<<"outputs", "spends", "meta">>[stage[r] + 1]] = @ \cup {r}]
    /\ UNCHANGED <<conf, node, db, seed, dumps, merge, manifest, pc, st, args, end, at, queue, keys, count>>

ParseDone ==
    /\ pc = "parse" /\ DOMAIN stage = dumps /\ \A r \in dumps : stage[r] = 3
    /\ pc' = "rmdumps"
    /\ UNCHANGED <<conf, node, db, seed, files, run, count>>

RemoveDumps ==
    /\ pc = "rmdumps"
    /\ dumps' = {} /\ stage' = <<>> /\ pc' = "merge"
    /\ UNCHANGED <<conf, node, db, seed, parsed, merge, manifest, st, args, end, at, queue, keys, count>>

-----------------------------------------------------------------------------
(* Merge.                                                                    *)

(* The meta stream's records have no fixed size, its header says 0.          *)
RecordSize(s) == IF s = "meta" THEN 0 ELSE 1

(* validateConcatArtifact: --from is 0, a body agrees with its header.       *)
ConcatArtifactValid(s) ==
    LET r == merge[AllFile(s)]
    IN  r # Absent /\ r[1] = 0 /\ (args.to = Absent \/ r[2] = args.to) /\ RecordSize(s) # 0

\* Mutant: concatenated files are reused because they exist.
ConcatExists == \A s \in Streams : merge[AllFile(s)] # Absent

ConcatReusable ==
    /\ \A s \in Streams : ConcatArtifactValid(s)
    /\ \A s \in Streams : merge[AllFile(s)] = merge[AllFile("outputs")]

MergeBegin ==
    /\ pc = "merge"
    /\ pc' = (IF ConcatReusable THEN "sort" ELSE "concat")
    /\ UNCHANGED <<conf, node, db, seed, files, run, count>>

(* concatFilesWithHeader: outputs, then spends, then meta.                   *)
Concat ==
    /\ pc = "concat"
    /\ IF parsed[st] = {} \/ ~Contiguous(parsed[st]) THEN Fatal /\ UNCHANGED merge
       ELSE /\ merge' = [merge EXCEPT ![AllFile(st)] = Span(parsed[st])]
            /\ IF st = "meta" THEN pc' = "sort" /\ st' = "outputs"
               ELSE pc' = "concat" /\ st' = (IF st = "outputs" THEN "spends" ELSE "meta")
            /\ UNCHANGED <<args, end, at, stage, queue, keys>>
    /\ UNCHANGED <<conf, node, db, seed, dumps, parsed, manifest, count>>

(* checkSortedManifest: the manifest repeats the header of the source.       *)
CheckSortedManifest(s) == manifest[s] = merge[AllFile(s)]

(* sortedReusable: the size the source asks for and a manifest of its header. *)
SortedReusable(s) ==
    LET file == merge[SortedFile(s)]
        source == merge[AllFile(s)]
    IN  /\ file # Absent /\ file.size = Size(s, source)
        /\ CheckSortedManifest(s)

(* CleanupManager: files are queued once their last reader is done, and the  *)
(* oldest are unlinked while the disk is low.                                *)
Freed(enq, m) ==
    {[queue |-> SubSeq(enq, k + 1, Len(enq)),
      merge |-> [f \in MergeFiles |-> IF \E i \in 1..k : enq[i] = f THEN Absent ELSE m[f]]]
     : k \in 0..Len(enq)}

EnqueueAndFree(fs, m) ==
    \E c \in Freed(queue \o fs, m) : queue' = c.queue /\ merge' = c.merge

(* After a sort: the next stream, or the join once all-spends is done with.  *)
AfterSort ==
    IF st = "outputs" THEN pc' = "sort" /\ st' = "spends" /\ UNCHANGED <<queue, merge>>
    ELSE pc' = "join" /\ st' = "outputs" /\ EnqueueAndFree(<<AllFile("spends")>>, merge)

SortReused ==
    /\ pc = "sort" /\ SortedReusable(st)
    /\ AfterSort
    /\ UNCHANGED <<conf, node, db, seed, dumps, parsed, manifest, args, end, at, stage, keys, count>>

(* The output is truncated and written in place.                             *)
SortBegin ==
    /\ pc = "sort" /\ ~SortedReusable(st)
    /\ merge' = [merge EXCEPT ![SortedFile(st)] = [of |-> merge[AllFile(st)], size |-> 0]]
    /\ pc' = "sorting"
    /\ UNCHANGED <<conf, node, db, seed, dumps, parsed, manifest, run, count>>

SortEnd ==
    /\ pc = "sorting"
    /\ merge' = [merge EXCEPT ![SortedFile(st)].size = Size(st, merge[AllFile(st)])]
    /\ pc' = "manifest"
    /\ UNCHANGED <<conf, node, db, seed, dumps, parsed, manifest, run, count>>

WriteSortedManifest ==
    /\ pc = "manifest"
    /\ manifest' = [manifest EXCEPT ![st] = merge[AllFile(st)]]
    /\ AfterSort
    /\ UNCHANGED <<conf, node, db, seed, dumps, parsed, args, end, at, stage, keys, count>>

(* leftAntiJoin on whole streams without duplicate keys.                     *)
Unspent(outs, spends) == outs \ spends

(* A spend of no output is fatal from genesis.                               *)
AntiJoin ==
    /\ pc = "join"
    /\ LET outs == Records("outputs", merge[SortedFile("outputs")].of)
           spends == Records("spends", merge[SortedFile("spends")].of)
       IN  IF ~(spends \subseteq outs)
             THEN Fatal /\ merge' = [merge EXCEPT ![LiveUtxos] = Unspent(outs, spends)]
             ELSE /\ EnqueueAndFree(<<SortedFile("outputs")>>,
                                    [merge EXCEPT ![LiveUtxos] = Unspent(outs, spends)])
                  /\ pc' = "meta"
                  /\ UNCHANGED <<st, args, end, at, stage, keys>>
    /\ UNCHANGED <<conf, node, db, seed, dumps, parsed, manifest, count>>

(* Mutant: all outputs are freed before the script pass.                     *)
ConsumedByLive(pass) ==
    CASE pass = "meta" -> <<AllFile("meta")>>
      [] pass = "live" -> <<LiveUtxos, AllFile("outputs")>>
      [] OTHER         -> <<SortedFile("spends")>>

(* deriveLevelDbKeys: what is dead weight once a pass of deriveKeys is done. *)
Consumed(pass) ==
    CASE pass = "meta" -> <<AllFile("meta")>>
      [] pass = "live" -> <<LiveUtxos>>
      [] OTHER         -> <<AllFile("outputs"), SortedFile("spends")>>

(* deriveKeys: earlier keys are cleared, then block keys from the meta       *)
(* stream, output keys from the live outputs, and script, creation-block and *)
(* transaction keys from all outputs.                                        *)
DeriveBlockKeys ==
    /\ pc = "meta"
    /\ keys' = [blocks |-> merge[AllFile("meta")], utxos |-> Absent, outs |-> Absent]
    /\ EnqueueAndFree(Consumed("meta"), merge) /\ pc' = "live"
    /\ UNCHANGED <<conf, node, db, seed, dumps, parsed, manifest, st, args, end, at, stage, count>>

DeriveOutputKeys ==
    /\ pc = "live"
    /\ keys' = [keys EXCEPT !.utxos = merge[LiveUtxos]]
    /\ EnqueueAndFree(Consumed("live"), merge) /\ pc' = "script"
    /\ UNCHANGED <<conf, node, db, seed, dumps, parsed, manifest, st, args, end, at, stage, count>>

DeriveScriptKeys ==
    /\ pc = "script"
    /\ keys' = [keys EXCEPT !.outs = merge[AllFile("outputs")]]
    /\ EnqueueAndFree(Consumed("script"), merge) /\ pc' = "load"
    /\ UNCHANGED <<conf, node, db, seed, dumps, parsed, manifest, st, args, end, at, stage, count>>

-----------------------------------------------------------------------------
(* Load: the target must be empty, because a load only puts records; the tip *)
(* markers and the layout stamp go in last.                                  *)

Overlay ==
    [keys EXCEPT !.utxos = @ \cup (IF seed = Absent THEN {} ELSE seed.utxos)]

(* holdsNothingButCurrentStamp                                               *)
TargetEmpty == db = "empty"

\* Mutant: the target need not be empty.
LoadOverlays ==
    /\ pc = "load"
    /\ db' = "partial" /\ seed' = Overlay /\ pc' = "loading"
    /\ UNCHANGED <<conf, node, files, run, count>>

LoadBegin ==
    /\ pc = "load"
    /\ IF ~TargetEmpty THEN Fatal /\ UNCHANGED <<db, seed>>
       ELSE db' = "partial" /\ seed' = Overlay /\ pc' = "loading" /\ UNCHANGED run
    /\ UNCHANGED <<conf, node, files, count>>

WriteFinalMarkers ==
    /\ pc = "loading"
    /\ db' = "seeded" /\ pc' = "exit"
    /\ UNCHANGED <<conf, node, seed, files, run, count>>

(* The API removes the work directory and starts; by hand the run just ends. *)
RunEnds ==
    /\ pc = "exit"
    /\ IF args.auto
         THEN /\ dumps' = {} /\ parsed' = NoParsed /\ merge' = NoFiles /\ manifest' = NoManifests
              /\ pc' = "tracker"
         ELSE pc' = "down" /\ UNCHANGED files
    /\ ForgetRun
    /\ UNCHANGED <<conf, node, db, seed, count>>

Pipeline ==
    \/ DumpBegin \/ DumpChunk \/ DumpDone \/ VerifyDumpChain
    \/ StartBatch \/ WorkerCloses \/ ParseDone \/ RemoveDumps
    \/ MergeBegin \/ Concat \/ SortReused \/ SortBegin \/ SortEnd \/ WriteSortedManifest
    \/ AntiJoin \/ DeriveBlockKeys \/ DeriveOutputKeys \/ DeriveScriptKeys
    \/ LoadBegin \/ WriteFinalMarkers \/ RunEnds

Boot == BootRefused \/ BootTracker \/ BootBulkSync

Next == Crash \/ StopBulkBoot \/ NodeGrows \/ Boot \/ OperatorRun \/ Pipeline

(* A phase that was started goes on by itself, and the supervisor boots the  *)
(* process again whenever it is down.                                        *)
Spec == Init /\ [][Next]_vars /\ WF_vars(Pipeline) /\ WF_vars(Boot)

-----------------------------------------------------------------------------
(* Properties.                                                               *)

ExactSeed(s) ==
    s.blocks[1] = 0 /\ s.outs = s.blocks /\ s.utxos = LedgerAt(s.blocks[2])

(* Unless a run went down in the middle of its parse phase, a seed is the    *)
(* exact ledger of the tip it publishes and indexes every block below it,    *)
(* however often the pipeline was interrupted elsewhere, resumed from its    *)
(* files or rerun by hand over another range.                                *)
SeedIsExactLedger == db = "seeded" /\ ~cut => ExactSeed(seed)

(* The files a phase is about to read.                                       *)
Reads(p) ==
    CASE p = "sort"   -> {AllFile(st)}
      [] p = "sorting" -> {AllFile(st)}
      [] p = "join"   -> {SortedFile("outputs"), SortedFile("spends")}
      [] p = "meta"   -> {AllFile("meta")}
      [] p = "live"   -> {LiveUtxos}
      [] p = "script" -> {AllFile("outputs")}
      [] OTHER        -> {}

(* CleanupManager frees a file only after its last reader of the run: no     *)
(* phase finds its input unlinked, whenever the disk runs low.               *)
InputsNotFreedEarly == \A f \in Reads(pc) : merge[f] # Absent

(* What the join reads is the whole of what was parsed: a sorted file left   *)
(* half written by a crash, or sorted from another range, is sorted again.   *)
JoinReadsWholeStreams ==
    pc = "join" => \A s \in {"outputs", "spends"} :
        merge[SortedFile(s)] = [of |-> Span(parsed[s]), size |-> Size(s, Span(parsed[s]))]

(* A seed carries no undo records, so it must end below the window the node  *)
(* can still reorganise (effectiveTipSafety, resolveDumpEnd).                *)
SeedEndsBelowUndoWindow == db = "seeded" => seed.blocks[2] <= node - UndoBlocks

ParseWhole ==
    /\ pc = "merge" /\ parsed["outputs"] = parsed["spends"] /\ parsed["spends"] = parsed["meta"]
    /\ parsed["meta"] # {} /\ Contiguous(parsed["meta"]) /\ Span(parsed["meta"])[1] = 0

Ended == pc \in {"tracker", "refused"}

(* Once a parse is whole, every interruption is resumed until the tracker    *)
(* starts, or refuses the load a crash cut short; off mainnet, with the work *)
(* directory outside the database directory, and unless an operator adds     *)
(* another range to it.                                                      *)
WholeParseIsResumed ==
    ParseWhole /\ reruns = 0 /\ ~conf.mainnet /\ ~conf.inside ~> Ended \/ reruns > 0

(* What comments say and the code does not do; TLC refutes both.             *)

(* The streams of one merge agree with each other on the range               *)
(* (concatReusableForRun checks it, for files it would reuse).               *)
StreamsAgreeOnRange ==
    pc = "join" => /\ merge[SortedFile("outputs")].of = merge[SortedFile("spends")].of
                   /\ merge[SortedFile("outputs")].of = merge[AllFile("meta")]

(* Parse output is a resume point on every network (resumeArgsForWorkDir).   *)
ParseIsAResumePoint == ParseWhole /\ reruns = 0 /\ ~conf.inside ~> Ended \/ reruns > 0
=============================================================================
