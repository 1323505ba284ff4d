--------------------------- MODULE LifecycleProofs ---------------------------
(***************************************************************************)
(* Proofs about Lifecycle, for any number of launches and any archives on  *)
(* the volume.  Three inductive invariants: ArchiveIInv follows an archive *)
(* from the snapshot that writes it to the restore that wipes the store    *)
(* for it; IInv follows the launches, the store handle and the flags of    *)
(* the tracker object; TypeInv bounds the launches without any condition   *)
(* on the operators.                                                       *)
(***************************************************************************)
EXTENDS Lifecycle, TLAPS

-----------------------------------------------------------------------------
(***************************************************************************)
(* The archives.                                                           *)
(***************************************************************************)
Phases == Owning \cup {"none", "waiting", "aborting"}
DiskType == [marker : BOOLEAN, wiped : BOOLEAN]
AdminType == [phase : Phases, restore : BOOLEAN, source : Archives \cup {None}]

\* A sidecar that holds a digest was made from an archive that was complete.
SealedWhole(a) == a.sidecar \in Bytes => a.sidecar.whole

\* An archive restorebootstrap can be asked for: a file with such a sidecar.
Restorable(a) == a \in Archives /\ a.bytes \in Bytes /\ SealedWhole(a)

(***************************************************************************)
(* What the tracker itself writes is sealed only when it is whole, and     *)
(* what a restore works on stays what it was when it was asked for.        *)
(***************************************************************************)
ArchiveIInv ==
    /\ disk \in DiskType /\ admin \in AdminType
    /\ snapshot \in Archives /\ SealedWhole(snapshot)
    /\ admin.phase \in {"packing", "sealing"} => snapshot.bytes \in Bytes
    /\ admin.phase = "sealing" => snapshot.bytes.whole
    /\ admin.phase # "none" /\ admin.restore => Restorable(admin.source)
    /\ admin.phase \in {"validating", "extracting"} => admin.restore
    /\ WipedOnlyForAStore

\* A digest is neither an absent nor a malformed one.
LEMMA DigestsAreBytes == None \notin Bytes /\ Malformed \notin Bytes
<1>1. \A b \in Bytes : DOMAIN b = {"layout", "root", "whole", "meta", "marker"}
  BY DEF Bytes
<1>2. DOMAIN None = {"none"} /\ DOMAIN Malformed = {"none"}
  BY DEF None, Malformed
<1>3. "layout" # "none"
  OBVIOUS
<1> QED
  BY <1>1, <1>2, <1>3

\* The gates let only a store through that can be extracted, when an archive
\* without a sidecar is refused.
LEMMA AcceptedIsExtractable ==
    ASSUME ~AllowUnverified, NEW a, Restorable(a), ArchiveAccepted(a)
    PROVE  Extractable(a)
<1>1. CASE a.bytes.layout = "wrapper"
  BY <1>1 DEF ArchiveAccepted, WrapperOk, ContentOk, Extractable
<1>2. CASE a.bytes.layout # "wrapper"
  <2>1. a.sidecar = a.bytes
    BY <1>2 DEF ArchiveAccepted, SidecarOk
  <2> QED
    BY <2>1 DEF Restorable, SealedWhole, ArchiveAccepted, ContentOk, Extractable
<1> QED
  BY <1>1, <1>2

LEMMA NoAdminType == NoAdmin \in AdminType /\ NoAdmin.phase = "none"
  BY DEF NoAdmin, AdminType, Phases

LEMMA InitArchiveIInv == Init => ArchiveIInv
<1> SUFFICES ASSUME Init PROVE ArchiveIInv
  OBVIOUS
<1>1. disk \in DiskType /\ admin \in AdminType /\ admin.phase = "none"
  BY NoAdminType DEF Init, DiskType
<1>2. snapshot \in Archives /\ snapshot.sidecar = None
  BY DEF Init, NoArchive, Archives
<1> QED
  BY <1>1, <1>2, DigestsAreBytes DEF ArchiveIInv, SealedWhole, WipedOnlyForAStore

\* Steps that keep the snapshot and end, or leave alone, what admin is doing.
LEMMA FrameArchiveIInv ==
    ASSUME ArchiveIInv, disk' \in DiskType, snapshot' = snapshot, admin' = admin \/ admin' = NoAdmin
    PROVE  ArchiveIInv'
<1>1. CASE admin' = admin
  BY <1>1 DEF ArchiveIInv, SealedWhole, Restorable, WipedOnlyForAStore, Extractable
<1>2. CASE admin' = NoAdmin
  BY <1>2, NoAdminType DEF ArchiveIInv, SealedWhole, WipedOnlyForAStore
<1> QED
  BY <1>1, <1>2

\* A publisher writes the sidecar of an archive it has finished, as
\* finishSnapshot does.
PublishedSealed == \A a \in Published : a.bytes \in Bytes /\ SealedWhole(a)

LEMMA RequestArchiveIInv ==
    ASSUME PublishedSealed, ArchiveIInv,
           AdminRequest(FALSE, None) \/ \E a \in Published \cup Snapshots : AdminRequest(TRUE, a)
    PROVE  ArchiveIInv'
<1>1. PICK r \in BOOLEAN, a \in Archives \cup {None} : AdminRequest(r, a) /\ (r => Restorable(a))
  <2>1. CASE AdminRequest(FALSE, None)
    BY <2>1
  <2>2. CASE \E a \in Published \cup Snapshots : AdminRequest(TRUE, a)
    <3>1. PICK a \in Published \cup Snapshots : AdminRequest(TRUE, a)
      BY <2>2
    <3>2. CASE a \in Published
      BY <3>1, <3>2, LifecycleAssumption DEF PublishedSealed, Restorable
    <3>3. CASE a \in Snapshots
      <4>1. a = snapshot /\ snapshot.bytes # None
        BY <3>3 DEF Snapshots
      <4>2. snapshot.bytes \in Bytes
        BY <4>1 DEF ArchiveIInv, Archives
      <4> QED
        BY <3>1, <4>1, <4>2 DEF ArchiveIInv, Restorable
    <3> QED
      BY <3>1, <3>2, <3>3
  <2> QED
    BY <2>1, <2>2
<1>2. disk' = disk /\ snapshot' = snapshot
  BY <1>1 DEF AdminRequest
<1>3. PICK p \in {"aborting", "waiting"} : admin' = [phase |-> p, restore |-> r, source |-> a]
  BY <1>1, Zenon DEF AdminRequest
<1>4. admin' \in AdminType /\ admin'.phase \in {"aborting", "waiting"} /\ admin'.restore = r /\ admin'.source = a
  BY <1>3 DEF AdminType, Phases
<1> QED
  BY <1>1, <1>2, <1>4 DEF ArchiveIInv, SealedWhole, Restorable, WipedOnlyForAStore

LEMMA AdminArchiveIInv ==
    ASSUME ~AllowUnverified, ArchiveIInv, AdminStep
    PROVE  ArchiveIInv'
<1>1. disk \in DiskType /\ admin \in AdminType /\ snapshot \in Archives
  BY DEF ArchiveIInv
<1>2. CASE AdminClosesAborted \/ AdminStopped
  <2>1. disk' = disk /\ snapshot' = snapshot /\ Paused /\ admin.phase # "none"
    BY <1>2 DEF AdminClosesAborted, AdminStopped
  <2>2. /\ admin' \in AdminType /\ admin'.restore = admin.restore /\ admin'.source = admin.source
        /\ admin'.phase = (IF admin.restore THEN "validating" ELSE "measuring")
    BY <1>1, <2>1 DEF Paused, AdminType, Phases, Owning
  <2> QED
    BY <2>1, <2>2 DEF ArchiveIInv, SealedWhole, Restorable, WipedOnlyForAStore
<1>3. CASE AdminCloseFails \/ AdminGivesUp \/ PackFails \/ ValidationFails \/ ExtractFails
  BY <1>1, <1>3, FrameArchiveIInv DEF AdminCloseFails, AdminGivesUp, PackFails, ValidationFails, ExtractFails,
                                      PostWipeFailure, Exit
<1>4. CASE PackBegins
  <2> DEFINE b == [layout |-> "store", root |-> TRUE, whole |-> FALSE,
                   meta |-> "undeclared", marker |-> disk.marker]
  <2>1. disk' = disk /\ snapshot' = [snapshot EXCEPT !.bytes = b] /\ admin' = [admin EXCEPT !.phase = "packing"]
        /\ admin.phase = "measuring"
    BY <1>4 DEF PackBegins
  <2>2. b \in Bytes
    BY <1>1 DEF DiskType, Bytes
  <2> HIDE DEF b
  <2>3. snapshot' \in Archives /\ snapshot'.bytes \in Bytes /\ snapshot'.sidecar = snapshot.sidecar
    BY <1>1, <2>1, <2>2 DEF Archives
  <2>4. /\ admin' \in AdminType /\ admin'.restore = admin.restore /\ admin'.source = admin.source
        /\ admin'.phase = "packing"
    BY <1>1, <2>1 DEF AdminType, Phases, Owning
  <2> QED
    BY <2>1, <2>3, <2>4 DEF ArchiveIInv, SealedWhole, Restorable, WipedOnlyForAStore
<1>5. CASE PackFlushed
  <2>1. disk' = disk /\ snapshot' = [snapshot EXCEPT !.bytes.whole = TRUE]
        /\ admin' = [admin EXCEPT !.phase = "sealing"] /\ admin.phase = "packing" /\ snapshot.bytes \in Bytes
    BY <1>5 DEF PackFlushed, ArchiveIInv
  <2>2. [snapshot.bytes EXCEPT !.whole = TRUE] \in Bytes /\ [snapshot.bytes EXCEPT !.whole = TRUE].whole
    BY <2>1 DEF Bytes
  <2>3. snapshot' = [snapshot EXCEPT !.bytes = [snapshot.bytes EXCEPT !.whole = TRUE]]
    BY <2>1
  <2>4. /\ snapshot' \in Archives /\ snapshot'.bytes = [snapshot.bytes EXCEPT !.whole = TRUE]
        /\ snapshot'.sidecar = snapshot.sidecar
    BY <1>1, <2>2, <2>3 DEF Archives
  <2>5. /\ admin' \in AdminType /\ admin'.restore = admin.restore /\ admin'.source = admin.source
        /\ admin'.phase = "sealing"
    BY <1>1, <2>1 DEF AdminType, Phases, Owning
  <2> QED
    BY <2>1, <2>2, <2>4, <2>5 DEF ArchiveIInv, SealedWhole, Restorable, WipedOnlyForAStore
<1>6. CASE PackEnds
  <2>1. disk' = disk /\ snapshot' = [snapshot EXCEPT !.sidecar = snapshot.bytes] /\ admin' = NoAdmin
        /\ snapshot.bytes \in Bytes /\ snapshot.bytes.whole
    BY <1>6 DEF PackEnds, ArchiveIInv
  <2>2. snapshot' \in Archives /\ snapshot'.sidecar = snapshot.bytes
    BY <1>1, <2>1 DEF Archives
  <2> QED
    BY <1>1, <2>1, <2>2, NoAdminType DEF ArchiveIInv, SealedWhole, WipedOnlyForAStore
<1>7. CASE Wipe
  <2>1. /\ disk' \in DiskType /\ snapshot' = snapshot /\ admin' = [admin EXCEPT !.phase = "extracting"]
        /\ admin.phase = "validating" /\ ArchiveAccepted(admin.source)
    BY <1>7 DEF Wipe, DiskType
  <2>2. Restorable(admin.source) /\ admin.restore
    BY <2>1 DEF ArchiveIInv
  <2>3. Extractable(admin.source)
    BY <2>1, <2>2, AcceptedIsExtractable
  <2>4. /\ admin' \in AdminType /\ admin'.restore = admin.restore /\ admin'.source = admin.source
        /\ admin'.phase = "extracting"
    BY <1>1, <2>1 DEF AdminType, Phases, Owning
  <2> QED
    BY <2>1, <2>2, <2>3, <2>4 DEF ArchiveIInv, SealedWhole, WipedOnlyForAStore
<1>8. CASE ExtractEnds
  <2> DEFINE m == admin.source.bytes.marker /\ launches \notin open
  <2>1. snapshot' = snapshot /\ admin' = NoAdmin /\ disk' = [marker |-> m, wiped |-> FALSE]
    BY <1>8 DEF ExtractEnds
  <2>2. m \in BOOLEAN
    BY Zenon
  <2> HIDE DEF m
  <2>3. disk' \in DiskType
    BY <2>1, <2>2 DEF DiskType
  <2> QED
    BY <2>1, <2>3, FrameArchiveIInv
<1> QED
  BY <1>2, <1>3, <1>4, <1>5, <1>6, <1>7, <1>8 DEF AdminStep

LEMMA NextArchiveIInv ==
    ASSUME ~AllowUnverified, PublishedSealed
    PROVE  ArchiveIInv /\ [Next]_vars => ArchiveIInv'
<1> SUFFICES ASSUME ArchiveIInv, [Next]_vars PROVE ArchiveIInv'
  OBVIOUS
<1>1. CASE UNCHANGED vars
  <2>1. disk' = disk /\ snapshot' = snapshot /\ admin' = admin
    BY <1>1 DEF vars, process
  <2> QED
    BY <2>1, FrameArchiveIInv DEF ArchiveIInv
<1>2. CASE Boot
  <2>1. disk' \in DiskType
    <3>1. disk' = [disk EXCEPT !.wiped = FALSE] \/ disk' = [marker |-> FALSE, wiped |-> FALSE]
      BY <1>2 DEF Boot
    <3>2. [disk EXCEPT !.wiped = FALSE] \in DiskType
      BY DEF ArchiveIInv, DiskType
    <3>3. [marker |-> FALSE, wiped |-> FALSE] \in DiskType
      BY DEF DiskType
    <3> QED
      BY <3>1, <3>2, <3>3
  <2> QED
    BY <1>2, <2>1, FrameArchiveIInv DEF Boot
<1>3. ASSUME NEW i \in Launch,
             LoopStep(i) \/ ArmPoller(i) \/ DropPoller(i) \/ PollHalts(i) \/ LoopFails(i)
      PROVE  ArchiveIInv'
  <2>1. CASE HaltWrite(i)
    <3>1. disk' \in DiskType
      BY <2>1 DEF HaltWrite, ArchiveIInv, DiskType
    <3> QED
      BY <2>1, <3>1, FrameArchiveIInv DEF HaltWrite
  <2>2. CASE ~HaltWrite(i)
    <3>1. disk' = disk /\ snapshot' = snapshot /\ (admin' = admin \/ admin' = NoAdmin)
      BY <1>3, <2>2, Zenon DEF LoopStep, Open, ReadMarker, BeginLoop, TakeElse, CloseDone, ArmPoller, DropPoller,
                               PollHalts, LoopFails, Exit
    <3> QED
      BY <3>1, FrameArchiveIInv DEF ArchiveIInv
  <2> QED
    BY <2>1, <2>2
<1>4. CASE AdminRequest(FALSE, None) \/ \E a \in Published \cup Snapshots : AdminRequest(TRUE, a)
  BY <1>4, RequestArchiveIInv
<1>5. CASE AdminStep
  BY <1>5, AdminArchiveIInv
<1>6. CASE \/ Signal \/ DrainCloses \/ ExitClean \/ HardExit \/ Kill
           \/ PassStarts \/ PassUnlisted \/ \E ok \in BOOLEAN : PassEnds(ok)
  <2>1. disk' = disk /\ snapshot' = snapshot /\ (admin' = admin \/ admin' = NoAdmin)
    BY <1>6 DEF Signal, DrainCloses, ExitClean, HardExit, Kill, PassStarts, PassUnlisted, PassEnds, Exit
  <2> QED
    BY <2>1, FrameArchiveIInv DEF ArchiveIInv
<1> QED
  BY <1>1, <1>2, <1>3, <1>4, <1>5, <1>6 DEF Next

\* A restore wipes the store only for an archive that can replace it, whatever
\* snapshots failed or were killed before it and however launches and requests
\* interleave, as long as archives without a sidecar are refused and publishers
\* seal what is whole (validateBootstrapArchiveOrThrow, finishSnapshot).
THEOREM WipeIsSafe ==
    ASSUME ~AllowUnverified, PublishedSealed
    PROVE  Spec => []WipedOnlyForAStore
<1>1. ArchiveIInv => WipedOnlyForAStore
  BY DEF ArchiveIInv
<1> QED
  BY <1>1, InitArchiveIInv, NextArchiveIInv, PTL DEF Spec

-----------------------------------------------------------------------------
(***************************************************************************)
(* The launches, the store handle and the flags.                           *)
(***************************************************************************)
Places == Running \cup Settled \cup {"none", "halting"}
Flags  == [keepParsing : BOOLEAN, parsingStopped : BOOLEAN, parsingAborted : BOOLEAN,
           halted : BOOLEAN, poller : BOOLEAN, mempoolReconverged : BOOLEAN]

\* Places in which a launch leaves the store and the flags to others, except
\* for the marker a halting one may still write.
Over == {"ended", "halted", "halting"}

\* A snapshot or restore, of whatever archive; a launch's view of its marker.
AdminShape(x) == x \in [phase : Phases, restore : BOOLEAN, source : {x.source}]
SeenShape(x)  == x \in [blind : BOOLEAN, mirrored : {x.mirrored}]

Typed ==
    /\ up \in BOOLEAN /\ launches \in 0 .. MaxLaunch
    /\ tracker \in Flags /\ loop \in [Launch -> Places]
    /\ SeenShape(seen)

\* Launches follow one another: the newest is the only one that may run.
OneLaunchRuns ==
    /\ up <=> launches # 0
    /\ \A i \in Launch : i < launches => loop[i] \in Over
    /\ \A i \in Launch : launches < i => loop[i] = "none"
    /\ \A i \in Launch : i = launches => loop[i] # "none"

\* this.db is the only handle.
OneHandle == open \subseteq Launch /\ open \subseteq {launches}

\* A snapshot or a restore never overlaps a start; once the tracker is paused
\* the newest launch is over and has left the store closed.
PausedIsOver ==
    /\ admin.phase # "none" => up /\ launches < MaxLaunch /\ loop[launches] \notin Starting
    /\ admin.phase \in Owning => open = {}
    /\ admin.phase \in Owning \cup {"aborting"} => loop[launches] \in Over

\* Outside a start, the flags stopParsing reads tell the truth.
FlagsAreTrue ==
    /\ up /\ loop[launches] \notin Starting /\ tracker.parsingStopped => open = {} /\ loop[launches] \in Over
    /\ up /\ loop[launches] \notin Starting /\ tracker.parsingAborted => loop[launches] \in Over

\* A launch that halted took the halted state; a marker that was there to read
\* has been taken notice of.
HaltTaken ==
    /\ up /\ loop[launches] \in {"halting", "halted"} => tracker.halted
    /\ up /\ disk.marker /\ loop[launches] \notin {"opening", "opened"} => tracker.halted \/ seen.blind

WipedIsExtracting == up /\ disk.wiped => admin.phase = "extracting"

IInv ==
    /\ Typed /\ OneLaunchRuns /\ OneHandle /\ PausedIsOver
    /\ FlagsAreTrue /\ HaltTaken /\ WipedIsExtracting
    /\ disk \in DiskType /\ AdminShape(admin)

LEMMA NoAdminShape == AdminShape(NoAdmin) /\ NoAdmin.phase = "none"
  BY DEF NoAdmin, AdminShape, Phases

LEMMA NewestLaunch ==
    ASSUME IInv, up
    PROVE  launches \in Launch /\ launches \in Nat /\ loop[launches] \in Places /\ loop[launches] # "none"
<1>1. launches \in Launch /\ launches \in Nat
  BY LifecycleAssumption DEF IInv, Typed, OneLaunchRuns, Launch
<1> QED
  BY <1>1 DEF IInv, Typed, OneLaunchRuns

\* A launch that is neither over nor still to come is the newest.
LEMMA ActiveIsNewest ==
    ASSUME IInv, NEW i \in Launch, loop[i] \notin Over, loop[i] # "none"
    PROVE  i = launches /\ up
<1>1. i \in Nat /\ launches \in Nat /\ i > 0
  BY LifecycleAssumption DEF IInv, Typed, Launch
<1>2. ~(i < launches) /\ ~(launches < i)
  BY DEF IInv, OneLaunchRuns
<1>3. i = launches /\ launches # 0
  BY <1>1, <1>2
<1> QED
  BY <1>3 DEF IInv, OneLaunchRuns

LEMMA InitIInv == Init => IInv
<1> SUFFICES ASSUME Init PROVE IInv
  OBVIOUS
<1>1. 0 \in 0 .. MaxLaunch /\ \A i \in Launch : ~(i < 0) /\ i # 0
  BY LifecycleAssumption DEF Launch
<1>2. Typed
  BY <1>1 DEF Init, Typed, Flags, FreshTracker, Unlaunched, Places, NothingSeen, SeenShape
<1>3. OneLaunchRuns
  BY <1>1 DEF Init, OneLaunchRuns, Unlaunched
<1>4. disk \in DiskType /\ AdminShape(admin) /\ admin.phase = "none"
  BY NoAdminShape DEF Init, DiskType
<1>5. OneHandle /\ PausedIsOver /\ FlagsAreTrue /\ HaltTaken /\ WipedIsExtracting
  BY <1>4 DEF Init, OneHandle, PausedIsOver, FlagsAreTrue, HaltTaken, WipedIsExtracting, Owning
<1> QED
  BY <1>2, <1>3, <1>4, <1>5 DEF IInv

\* The end of the process leaves a state like the first, but for the volumes.
LEMMA ExitIInv == IInv /\ Exit => IInv'
<1> SUFFICES ASSUME IInv, Exit PROVE IInv'
  OBVIOUS
<1>1. 0 \in 0 .. MaxLaunch /\ \A i \in Launch : ~(i < 0) /\ i # 0
  BY LifecycleAssumption DEF Launch
<1>2. Typed'
  BY <1>1 DEF Exit, Typed, Flags, FreshTracker, Unlaunched, Places, NothingSeen, SeenShape
<1>3. OneLaunchRuns'
  BY <1>1 DEF Exit, OneLaunchRuns, Unlaunched
<1>4. disk' \in DiskType /\ AdminShape(admin') /\ admin'.phase = "none"
  BY NoAdminShape DEF Exit, IInv
<1>5. OneHandle' /\ PausedIsOver' /\ FlagsAreTrue' /\ HaltTaken' /\ WipedIsExtracting'
  BY <1>4 DEF Exit, OneHandle, PausedIsOver, FlagsAreTrue, HaltTaken, WipedIsExtracting, Owning
<1> QED
  BY <1>2, <1>3, <1>4, <1>5 DEF IInv

\* The newest launch moves on.
LEMMA MoveKeepsLaunches ==
    ASSUME IInv, up, NEW p \in Places \ {"none"}, loop' = [loop EXCEPT ![launches] = p],
           launches' = launches, up' = up
    PROVE  OneLaunchRuns' /\ loop' \in [Launch -> Places] /\ loop'[launches'] = p
<1>1. launches \in Launch /\ loop \in [Launch -> Places]
  BY NewestLaunch DEF IInv, Typed
<1>2. loop' \in [Launch -> Places] /\ loop'[launches] = p
  BY <1>1
<1>3. \A i \in Launch : i # launches => loop'[i] = loop[i]
  BY <1>1
<1>4. \A i \in Launch : i < launches \/ launches < i => i # launches
  BY NewestLaunch DEF Launch
<1> QED
  BY <1>2, <1>3, <1>4 DEF IInv, OneLaunchRuns

\* A launch follows one that is over, or the first one starts.
LEMMA RelaunchKeepsLaunches ==
    ASSUME IInv, Relaunch, launches < MaxLaunch, up => loop[launches] \in Over, up'
    PROVE  /\ OneLaunchRuns' /\ launches' \in 0 .. MaxLaunch /\ loop' \in [Launch -> Places]
           /\ loop'[launches'] = "opening"
<1>1. launches \in Nat /\ launches' = launches + 1 /\ launches' \in 0 .. MaxLaunch /\ launches' \in Launch
  BY LifecycleAssumption DEF IInv, Typed, Relaunch, Launch
<1>2. loop \in [Launch -> Places] /\ loop' = [loop EXCEPT ![launches'] = "opening"]
  BY <1>1 DEF IInv, Typed, Relaunch
<1>3. loop' \in [Launch -> Places] /\ loop'[launches'] = "opening"
  BY <1>1, <1>2 DEF Places, Running, Starting
<1>4. \A i \in Launch : i # launches' => loop'[i] = loop[i]
  BY <1>1, <1>2
<1>5. \A i \in Launch : /\ i < launches' => i # launches' /\ (i < launches \/ (i = launches /\ launches # 0))
                        /\ launches' < i => i # launches' /\ launches < i
  BY <1>1 DEF Launch
<1>6. ASSUME NEW i \in Launch, i < launches' PROVE loop'[i] \in Over
  BY <1>4, <1>5, <1>6 DEF IInv, OneLaunchRuns
<1>7. ASSUME NEW i \in Launch, launches' < i PROVE loop'[i] = "none"
  BY <1>4, <1>5, <1>7 DEF IInv, OneLaunchRuns
<1>8. launches' # 0
  BY <1>1
<1> QED
  BY <1>1, <1>3, <1>6, <1>7, <1>8 DEF OneLaunchRuns

(***************************************************************************)
(* The steps of start().                                                   *)
(***************************************************************************)
LEMMA LoopIInv ==
    ASSUME IInv, NEW i \in Launch, LoopStep(i) \/ ArmPoller(i) \/ DropPoller(i) \/ PollHalts(i)
    PROVE  IInv'
<1>1. /\ up \in BOOLEAN /\ launches \in 0 .. MaxLaunch /\ tracker \in Flags
      /\ loop \in [Launch -> Places] /\ disk \in DiskType /\ AdminShape(admin)
      /\ SeenShape(seen)
  BY DEF IInv, Typed
<1>2. CASE Open(i)
  <2>1. i = launches /\ up /\ loop[launches] = "opening"
    BY <1>2, ActiveIsNewest DEF Open, Over
  <2>2. /\ up' = up /\ launches' = launches /\ admin' = admin
        /\ loop' = [loop EXCEPT ![launches] = "opened"]
        /\ tracker' = tracker /\ disk' = disk /\ seen' = seen /\ open' = {launches}
    BY <1>1, <1>2, <2>1 DEF Open
  <2>3. OneLaunchRuns' /\ loop' \in [Launch -> Places] /\ loop'[launches'] = "opened"
    BY <2>1, <2>2, MoveKeepsLaunches DEF Places, Running, Starting, Settled
  <2>4. Typed' /\ disk' \in DiskType /\ AdminShape(admin')
    BY <1>1, <2>2, <2>3 DEF Typed, Flags, DiskType
  <2>5. OneHandle' /\ PausedIsOver' /\ FlagsAreTrue' /\ HaltTaken' /\ WipedIsExtracting'
    BY <1>1, <2>1, <2>2, <2>3 DEF IInv, OneHandle, PausedIsOver, FlagsAreTrue, HaltTaken, WipedIsExtracting, Over, Starting, Flags
  <2> QED
    BY <2>3, <2>4, <2>5 DEF IInv
<1>3. CASE BeginLoop(i)
  <2>1. i = launches /\ up /\ loop[launches] = "loading"
    BY <1>3, ActiveIsNewest DEF BeginLoop, Over
  <2>2. /\ up' = up /\ launches' = launches /\ admin' = admin
        /\ loop' = [loop EXCEPT ![launches] = "polling"]
        /\ tracker' \in Flags /\ ~tracker'.parsingStopped /\ ~tracker'.parsingAborted
        /\ tracker'.halted = tracker.halted
        /\ disk' = disk /\ seen' = seen /\ open' = open
    BY <1>1, <1>3, <2>1 DEF BeginLoop, Flags
  <2>3. OneLaunchRuns' /\ loop' \in [Launch -> Places] /\ loop'[launches'] = "polling"
    BY <2>1, <2>2, MoveKeepsLaunches DEF Places, Running, Starting, Settled
  <2>4. Typed' /\ disk' \in DiskType /\ AdminShape(admin')
    BY <1>1, <2>2, <2>3 DEF Typed, Flags, DiskType
  <2>5. OneHandle' /\ PausedIsOver' /\ FlagsAreTrue' /\ HaltTaken' /\ WipedIsExtracting'
    BY <1>1, <2>1, <2>2, <2>3 DEF IInv, OneHandle, PausedIsOver, FlagsAreTrue, HaltTaken, WipedIsExtracting, Over, Starting, Flags
  <2> QED
    BY <2>3, <2>4, <2>5 DEF IInv
<1>4. CASE PollHalts(i)
  <2>1. i = launches /\ up /\ loop[launches] = "polling"
    BY <1>4, ActiveIsNewest DEF PollHalts, Over
  <2>2. /\ up' = up /\ launches' = launches /\ admin' = admin
        /\ loop' = [loop EXCEPT ![launches] = "halting"]
        /\ tracker' \in Flags /\ tracker'.halted /\ ~tracker'.parsingStopped
        /\ disk' = disk /\ seen' = seen /\ open' = open
    BY <1>1, <1>4, <2>1 DEF PollHalts, Halted, Flags
  <2>3. OneLaunchRuns' /\ loop' \in [Launch -> Places] /\ loop'[launches'] = "halting"
    BY <2>1, <2>2, MoveKeepsLaunches DEF Places, Running, Starting, Settled
  <2>4. Typed' /\ disk' \in DiskType /\ AdminShape(admin')
    BY <1>1, <2>2, <2>3 DEF Typed, Flags, DiskType
  <2>5. OneHandle' /\ PausedIsOver' /\ FlagsAreTrue' /\ HaltTaken' /\ WipedIsExtracting'
    BY <1>1, <2>1, <2>2, <2>3 DEF IInv, OneHandle, PausedIsOver, FlagsAreTrue, HaltTaken, WipedIsExtracting, Over, Starting, Flags
  <2> QED
    BY <2>3, <2>4, <2>5 DEF IInv
<1>5. CASE TakeElse(i)
  <2>1. i = launches /\ up /\ loop[launches] = "polling"
    BY <1>5, ActiveIsNewest DEF TakeElse, Over
  <2>2. /\ up' = up /\ launches' = launches /\ admin' = admin
        /\ loop' = [loop EXCEPT ![launches] = "closing"]
        /\ tracker' \in Flags /\ tracker'.halted = tracker.halted
        /\ tracker'.parsingStopped = tracker.parsingStopped /\ tracker'.parsingAborted = tracker.parsingAborted
        /\ disk' = disk /\ seen' = seen /\ open' = open
    BY <1>1, <1>5, <2>1 DEF TakeElse, Stopping, Flags
  <2>3. OneLaunchRuns' /\ loop' \in [Launch -> Places] /\ loop'[launches'] = "closing"
    BY <2>1, <2>2, MoveKeepsLaunches DEF Places, Running, Starting, Settled
  <2>4. Typed' /\ disk' \in DiskType /\ AdminShape(admin')
    BY <1>1, <2>2, <2>3 DEF Typed, Flags, DiskType
  <2>5. OneHandle' /\ PausedIsOver' /\ FlagsAreTrue' /\ HaltTaken' /\ WipedIsExtracting'
    BY <1>1, <2>1, <2>2, <2>3 DEF IInv, OneHandle, PausedIsOver, FlagsAreTrue, HaltTaken, WipedIsExtracting, Over, Starting, Flags
  <2> QED
    BY <2>3, <2>4, <2>5 DEF IInv
<1>6. CASE CloseDone(i)
  <2>1. i = launches /\ up /\ loop[launches] = "closing"
    BY <1>6, ActiveIsNewest DEF CloseDone, Over
  <2>2. /\ up' = up /\ launches' = launches /\ admin' = admin
        /\ loop' = [loop EXCEPT ![launches] = "ended"]
        /\ tracker' \in Flags /\ tracker'.halted = tracker.halted
        /\ tracker'.parsingAborted = tracker.parsingAborted
        /\ disk' = disk /\ seen' = seen /\ open' = open \ {launches}
    BY <1>1, <1>6, <2>1 DEF CloseDone, Flags
  <2>3. OneLaunchRuns' /\ loop' \in [Launch -> Places] /\ loop'[launches'] = "ended"
    BY <2>1, <2>2, MoveKeepsLaunches DEF Places, Running, Starting, Settled
  <2>4. Typed' /\ disk' \in DiskType /\ AdminShape(admin')
    BY <1>1, <2>2, <2>3 DEF Typed, Flags, DiskType
  <2>5. OneHandle' /\ PausedIsOver' /\ FlagsAreTrue' /\ HaltTaken' /\ WipedIsExtracting'
    BY <1>1, <2>1, <2>2, <2>3 DEF IInv, OneHandle, PausedIsOver, FlagsAreTrue, HaltTaken, WipedIsExtracting, Over, Starting, Flags
  <2> QED
    BY <2>3, <2>4, <2>5 DEF IInv
<1>7. CASE ReadMarker(i)
  <2>1. i = launches /\ up /\ loop[launches] = "opened"
    BY <1>7, ActiveIsNewest DEF ReadMarker, Over
  <2>2. up' = up /\ launches' = launches /\ admin' = admin /\ disk' = disk /\ open' = open
    BY <1>7 DEF ReadMarker
  <2>3. PICK readable \in BOOLEAN :
          IF readable /\ disk.marker
          THEN /\ tracker' = Halted(tracker)
               /\ loop' = [loop EXCEPT ![launches] = "halted"]
               /\ seen' = [seen EXCEPT !.blind = FALSE]
          ELSE /\ loop' = [loop EXCEPT ![launches] = "loading"]
               /\ seen' = [seen EXCEPT !.blind = ~readable]
               /\ tracker' = tracker
    BY <1>7, <2>1, Zenon DEF ReadMarker, ResumeHalted
  <2>4. CASE readable /\ disk.marker
    <3>1. /\ tracker' \in Flags /\ tracker'.halted /\ ~tracker'.parsingStopped
          /\ loop' = [loop EXCEPT ![launches] = "halted"]
          /\ SeenShape(seen')
      BY <1>1, <2>3, <2>4 DEF Halted, Flags, SeenShape
    <3>2. OneLaunchRuns' /\ loop' \in [Launch -> Places] /\ loop'[launches'] = "halted"
      BY <2>1, <2>2, <3>1, MoveKeepsLaunches DEF Places, Settled
    <3>3. Typed' /\ disk' \in DiskType /\ AdminShape(admin')
      BY <1>1, <2>2, <3>1, <3>2 DEF Typed
    <3>4. OneHandle' /\ PausedIsOver' /\ FlagsAreTrue' /\ HaltTaken' /\ WipedIsExtracting'
      BY <2>1, <2>2, <3>1, <3>2 DEF IInv, OneHandle, PausedIsOver, FlagsAreTrue, HaltTaken, WipedIsExtracting,
                                    Over, Starting
    <3> QED
      BY <3>2, <3>3, <3>4 DEF IInv
  <2>5. CASE ~(readable /\ disk.marker)
    <3>1. /\ tracker' = tracker /\ loop' = [loop EXCEPT ![launches] = "loading"]
          /\ seen' = [seen EXCEPT !.blind = ~readable]
      BY <2>3, <2>5, Zenon
    <3>2. SeenShape(seen') /\ (seen'.blind <=> ~readable)
      BY <1>1, <3>1 DEF SeenShape
    <3>3. OneLaunchRuns' /\ loop' \in [Launch -> Places] /\ loop'[launches'] = "loading"
      BY <2>1, <2>2, <3>1, MoveKeepsLaunches DEF Places, Running, Starting
    <3>4. Typed' /\ disk' \in DiskType /\ AdminShape(admin')
      BY <1>1, <2>2, <3>1, <3>2, <3>3 DEF Typed
    <3>5. HaltTaken'
      BY <2>2, <2>5, <3>2, <3>3 DEF HaltTaken
    <3>6. OneHandle' /\ PausedIsOver' /\ FlagsAreTrue' /\ WipedIsExtracting'
      BY <2>1, <2>2, <3>1, <3>3 DEF IInv, OneHandle, PausedIsOver, FlagsAreTrue, WipedIsExtracting,
                                    Over, Starting
    <3> QED
      BY <3>3, <3>4, <3>5, <3>6 DEF IInv
  <2> QED
    BY <2>4, <2>5
<1>8. CASE HaltWrite(i)
  <2>1. /\ loop[i] = "halting" /\ loop' = [loop EXCEPT ![i] = "halted"] /\ up' = up /\ launches' = launches
        /\ admin' = admin /\ tracker' = tracker /\ seen' = seen /\ open' = open
    BY <1>8 DEF HaltWrite
  <2>2. disk' = disk \/ (i \in open /\ disk' = [disk EXCEPT !.marker = TRUE])
    BY <1>8 DEF HaltWrite
  <2>3. disk' \in DiskType /\ disk'.wiped = disk.wiped
    BY <1>1, <2>2 DEF DiskType
  <2>4. CASE i = launches
    <3>1. up
      BY <2>1, <2>4 DEF IInv, OneLaunchRuns, Launch
    <3>2. OneLaunchRuns' /\ loop' \in [Launch -> Places] /\ loop'[launches'] = "halted"
      BY <2>1, <2>4, <3>1, MoveKeepsLaunches DEF Places, Settled
    <3>3. Typed' /\ AdminShape(admin')
      BY <1>1, <2>1, <3>2 DEF Typed
    <3>4. OneHandle' /\ PausedIsOver' /\ FlagsAreTrue' /\ HaltTaken' /\ WipedIsExtracting'
      BY <2>1, <2>3, <2>4, <3>1, <3>2 DEF IInv, OneHandle, PausedIsOver, FlagsAreTrue, HaltTaken,
                                          WipedIsExtracting, Over, Starting
    <3> QED
      BY <2>3, <3>2, <3>3, <3>4 DEF IInv
  <2>5. CASE i # launches
    <3>1. disk' = disk
      BY <2>2, <2>5 DEF IInv, OneHandle
    <3>2. loop' \in [Launch -> Places] /\ \A j \in Launch : j # i => loop'[j] = loop[j]
      BY <1>1, <2>1 DEF Places, Settled
    <3>3. loop'[i] = "halted"
      BY <1>1, <2>1
    <3>4. OneLaunchRuns'
      <4>1. ~(launches < i)
        BY <2>1 DEF IInv, OneLaunchRuns
      <4> QED
        BY <2>1, <2>5, <3>2, <3>3, <4>1 DEF IInv, OneLaunchRuns, Over
    <3>5. Typed' /\ AdminShape(admin')
      BY <1>1, <2>1, <3>2 DEF Typed
    <3>6. up => loop'[launches'] = loop[launches]
      BY <2>1, <2>5, <3>2, NewestLaunch
    <3>7. OneHandle' /\ PausedIsOver' /\ FlagsAreTrue' /\ HaltTaken' /\ WipedIsExtracting'
      BY <2>1, <3>1, <3>6 DEF IInv, OneHandle, PausedIsOver, FlagsAreTrue, HaltTaken, WipedIsExtracting, Owning
    <3> QED
      BY <2>3, <3>4, <3>5, <3>7 DEF IInv
  <2> QED
    BY <2>4, <2>5
<1>9. CASE ArmPoller(i) \/ DropPoller(i)
  <2>1. /\ up' = up /\ launches' = launches /\ admin' = admin /\ loop' = loop /\ disk' = disk /\ seen' = seen
        /\ open' = open
    BY <1>9 DEF ArmPoller, DropPoller
  <2>2. /\ tracker' \in Flags /\ tracker'.halted = tracker.halted
        /\ tracker'.parsingStopped = tracker.parsingStopped /\ tracker'.parsingAborted = tracker.parsingAborted
    BY <1>1, <1>9 DEF ArmPoller, DropPoller, Flags
  <2>3. Typed' /\ OneLaunchRuns' /\ disk' \in DiskType /\ AdminShape(admin')
    BY <1>1, <2>1, <2>2 DEF IInv, Typed, OneLaunchRuns
  <2>4. OneHandle' /\ PausedIsOver' /\ FlagsAreTrue' /\ HaltTaken' /\ WipedIsExtracting'
    BY <2>1, <2>2 DEF IInv, OneHandle, PausedIsOver, FlagsAreTrue, HaltTaken, WipedIsExtracting
  <2> QED
    BY <2>3, <2>4 DEF IInv
<1> QED
  BY <1>2, <1>3, <1>4, <1>5, <1>6, <1>7, <1>8, <1>9 DEF LoopStep

(***************************************************************************)
(* The steps of the process and of snapshots and restores.                 *)
(***************************************************************************)
\* A step that starts no launch and moves none.
LEMMA StillIInv ==
    ASSUME IInv, up' = up, launches' = launches, loop' = loop, tracker' \in Flags,
           SeenShape(seen'), seen'.blind = seen.blind,
           tracker'.halted = tracker.halted, tracker'.parsingAborted = tracker.parsingAborted,
           tracker'.parsingStopped => tracker.parsingStopped \/ (open' = {} /\ loop[launches] \in Over),
           open' \subseteq open, disk' \in DiskType, disk'.marker => disk.marker,
           AdminShape(admin'), PausedIsOver', WipedIsExtracting'
    PROVE  IInv'
<1>1. Typed' /\ OneLaunchRuns'
  BY DEF IInv, Typed, OneLaunchRuns
<1>2. OneHandle'
  BY DEF IInv, OneHandle
<1>3. FlagsAreTrue'
  BY <1>2 DEF IInv, FlagsAreTrue, OneHandle
<1>4. HaltTaken'
  BY DEF IInv, HaltTaken
<1> QED
  BY <1>1, <1>2, <1>3, <1>4 DEF IInv

\* A step that starts a launch on a store that is closed.
LEMMA RelaunchIInv ==
    ASSUME IInv, Relaunch, launches < MaxLaunch, up => loop[launches] \in Over, up', open' = {},
           tracker' \in Flags, seen' = seen, disk' \in DiskType, ~disk'.wiped,
           AdminShape(admin'), admin'.phase = "none"
    PROVE  IInv'
<1>1. /\ OneLaunchRuns' /\ launches' \in 0 .. MaxLaunch /\ loop' \in [Launch -> Places]
      /\ loop'[launches'] = "opening"
  BY RelaunchKeepsLaunches
<1>2. up' \in BOOLEAN
  <2>1. launches' # 0
    BY LifecycleAssumption DEF Relaunch, IInv, Typed
  <2> QED
    BY <1>1, <2>1 DEF OneLaunchRuns
<1>3. Typed'
  BY <1>1, <1>2 DEF IInv, Typed
<1>4. OneHandle' /\ PausedIsOver' /\ FlagsAreTrue' /\ HaltTaken' /\ WipedIsExtracting'
  BY <1>1 DEF OneHandle, PausedIsOver, FlagsAreTrue, HaltTaken, WipedIsExtracting, Starting, Owning
<1> QED
  BY <1>1, <1>3, <1>4 DEF IInv

LEMMA RequestIInv ==
    ASSUME OperatorWaits, IInv, NEW r \in BOOLEAN, NEW a, AdminRequest(r, a)
    PROVE  IInv'
<1>1. /\ up /\ admin.phase = "none" /\ launches < MaxLaunch /\ \A i \in Launch : loop[i] \notin Starting
      /\ up' = up /\ launches' = launches /\ loop' = loop /\ seen' = seen /\ open' = open /\ disk' = disk
      /\ tracker' = [tracker EXCEPT !.keepParsing = FALSE, !.poller = FALSE]
  BY DEF AdminRequest, Idle
<1>2. PICK p : /\ p = IF tracker.parsingAborted /\ ~tracker.parsingStopped THEN "aborting" ELSE "waiting"
               /\ admin' = [phase |-> p, restore |-> r, source |-> a]
  BY Zenon DEF AdminRequest
<1>3. p \in {"aborting", "waiting"} /\ (p = "aborting" => tracker.parsingAborted)
  BY <1>2
<1>4. AdminShape(admin') /\ admin'.phase = p
  BY <1>2, <1>3 DEF AdminShape, Phases
<1>5. /\ tracker' \in Flags /\ tracker'.halted = tracker.halted
      /\ tracker'.parsingAborted = tracker.parsingAborted /\ tracker'.parsingStopped = tracker.parsingStopped
  BY <1>1 DEF IInv, Typed, Flags
<1>6. loop[launches] \notin Starting
  BY <1>1, NewestLaunch
<1>7. PausedIsOver'
  BY <1>1, <1>3, <1>4, <1>6 DEF IInv, PausedIsOver, FlagsAreTrue, Owning
<1>8. WipedIsExtracting'
  BY <1>1 DEF IInv, WipedIsExtracting
<1>9. disk' \in DiskType /\ SeenShape(seen')
  BY <1>1 DEF IInv, Typed
<1> QED
  BY <1>1, <1>4, <1>5, <1>7, <1>8, <1>9, StillIInv

LEMMA AdminIInv == ASSUME IInv, AdminStep PROVE IInv'
<1>1. /\ disk \in DiskType /\ AdminShape(admin) /\ tracker \in Flags /\ SeenShape(seen)
      /\ \A p \in Phases : AdminShape([admin EXCEPT !.phase = p]) /\ [admin EXCEPT !.phase = p].phase = p
  BY DEF IInv, Typed, AdminShape
<1>2. admin.phase # "none" => /\ up /\ launches < MaxLaunch /\ loop[launches] \notin Starting
                              /\ launches \in Launch
  BY NewestLaunch DEF IInv, PausedIsOver
<1>3. admin.phase \in Owning => open = {} /\ loop[launches] \in Over
  BY DEF IInv, PausedIsOver
<1>4. CASE AdminClosesAborted
  <2>1. /\ admin.phase = "aborting" /\ up' = up /\ launches' = launches /\ loop' = loop /\ seen' = seen
        /\ open' = open \ {launches} /\ disk' = disk /\ tracker' = [tracker EXCEPT !.parsingStopped = TRUE]
        /\ Paused
    BY <1>4 DEF AdminClosesAborted
  <2>2. open' = {} /\ loop[launches] \in Over /\ ~disk.wiped
    BY <1>2, <2>1 DEF IInv, OneHandle, PausedIsOver, WipedIsExtracting
  <2>3. AdminShape(admin') /\ admin'.phase \in {"validating", "measuring"}
    BY <1>1, <2>1 DEF Paused, Phases, Owning
  <2>4. /\ tracker' \in Flags /\ tracker'.halted = tracker.halted
        /\ tracker'.parsingAborted = tracker.parsingAborted
    BY <1>1, <2>1 DEF Flags
  <2>5. PausedIsOver'
    BY <1>2, <2>1, <2>2, <2>3 DEF PausedIsOver
  <2>6. WipedIsExtracting'
    BY <2>1, <2>2 DEF WipedIsExtracting
  <2> QED
    BY <1>1, <2>1, <2>2, <2>3, <2>4, <2>5, <2>6, StillIInv
<1>5. CASE AdminStopped
  <2>1. /\ admin.phase = "waiting" /\ up' = up /\ launches' = launches /\ loop' = loop /\ seen' = seen
        /\ open' = open /\ disk' = disk /\ tracker' = tracker /\ tracker.parsingStopped /\ Paused
    BY <1>5 DEF AdminStopped
  <2>2. open = {} /\ loop[launches] \in Over /\ ~disk.wiped
    BY <1>2, <2>1 DEF IInv, FlagsAreTrue, WipedIsExtracting
  <2>3. AdminShape(admin') /\ admin'.phase \in {"validating", "measuring"}
    BY <1>1, <2>1 DEF Paused, Phases, Owning
  <2>4. PausedIsOver' /\ WipedIsExtracting'
    BY <1>2, <2>1, <2>2, <2>3 DEF PausedIsOver, WipedIsExtracting
  <2> QED
    BY <1>1, <2>1, <2>2, <2>3, <2>4, StillIInv
<1>6. CASE AdminCloseFails \/ AdminGivesUp
  <2>1. /\ admin.phase \in {"aborting", "waiting"} /\ up' = up /\ launches' = launches /\ loop' = loop
        /\ seen' = seen /\ open' = open /\ disk' = disk /\ admin' = NoAdmin
    BY <1>6 DEF AdminCloseFails, AdminGivesUp
  <2>2. /\ tracker' \in Flags /\ tracker'.halted = tracker.halted
        /\ tracker'.parsingAborted = tracker.parsingAborted /\ tracker'.parsingStopped = tracker.parsingStopped
    BY <1>1, <1>6 DEF AdminCloseFails, AdminGivesUp, Flags
  <2>3. PausedIsOver' /\ WipedIsExtracting'
    BY <1>2, <2>1, NoAdminShape DEF IInv, PausedIsOver, WipedIsExtracting, Owning
  <2> QED
    BY <1>1, <2>1, <2>2, <2>3, NoAdminShape, StillIInv
<1>7. CASE PackBegins \/ PackFlushed
  <2>1. /\ admin.phase \in Owning \ {"extracting"} /\ up' = up /\ launches' = launches /\ loop' = loop
        /\ seen' = seen /\ open' = open /\ disk' = disk /\ tracker' = tracker
        /\ \E p \in Owning : admin' = [admin EXCEPT !.phase = p]
    BY <1>7 DEF PackBegins, PackFlushed, Owning
  <2>2. AdminShape(admin') /\ admin'.phase \in Owning
    BY <1>1, <2>1 DEF Phases
  <2>3. PausedIsOver' /\ WipedIsExtracting'
    BY <1>2, <1>3, <2>1, <2>2 DEF IInv, PausedIsOver, WipedIsExtracting, Owning
  <2> QED
    BY <1>1, <2>1, <2>2, <2>3, StillIInv
<1>8. CASE PackEnds \/ PackFails \/ ValidationFails
  <2>1. /\ admin.phase \in Owning \ {"extracting"} /\ Relaunch /\ up' = up /\ open' = open /\ tracker' = tracker
        /\ seen' = seen /\ disk' = disk /\ admin' = NoAdmin
    BY <1>8 DEF PackEnds, PackFails, ResumeIndexing, ValidationFails, Owning
  <2>2. up /\ launches < MaxLaunch /\ open = {} /\ loop[launches] \in Over
    BY <1>2, <1>3, <2>1 DEF Owning
  <2>3. ~disk.wiped
    BY <2>1, <2>2 DEF IInv, WipedIsExtracting
  <2> QED
    BY <1>1, <2>1, <2>2, <2>3, NoAdminShape, RelaunchIInv
<1>9. CASE Wipe
  <2>1. /\ admin.phase = "validating" /\ up' = up /\ launches' = launches /\ loop' = loop
        /\ seen' = seen /\ open' = open /\ disk' = [marker |-> FALSE, wiped |-> TRUE] /\ tracker' = tracker
        /\ admin' = [admin EXCEPT !.phase = "extracting"]
    BY <1>9 DEF Wipe
  <2>2. AdminShape(admin') /\ admin'.phase = "extracting" /\ "extracting" \in Owning
    BY <1>1, <2>1 DEF Phases, Owning
  <2>3. PausedIsOver' /\ WipedIsExtracting'
    BY <1>2, <1>3, <2>1, <2>2 DEF PausedIsOver, WipedIsExtracting, Owning
  <2>4. disk' \in DiskType /\ ~disk'.marker
    BY <2>1 DEF DiskType
  <2> QED
    BY <1>1, <2>1, <2>2, <2>3, <2>4, StillIInv
<1>10. CASE ExtractFails
  BY <1>10, ExitIInv DEF ExtractFails, PostWipeFailure
<1>11. CASE ExtractEnds
  <2> DEFINE m == admin.source.bytes.marker /\ launches \notin open
  <2>1. /\ admin.phase = "extracting" /\ Relaunch /\ up' = up /\ open' = open /\ seen' = seen /\ admin' = NoAdmin
        /\ tracker' = [tracker EXCEPT !.halted = FALSE] /\ disk' = [marker |-> m, wiped |-> FALSE]
    BY <1>11 DEF ExtractEnds
  <2>2. m \in BOOLEAN
    BY Zenon
  <2> HIDE DEF m
  <2>3. disk' \in DiskType /\ ~disk'.wiped
    BY <2>1, <2>2 DEF DiskType
  <2>4. tracker' \in Flags
    BY <1>1, <2>1 DEF Flags
  <2>5. up /\ launches < MaxLaunch /\ open = {} /\ loop[launches] \in Over
    BY <1>2, <1>3, <2>1 DEF Owning
  <2> QED
    BY <2>1, <2>3, <2>4, <2>5, NoAdminShape, RelaunchIInv
<1> QED
  BY <1>4, <1>5, <1>6, <1>7, <1>8, <1>9, <1>10, <1>11 DEF AdminStep

LEMMA NextIInv == ASSUME OperatorWaits PROVE IInv /\ [Next]_vars => IInv'
<1> SUFFICES ASSUME IInv, [Next]_vars PROVE IInv'
  OBVIOUS
<1>1. disk \in DiskType /\ AdminShape(admin) /\ tracker \in Flags
      /\ SeenShape(seen)
  BY DEF IInv, Typed
<1>2. CASE UNCHANGED vars
  <2>1. /\ up' = up /\ launches' = launches /\ loop' = loop /\ seen' = seen /\ tracker' = tracker /\ open' = open
        /\ disk' = disk /\ admin' = admin
    BY <1>2 DEF vars, process
  <2>2. PausedIsOver' /\ WipedIsExtracting'
    BY <2>1 DEF IInv, PausedIsOver, WipedIsExtracting
  <2> QED
    BY <1>1, <2>1, <2>2, StillIInv
<1>3. CASE Boot
  <2>1. ~up /\ up' /\ Relaunch /\ tracker' = tracker /\ open' = open /\ seen' = seen /\ admin' = admin
    BY <1>3 DEF Boot
  <2>2. disk' = [disk EXCEPT !.wiped = FALSE] \/ disk' = [marker |-> FALSE, wiped |-> FALSE]
    BY <1>3 DEF Boot
  <2>3. disk' \in DiskType /\ ~disk'.wiped
    <3>1. [disk EXCEPT !.wiped = FALSE] \in DiskType /\ ~[disk EXCEPT !.wiped = FALSE].wiped
      BY <1>1 DEF DiskType
    <3>2. [marker |-> FALSE, wiped |-> FALSE] \in DiskType /\ ~[marker |-> FALSE, wiped |-> FALSE].wiped
      BY DEF DiskType
    <3>3. CASE disk' = [disk EXCEPT !.wiped = FALSE]
      BY <3>1, <3>3
    <3>4. CASE disk' = [marker |-> FALSE, wiped |-> FALSE]
      BY <3>2, <3>4
    <3> QED
      BY <2>2, <3>3, <3>4
  <2>4. launches = 0 /\ launches < MaxLaunch
    BY <2>1, LifecycleAssumption DEF IInv, OneLaunchRuns
  <2>5. open = {}
    BY <2>4 DEF IInv, OneHandle, Launch
  <2>6. admin.phase = "none"
    BY <2>1 DEF IInv, PausedIsOver
  <2> QED
    BY <1>1, <2>1, <2>3, <2>4, <2>5, <2>6, RelaunchIInv
<1>4. ASSUME NEW i \in Launch,
             LoopStep(i) \/ ArmPoller(i) \/ DropPoller(i) \/ PollHalts(i) \/ LoopFails(i)
      PROVE  IInv'
  BY <1>4, LoopIInv, ExitIInv DEF LoopFails
<1>5. CASE AdminRequest(FALSE, None) \/ \E a \in Published \cup Snapshots : AdminRequest(TRUE, a)
  BY <1>5, RequestIInv
<1>6. CASE AdminStep
  BY <1>6, AdminIInv
<1>7. CASE ExitClean \/ HardExit \/ Kill
  BY <1>7, ExitIInv DEF ExitClean, HardExit, Kill
<1>8. CASE Signal \/ DrainCloses \/ PassStarts \/ PassUnlisted
  <2>1. /\ up' = up /\ launches' = launches /\ loop' = loop /\ seen' = seen
        /\ disk' = disk /\ admin' = admin /\ open' \subseteq open
        /\ tracker' = tracker \/ tracker' = [tracker EXCEPT !.keepParsing = FALSE, !.poller = FALSE]
    BY <1>8 DEF Signal, DrainCloses, PassStarts, PassUnlisted
  <2>2. /\ tracker' \in Flags /\ tracker'.halted = tracker.halted
        /\ tracker'.parsingAborted = tracker.parsingAborted /\ tracker'.parsingStopped = tracker.parsingStopped
    BY <1>1, <2>1 DEF Flags
  <2>3. PausedIsOver' /\ WipedIsExtracting'
    BY <2>1 DEF IInv, PausedIsOver, WipedIsExtracting
  <2> QED
    BY <1>1, <2>1, <2>2, <2>3, StillIInv
<1>9. ASSUME NEW ok \in BOOLEAN, PassEnds(ok) PROVE IInv'
  <2>1. /\ up' = up /\ launches' = launches /\ loop' = loop /\ disk' = disk /\ admin' = admin /\ open' = open
        /\ tracker' = [tracker EXCEPT !.mempoolReconverged = ok]
    BY <1>9 DEF PassEnds
  <2>2. /\ tracker' \in Flags /\ tracker'.halted = tracker.halted
        /\ tracker'.parsingAborted = tracker.parsingAborted /\ tracker'.parsingStopped = tracker.parsingStopped
    BY <1>1, <2>1 DEF Flags
  <2>3. PausedIsOver' /\ WipedIsExtracting'
    BY <2>1 DEF IInv, PausedIsOver, WipedIsExtracting
  <2>4. SeenShape(seen') /\ seen'.blind = seen.blind
    BY <1>1, <1>9 DEF PassEnds, SeenShape
  <2> QED
    BY <1>1, <2>1, <2>2, <2>3, <2>4, StillIInv
<1> QED
  BY <1>2, <1>3, <1>4, <1>5, <1>6, <1>7, <1>8, <1>9 DEF Next

LEMMA SpecIInv == ASSUME OperatorWaits PROVE Spec => []IInv
  BY InitIInv, NextIInv, PTL DEF Spec

\* No handle on the store is open while a snapshot reads its directory, a
\* restore replaces it, or a restore has left it half written, for any number of
\* launches, as long as the operator asks for nothing during a start
\* (stopParsing, decompressPigzInner, handleRestoreFailure).
THEOREM StoreReleased == ASSUME OperatorWaits PROVE Spec => []StoreIsReleased
<1>1. IInv => StoreIsReleased
  BY DEF IInv, StoreIsReleased, PausedIsOver, WipedIsExtracting, Owning
<1> QED
  BY <1>1, SpecIInv, PTL

\* A launch past its reading of the halt marker reports the halt of its store,
\* over halts, snapshots, restores and restarts (resumeHaltFromMarker,
\* clearHalt, haltForResync).
THEOREM HaltReported == ASSUME OperatorWaits PROVE Spec => []HaltIsReported
<1>1. IInv => HaltIsReported
  BY NewestLaunch DEF IInv, HaltIsReported, HaltTaken
<1> QED
  BY <1>1, SpecIInv, PTL

-----------------------------------------------------------------------------
(***************************************************************************)
(* Types, for operators who ask at any time.                               *)
(***************************************************************************)
\* The archive being written exists, and an operation under way has a launch
\* to end with: beginAdminOperation is what keeps the relaunch within bounds.
TypeInv ==
    /\ disk \in DiskType /\ snapshot \in Archives /\ admin \in AdminType
    /\ admin.phase \in {"packing", "sealing"} => snapshot.bytes \in Bytes
    /\ up \in BOOLEAN /\ launches \in 0 .. MaxLaunch
    /\ up <=> launches # 0
    /\ admin.phase # "none" => up /\ launches < MaxLaunch
    /\ tracker \in Flags
    /\ loop \in [Launch -> Places] /\ open \subseteq Launch
    /\ drain \in {"none", "waiting", "closed"}
    /\ pass \in 0 .. MaxLaunch
    /\ seen \in [blind : BOOLEAN, mirrored : 0 .. MaxLaunch]

LEMMA FreshIsTyped ==
    /\ FreshTracker \in Flags
    /\ Unlaunched \in [Launch -> Places]
    /\ NothingSeen \in [blind : BOOLEAN, mirrored : 0 .. MaxLaunch]
    /\ MaxLaunch \in Nat \ {0}
<1>1. FreshTracker \in Flags
  BY DEF FreshTracker, Flags
<1>2. Unlaunched \in [Launch -> Places]
  BY DEF Unlaunched, Places
<1>3. MaxLaunch \in Nat \ {0}
  BY LifecycleAssumption
<1>4. NothingSeen \in [blind : BOOLEAN, mirrored : 0 .. MaxLaunch]
  BY <1>3 DEF NothingSeen
<1> QED
  BY <1>1, <1>2, <1>3, <1>4

LEMMA InitTypeInv == Init => TypeInv
<1> SUFFICES ASSUME Init PROVE TypeInv
  OBVIOUS
<1>1. disk \in DiskType /\ snapshot \in Archives
  BY DEF Init, DiskType, NoArchive, Archives
<1>2. up \in BOOLEAN /\ (up <=> launches # 0) /\ launches = 0
  BY DEF Init
<1> QED
  BY <1>1, <1>2, NoAdminType, FreshIsTyped DEF Init, TypeInv

LEMMA ExitTypeInv == ASSUME TypeInv, Exit PROVE TypeInv'
<1>1. up' \in BOOLEAN /\ (up' <=> launches' # 0) /\ launches' = 0
  BY DEF Exit
<1> QED
  BY <1>1, NoAdminType, FreshIsTyped DEF Exit, TypeInv

\* Steps that leave the process, its launches and the volumes alone.
LEMMA StillTypeInv ==
    ASSUME TypeInv, disk' \in DiskType, UNCHANGED <<snapshot, up, launches>>,
           admin' = admin \/ admin' = NoAdmin,
           tracker' \in Flags, loop' \in [Launch -> Places], open' \subseteq Launch,
           drain' \in {"none", "waiting", "closed"}, pass' \in 0 .. MaxLaunch,
           seen' \in [blind : BOOLEAN, mirrored : 0 .. MaxLaunch]
    PROVE  TypeInv'
<1>1. CASE admin' = admin
  BY <1>1 DEF TypeInv
<1>2. CASE admin' = NoAdmin
  BY <1>2, NoAdminType DEF TypeInv
<1> QED
  BY <1>1, <1>2

\* launchTracker at boot and at the end of an operation.
LEMMA RelaunchTypeInv ==
    ASSUME TypeInv, launches < MaxLaunch, Relaunch, up', admin' = NoAdmin,
           disk' \in DiskType, snapshot' \in Archives, tracker' \in Flags,
           UNCHANGED <<open, drain, pass, seen>>
    PROVE  TypeInv'
<1>1. launches \in Nat /\ MaxLaunch \in Nat
  BY FreshIsTyped DEF TypeInv
<1>2. launches' = launches + 1 /\ loop' = [loop EXCEPT ![launches + 1] = "opening"]
  BY DEF Relaunch
<1>3. launches' \in 0 .. MaxLaunch /\ launches' # 0
  BY <1>1, <1>2
<1>4. loop' \in [Launch -> Places]
  BY <1>2 DEF TypeInv, Places, Running, Starting
<1>5. up' \in BOOLEAN /\ (up' <=> launches' # 0)
  BY <1>3
<1> QED
  BY <1>3, <1>4, <1>5, NoAdminType DEF TypeInv

LEMMA LoopTypeInv ==
    ASSUME TypeInv, NEW i \in Launch,
           LoopStep(i) \/ ArmPoller(i) \/ DropPoller(i) \/ PollHalts(i) \/ LoopFails(i)
    PROVE  TypeInv'
<1>1. CASE LoopFails(i)
  BY <1>1, ExitTypeInv DEF LoopFails
<1>2. CASE ~LoopFails(i)
  <2>1. UNCHANGED <<snapshot, up, launches, admin, drain, pass>>
    BY <1>2 DEF LoopStep, Open, ReadMarker, BeginLoop, HaltWrite, TakeElse, CloseDone, ArmPoller, DropPoller, PollHalts
  <2>2. disk' \in DiskType
    <3>1. CASE HaltWrite(i)
      BY <3>1 DEF HaltWrite, TypeInv, DiskType
    <3>2. CASE ~HaltWrite(i)
      BY <1>2, <3>2 DEF LoopStep, Open, ReadMarker, BeginLoop, TakeElse, CloseDone, ArmPoller, DropPoller, PollHalts, TypeInv
    <3> QED
      BY <3>1, <3>2
  <2>3. tracker' \in Flags
    <3>1. tracker \in Flags
      BY DEF TypeInv
    <3>2. Halted(tracker) \in Flags /\ Stopping(tracker) \in Flags
      BY <3>1 DEF Halted, Stopping, Flags
    <3>3. /\ [tracker EXCEPT !.keepParsing = TRUE, !.parsingStopped = FALSE,
                             !.parsingAborted = FALSE, !.mempoolReconverged = FALSE] \in Flags
          /\ [tracker EXCEPT !.poller = TRUE] \in Flags
          /\ [tracker EXCEPT !.poller = FALSE, !.mempoolReconverged = FALSE] \in Flags
          /\ [tracker EXCEPT !.parsingStopped = TRUE] \in Flags
      BY <3>1 DEF Flags
    <3>4. CASE ReadMarker(i)
      BY <3>1, <3>2, <3>4 DEF ReadMarker, ResumeHalted
    <3>5. CASE ~ReadMarker(i)
      BY <1>2, <3>1, <3>2, <3>3, <3>5 DEF LoopStep, Open, BeginLoop, HaltWrite, TakeElse, CloseDone,
                                          ArmPoller, DropPoller, PollHalts
    <3> QED
      BY <3>4, <3>5
  <2>4. loop' \in [Launch -> Places]
    <3>1. loop \in [Launch -> Places]
      BY DEF TypeInv
    <3>2. loop' = loop \/ \E p \in Places : loop' = [loop EXCEPT ![i] = p]
      BY <1>2 DEF LoopStep, Open, ReadMarker, BeginLoop, HaltWrite, TakeElse, CloseDone, ArmPoller, DropPoller,
                  PollHalts, Places, Running, Starting, Settled
    <3> QED
      BY <3>1, <3>2
  <2>5. open' \subseteq Launch
    BY <1>2 DEF LoopStep, Open, ReadMarker, BeginLoop, HaltWrite, TakeElse, CloseDone, ArmPoller, DropPoller,
                PollHalts, TypeInv
  <2>6. seen' \in [blind : BOOLEAN, mirrored : 0 .. MaxLaunch]
    <3>1. \A b \in BOOLEAN : [seen EXCEPT !.blind = b] \in [blind : BOOLEAN, mirrored : 0 .. MaxLaunch]
      BY DEF TypeInv
    <3>2. CASE ReadMarker(i)
      <4>1. PICK b \in BOOLEAN : seen' = [seen EXCEPT !.blind = b]
        BY <3>2, Zenon DEF ReadMarker
      <4> QED
        BY <3>1, <4>1
    <3>3. CASE ~ReadMarker(i)
      <4>1. seen' = seen
        BY <1>2, <3>3 DEF LoopStep, Open, BeginLoop, HaltWrite, TakeElse, CloseDone, ArmPoller, DropPoller, PollHalts
      <4> QED
        BY <4>1 DEF TypeInv
    <3> QED
      BY <3>2, <3>3
  <2>7. drain' \in {"none", "waiting", "closed"} /\ pass' \in 0 .. MaxLaunch
    BY <2>1 DEF TypeInv
  <2> QED
    BY <2>1, <2>2, <2>3, <2>4, <2>5, <2>6, <2>7, StillTypeInv
<1> QED
  BY <1>1, <1>2

LEMMA RequestTypeInv ==
    ASSUME TypeInv,
           AdminRequest(FALSE, None) \/ \E a \in Published \cup Snapshots : AdminRequest(TRUE, a)
    PROVE  TypeInv'
<1>1. PICK r \in BOOLEAN, a \in Archives \cup {None} : AdminRequest(r, a)
  <2>1. Published \subseteq Archives
    BY LifecycleAssumption
  <2>2. Snapshots \subseteq Archives
    BY DEF Snapshots, TypeInv
  <2> QED
    BY <2>1, <2>2
<1>2. /\ UNCHANGED <<disk, snapshot, up, launches, loop, open, drain, pass, seen>>
      /\ up /\ launches < MaxLaunch
      /\ tracker' = [tracker EXCEPT !.keepParsing = FALSE, !.poller = FALSE]
  BY <1>1 DEF AdminRequest
<1>3. PICK p \in {"aborting", "waiting"} : admin' = [phase |-> p, restore |-> r, source |-> a]
  BY <1>1, Zenon DEF AdminRequest
<1>4. admin' \in AdminType /\ admin'.phase \in {"aborting", "waiting"}
  BY <1>3 DEF AdminType, Phases
<1>5. tracker' \in Flags
  BY <1>2 DEF TypeInv, Flags
<1> QED
  BY <1>2, <1>4, <1>5 DEF TypeInv

LEMMA AdminTypeInv == ASSUME TypeInv, AdminStep PROVE TypeInv'
<1>1. /\ disk \in DiskType /\ admin \in AdminType /\ snapshot \in Archives /\ tracker \in Flags
      /\ open \subseteq Launch
  BY DEF TypeInv
<1>2. /\ [tracker EXCEPT !.parsingStopped = TRUE] \in Flags
      /\ [tracker EXCEPT !.keepParsing = TRUE, !.poller = TRUE] \in Flags
      /\ [tracker EXCEPT !.halted = FALSE] \in Flags
  BY <1>1 DEF Flags
<1>3. ASSUME NEW p \in Owning, admin' = [admin EXCEPT !.phase = p], admin.phase # "none",
             disk' \in DiskType, snapshot' \in Archives,
             p \in {"packing", "sealing"} => snapshot'.bytes \in Bytes,
             tracker' \in Flags, open' \subseteq Launch,
             UNCHANGED <<up, launches, loop, drain, pass, seen>>
      PROVE  TypeInv'
  <2>1. admin' \in AdminType /\ admin'.phase = p
    BY <1>1, <1>3 DEF AdminType, Phases
  <2> QED
    BY <1>3, <2>1 DEF TypeInv
<1>4. CASE AdminClosesAborted \/ AdminStopped
  <2>1. /\ Paused /\ admin.phase # "none"
        /\ UNCHANGED <<disk, snapshot, up, launches, loop, drain, pass, seen>>
    BY <1>4 DEF AdminClosesAborted, AdminStopped
  <2>2. tracker' \in Flags /\ open' \subseteq Launch
    BY <1>1, <1>2, <1>4 DEF AdminClosesAborted, AdminStopped
  <2>3. PICK p \in {"validating", "measuring"} : admin' = [admin EXCEPT !.phase = p]
    BY <2>1 DEF Paused
  <2> QED
    BY <1>1, <1>3, <2>1, <2>2, <2>3 DEF Owning
<1>5. CASE AdminCloseFails \/ AdminGivesUp
  <2>1. tracker' \in Flags /\ admin' = NoAdmin
        /\ UNCHANGED <<disk, snapshot, up, launches, loop, open, drain, pass, seen>>
    BY <1>1, <1>2, <1>5 DEF AdminCloseFails, AdminGivesUp
  <2> QED
    BY <2>1, StillTypeInv DEF TypeInv
<1>6. CASE PackBegins
  <2> DEFINE b == [layout |-> "store", root |-> TRUE, whole |-> FALSE,
                   meta |-> "undeclared", marker |-> disk.marker]
  <2>1. /\ snapshot' = [snapshot EXCEPT !.bytes = b] /\ admin' = [admin EXCEPT !.phase = "packing"]
        /\ admin.phase = "measuring"
        /\ UNCHANGED <<disk, up, tracker, launches, loop, open, drain, pass, seen>>
    BY <1>6 DEF PackBegins
  <2>2. b \in Bytes
    BY <1>1 DEF DiskType, Bytes
  <2> HIDE DEF b
  <2>3. snapshot' \in Archives /\ snapshot'.bytes \in Bytes
    BY <1>1, <2>1, <2>2 DEF Archives
  <2>4. "packing" \in Owning
    BY DEF Owning
  <2> QED
    BY <1>1, <1>3, <2>1, <2>3, <2>4
<1>7. CASE PackFlushed
  <2>1. /\ snapshot' = [snapshot EXCEPT !.bytes.whole = TRUE] /\ admin' = [admin EXCEPT !.phase = "sealing"]
        /\ admin.phase = "packing" /\ snapshot.bytes \in Bytes
        /\ UNCHANGED <<disk, up, tracker, launches, loop, open, drain, pass, seen>>
    BY <1>7 DEF PackFlushed, TypeInv
  <2>2. [snapshot.bytes EXCEPT !.whole = TRUE] \in Bytes
    BY <2>1 DEF Bytes
  <2>3. snapshot' = [snapshot EXCEPT !.bytes = [snapshot.bytes EXCEPT !.whole = TRUE]]
    BY <2>1
  <2>4. snapshot' \in Archives /\ snapshot'.bytes \in Bytes
    BY <1>1, <2>2, <2>3 DEF Archives
  <2>5. "sealing" \in Owning
    BY DEF Owning
  <2> QED
    BY <1>1, <1>3, <2>1, <2>4, <2>5
<1>8. CASE PackEnds \/ PackFails \/ ValidationFails \/ ExtractEnds
  <2>1. /\ admin.phase # "none" /\ admin' = NoAdmin /\ Relaunch
        /\ UNCHANGED <<up, open, drain, pass, seen>>
    BY <1>8 DEF PackEnds, PackFails, ResumeIndexing, ValidationFails, ExtractEnds
  <2>2. up' /\ launches < MaxLaunch
    BY <2>1 DEF TypeInv
  <2>3. tracker' \in Flags
    BY <1>1, <1>2, <1>8 DEF PackEnds, PackFails, ValidationFails, ExtractEnds
  <2>4. snapshot' \in Archives
    <3>1. CASE PackEnds
      <4>1. snapshot' = [snapshot EXCEPT !.sidecar = snapshot.bytes] /\ snapshot.bytes \in Bytes
        BY <3>1 DEF PackEnds, TypeInv
      <4> QED
        BY <1>1, <4>1 DEF Archives
    <3>2. CASE PackFails \/ ValidationFails \/ ExtractEnds
      BY <1>1, <3>2 DEF PackFails, ValidationFails, ExtractEnds
    <3> QED
      BY <1>8, <3>1, <3>2
  <2>5. disk' \in DiskType
    <3>1. CASE ExtractEnds
      <4> DEFINE m == admin.source.bytes.marker /\ launches \notin open
      <4>1. disk' = [marker |-> m, wiped |-> FALSE]
        BY <3>1 DEF ExtractEnds
      <4>2. m \in BOOLEAN
        BY Zenon
      <4> HIDE DEF m
      <4> QED
        BY <4>1, <4>2 DEF DiskType
    <3>2. CASE PackEnds \/ PackFails \/ ValidationFails
      BY <1>1, <3>2 DEF PackEnds, PackFails, ValidationFails
    <3> QED
      BY <1>8, <3>1, <3>2
  <2> QED
    BY <2>1, <2>2, <2>3, <2>4, <2>5, RelaunchTypeInv
<1>9. CASE Wipe
  <2>1. /\ admin' = [admin EXCEPT !.phase = "extracting"] /\ admin.phase = "validating"
        /\ disk' \in DiskType
        /\ UNCHANGED <<snapshot, up, tracker, launches, loop, open, drain, pass, seen>>
    BY <1>9 DEF Wipe, DiskType
  <2>2. "extracting" \in Owning
    BY DEF Owning
  <2> QED
    BY <1>1, <1>3, <2>1, <2>2
<1>10. CASE ExtractFails
  BY <1>10, ExitTypeInv DEF ExtractFails, PostWipeFailure
<1> QED
  BY <1>4, <1>5, <1>6, <1>7, <1>8, <1>9, <1>10 DEF AdminStep

LEMMA NextTypeInv == TypeInv /\ [Next]_vars => TypeInv'
<1> SUFFICES ASSUME TypeInv, [Next]_vars PROVE TypeInv'
  OBVIOUS
<1>1. CASE UNCHANGED vars
  BY <1>1 DEF vars, process, TypeInv
<1>2. CASE Boot
  <2>1. disk' \in DiskType
    <3>1. disk' = [disk EXCEPT !.wiped = FALSE] \/ disk' = [marker |-> FALSE, wiped |-> FALSE]
      BY <1>2 DEF Boot
    <3>2. [disk EXCEPT !.wiped = FALSE] \in DiskType /\ [marker |-> FALSE, wiped |-> FALSE] \in DiskType
      BY DEF TypeInv, DiskType
    <3> QED
      BY <3>1, <3>2
  <2>2. ~up /\ up' /\ Relaunch /\ UNCHANGED <<snapshot, tracker, open, admin, drain, pass, seen>>
    BY <1>2 DEF Boot
  <2>3. launches = 0 /\ admin.phase = "none"
    BY <2>2 DEF TypeInv
  <2>4. launches' = 1 /\ loop' = [loop EXCEPT ![1] = "opening"] /\ MaxLaunch \in Nat \ {0}
    BY <2>2, <2>3, FreshIsTyped DEF Relaunch
  <2>5. launches' \in 0 .. MaxLaunch /\ loop' \in [Launch -> Places]
    <3>1. launches' \in 0 .. MaxLaunch
      BY <2>4
    <3>2. "opening" \in Places
      BY DEF Places, Running, Starting
    <3> QED
      BY <2>4, <3>1, <3>2 DEF TypeInv
  <2>6. up' \in BOOLEAN /\ (up' <=> launches' # 0)
    BY <2>2, <2>4
  <2> QED
    BY <2>1, <2>2, <2>3, <2>5, <2>6 DEF TypeInv
<1>3. ASSUME NEW i \in Launch,
             LoopStep(i) \/ ArmPoller(i) \/ DropPoller(i) \/ PollHalts(i) \/ LoopFails(i)
      PROVE  TypeInv'
  BY <1>3, LoopTypeInv
<1>4. CASE AdminRequest(FALSE, None) \/ \E a \in Published \cup Snapshots : AdminRequest(TRUE, a)
  BY <1>4, RequestTypeInv
<1>5. CASE AdminStep
  BY <1>5, AdminTypeInv
<1>6. CASE Signal \/ DrainCloses
  <2>1. /\ UNCHANGED <<disk, snapshot, up, launches, loop, admin, pass, seen>>
        /\ drain' \in {"none", "waiting", "closed"}
        /\ tracker' = tracker \/ tracker' = [tracker EXCEPT !.keepParsing = FALSE, !.poller = FALSE]
        /\ open' \subseteq open
    BY <1>6 DEF Signal, DrainCloses
  <2>2. tracker' \in Flags /\ open' \subseteq Launch
    BY <2>1 DEF TypeInv, Flags
  <2> QED
    BY <2>1, <2>2, StillTypeInv DEF TypeInv
<1>7. CASE ExitClean \/ HardExit \/ Kill
  BY <1>7, ExitTypeInv DEF ExitClean, HardExit, Kill
<1>8. CASE PassStarts \/ PassUnlisted \/ \E ok \in BOOLEAN : PassEnds(ok)
  <2>1. /\ UNCHANGED <<disk, snapshot, up, launches, loop, open, admin, drain>>
        /\ pass' \in {0, launches}
        /\ tracker' = tracker \/ \E ok \in BOOLEAN : tracker' = [tracker EXCEPT !.mempoolReconverged = ok]
        /\ seen' = seen \/ seen' = [seen EXCEPT !.mirrored = pass]
    BY <1>8 DEF PassStarts, PassUnlisted, PassEnds
  <2>2. tracker' \in Flags
    BY <2>1 DEF TypeInv, Flags
  <2>3. seen' \in [blind : BOOLEAN, mirrored : 0 .. MaxLaunch]
    BY <2>1 DEF TypeInv
  <2>4. pass' \in 0 .. MaxLaunch
    BY <2>1, FreshIsTyped DEF TypeInv
  <2> QED
    BY <2>1, <2>2, <2>3, <2>4, StillTypeInv DEF TypeInv
<1> QED
  BY <1>1, <1>2, <1>3, <1>4, <1>5, <1>6, <1>7, <1>8 DEF Next

\* Every reachable state of the process and its volumes is well typed, also
\* when operators ask during a start: the guard leaves every operation a launch
\* to end with, and a snapshot is sealed only after it was begun
\* (beginAdminOperation, launchTracker, finishSnapshot).
THEOREM TypeCorrect == Spec => []TypeOK
<1>1. Flags \subseteq [DOMAIN FreshTracker -> BOOLEAN]
  BY DEF Flags, FreshTracker
<1>2. TypeInv => TypeOK
  BY <1>1 DEF TypeInv, TypeOK, DiskType, AdminType, Phases, Places
<1> QED
  BY <1>2, InitTypeInv, NextTypeInv, PTL DEF Spec
=============================================================================
