------------------------------ MODULE Lifecycle ------------------------------
(***************************************************************************)
(* The life of one tracker process around its sync loop: launches,         *)
(* the persisted halt, the pause for a snapshot or a restore, the relaunch *)
(* that follows, SIGTERM's drain, crashes and restarts.                    *)
(*                                                                         *)
(* Everything runs in one JavaScript process: a step is what happens       *)
(* between two awaits.  start() is launched once per process and again     *)
(* after every snapshot and restore; launch number `launches' is the one   *)
(* whose store handle this.db is.  The pieces share the flags of one       *)
(* tracker object and nothing else.                                        *)
(***************************************************************************)
EXTENDS Naturals, FiniteSets, RestoreArchive

CONSTANTS
    MaxLaunch,      \* bound on the launches of one process
    OperatorWaits,  \* snapshots and restores are not asked for during a start
    Published       \* archives of the volume that this tracker did not write

ASSUME LifecycleAssumption ==
    /\ MaxLaunch \in Nat \ {0}
    /\ OperatorWaits \in BOOLEAN
    /\ Published \subseteq Archives

Launch == 1 .. MaxLaunch

VARIABLES
    disk,      \* the store at /data: its halt marker, and whether a restore
               \* has wiped it and not finished
    snapshot,  \* the archive getbootstrap writes, on the bootstrap volume
    up,        \* the process runs
    tracker,   \* the flags of the tracker object
    launches,  \* number of the newest launch: this.db is its handle
    loop,      \* where each launch is
    open,      \* store handles that are open, by launch
    admin,     \* the snapshot or restore in progress: guard.busy
    drain,     \* the shutdown drain
    pass,      \* the mempool pass in flight: the launch whose mempool store it
               \* began with, 0 for none (this.mempoolBusy)
    seen       \* auxiliary: the marker could not be read at this launch; the
               \* mempool store that the last finished pass mirrored

process == <<up, tracker, launches, loop, open, admin, drain, pass, seen>>
vars    == <<disk, snapshot, process>>

-----------------------------------------------------------------------------
FreshTracker ==
    [keepParsing |-> TRUE, parsingStopped |-> FALSE, parsingAborted |-> FALSE,
     halted |-> FALSE, poller |-> FALSE, mempoolReconverged |-> FALSE]

NoAdmin  == [phase |-> "none", restore |-> FALSE, source |-> None]
Starting == {"opening", "opened", "loading"}
Running  == Starting \cup {"polling", "closing"}
Settled  == {"ended", "halted"}

\* The pause is over and the operation owns the store's directory.
Owning == {"measuring", "packing", "sealing", "validating", "extracting"}

NoArchive == [bytes |-> None, sig |-> None, sidecar |-> None]

TypeOK ==
    /\ disk \in [marker : BOOLEAN, wiped : BOOLEAN]
    /\ snapshot \in Archives
    /\ up \in BOOLEAN
    /\ tracker \in [DOMAIN FreshTracker -> BOOLEAN]
    /\ launches \in 0 .. MaxLaunch
    /\ loop \in [Launch -> Running \cup Settled \cup {"none", "halting"}]
    /\ open \subseteq Launch
    /\ admin \in [phase : Owning \cup {"none", "waiting", "aborting"},
                  restore : BOOLEAN, source : Archives \cup {None}]
    /\ drain \in {"none", "waiting", "closed"}
    /\ pass \in 0 .. MaxLaunch
    /\ seen \in [blind : BOOLEAN, mirrored : 0 .. MaxLaunch]

Unlaunched == [i \in Launch |-> "none"]
NothingSeen == [blind |-> FALSE, mirrored |-> 0]

Init ==
    /\ disk = [marker |-> FALSE, wiped |-> FALSE]
    /\ snapshot = NoArchive
    /\ up = FALSE /\ tracker = FreshTracker
    /\ launches = 0 /\ loop = Unlaunched /\ open = {}
    /\ admin = NoAdmin /\ drain = "none" /\ pass = 0 /\ seen = NothingSeen

-----------------------------------------------------------------------------
\* process.exit, a crash or SIGKILL: only the two volumes survive.
Exit ==
    /\ up' = FALSE /\ tracker' = FreshTracker
    /\ launches' = 0 /\ loop' = Unlaunched /\ open' = {}
    /\ admin' = NoAdmin /\ drain' = "none" /\ pass' = 0 /\ seen' = NothingSeen
    /\ UNCHANGED <<disk, snapshot>>

\* launchTracker: start() begins with a new store object as this.db.
Relaunch ==
    /\ launches' = launches + 1
    /\ loop' = [loop EXCEPT ![launches + 1] = "opening"]

\* The entry of api.js.  What a restore that was cut short left is opened as a
\* new, empty store or as it stands (or not at all: the process stays down).
Boot ==
    /\ ~up
    /\ up' = TRUE
    /\ Relaunch
    /\ disk' \in {[disk EXCEPT !.wiped = FALSE]}
                   \cup (IF disk.wiped THEN {[marker |-> FALSE, wiped |-> FALSE]} ELSE {})
    /\ UNCHANGED <<snapshot, tracker, open, admin, drain, pass, seen>>

\* enterHaltedState
Halted(t) ==
    [t EXCEPT !.halted = TRUE, !.parsingAborted = TRUE, !.parsingStopped = FALSE,
              !.poller = FALSE, !.mempoolReconverged = FALSE]

-----------------------------------------------------------------------------
(***************************************************************************)
(* start().                                                                *)
(***************************************************************************)
\* createDatabase: LevelDB's LOCK lets one handle be open at a time.
Open(i) ==
    /\ loop[i] = "opening" /\ open = {}
    /\ open' = {i}
    /\ loop' = [loop EXCEPT ![i] = "opened"]
    /\ UNCHANGED <<disk, snapshot, up, tracker, launches, admin, drain, pass, seen>>

\* Mutant: the halt is logged and start() returns, the state is not taken.
HaltedUnseen(t) == t

\* resumeHaltFromMarker takes the halted state.
ResumeHalted(t) == Halted(t)

\* resumeHaltFromMarker.  A marker that cannot be read boots as usual.
ReadMarker(i) ==
    /\ loop[i] = "opened" /\ launches \in open
    /\ \E readable \in BOOLEAN :
          IF readable /\ disk.marker
          THEN /\ tracker' = ResumeHalted(tracker)
               /\ loop' = [loop EXCEPT ![i] = "halted"]
               /\ seen' = [seen EXCEPT !.blind = FALSE]
          ELSE /\ loop' = [loop EXCEPT ![i] = "loading"]
               /\ seen' = [seen EXCEPT !.blind = ~readable]
               /\ UNCHANGED tracker
    /\ UNCHANGED <<disk, snapshot, up, launches, open, admin, drain, pass>>

\* loadSyncCursor and newSyncLoopState, then the flags of a running loop.
BeginLoop(i) ==
    /\ loop[i] = "loading" /\ launches \in open
    /\ tracker' = [tracker EXCEPT !.keepParsing = TRUE, !.parsingStopped = FALSE,
                                  !.parsingAborted = FALSE, !.mempoolReconverged = FALSE]
    /\ loop' = [loop EXCEPT ![i] = "polling"]
    /\ UNCHANGED <<disk, snapshot, up, launches, open, admin, drain, pass, seen>>

\* A poll at the tip arms the mempool timer.
ArmPoller(i) ==
    /\ loop[i] = "polling" /\ ~tracker.poller
    /\ tracker' = [tracker EXCEPT !.poller = TRUE]
    /\ UNCHANGED <<disk, snapshot, up, launches, loop, open, admin, drain, pass, seen>>

\* indexNextBlock far from the tip stops the timer and drops readiness.
DropPoller(i) ==
    /\ loop[i] = "polling" /\ tracker.poller
    /\ tracker' = [tracker EXCEPT !.poller = FALSE, !.mempoolReconverged = FALSE]
    /\ UNCHANGED <<disk, snapshot, up, launches, loop, open, admin, drain, pass, seen>>

\* A poll ends in an unrecoverable reorganisation: launchTracker's guard calls
\* haltForResync, which takes the state at once and then writes the marker.
PollHalts(i) ==
    /\ loop[i] = "polling"
    /\ tracker' = Halted(tracker)
    /\ loop' = [loop EXCEPT ![i] = "halting"]
    /\ UNCHANGED <<disk, snapshot, up, launches, open, admin, drain, pass, seen>>

\* persistHaltMarker, on the store the loop ran on; one that is closed, or
\* fails, takes no marker.
HaltWrite(i) ==
    /\ loop[i] = "halting"
    /\ disk' \in {disk} \cup (IF i \in open THEN {[disk EXCEPT !.marker = TRUE]} ELSE {})
    /\ loop' = [loop EXCEPT ![i] = "halted"]
    /\ UNCHANGED <<snapshot, up, tracker, launches, open, admin, drain, pass, seen>>

\* Mutant: the stop is announced before the store is closed.
StoppedEarly(t) ==
    [t EXCEPT !.poller = FALSE, !.mempoolReconverged = FALSE, !.parsingStopped = TRUE]

\* The else branch up to its await: timer and readiness go.
Stopping(t) == [t EXCEPT !.poller = FALSE, !.mempoolReconverged = FALSE]

\* The loop's check finds keepParsing false.
TakeElse(i) ==
    /\ loop[i] = "polling" /\ ~tracker.keepParsing
    /\ tracker' = Stopping(tracker)
    /\ loop' = [loop EXCEPT ![i] = "closing"]
    /\ UNCHANGED <<disk, snapshot, up, launches, open, admin, drain, pass, seen>>

\* The store is closed; the loop says so and start() resolves.
CloseDone(i) ==
    /\ loop[i] = "closing"
    /\ open' = open \ {launches}
    /\ tracker' = [tracker EXCEPT !.parsingStopped = TRUE]
    /\ loop' = [loop EXCEPT ![i] = "ended"]
    /\ UNCHANGED <<disk, snapshot, up, launches, admin, drain, pass, seen>>

\* Any other error of start(): CRASH record and exit(1).  A launch that finds
\* the store locked, or its handle closed under it, has no other way to go on.
LoopFails(i) == loop[i] \in Running /\ Exit

-----------------------------------------------------------------------------
(***************************************************************************)
(* getbootstrap and restorebootstrap.                                      *)
(***************************************************************************)
Idle == admin.phase = "none"

Snapshots == IF snapshot.bytes = None THEN {} ELSE {snapshot}

\* beginAdminOperation up to its first await inside stopParsing.
AdminRequest(restore, source) ==
    /\ up /\ drain = "none" /\ Idle
    /\ launches < MaxLaunch
    /\ OperatorWaits => \A i \in Launch : loop[i] \notin Starting
    /\ tracker' = [tracker EXCEPT !.keepParsing = FALSE, !.poller = FALSE]
    /\ admin' = [phase |-> IF tracker.parsingAborted /\ ~tracker.parsingStopped
                           THEN "aborting" ELSE "waiting",
                 restore |-> restore, source |-> source]
    /\ UNCHANGED <<disk, snapshot, up, launches, loop, open, drain, pass, seen>>

Paused == admin' = [admin EXCEPT !.phase = IF admin.restore THEN "validating" ELSE "measuring"]

\* stopParsing on a halted tracker closes the store itself.
AdminClosesAborted ==
    /\ admin.phase = "aborting"
    /\ open' = open \ {launches}
    /\ tracker' = [tracker EXCEPT !.parsingStopped = TRUE]
    /\ Paused
    /\ UNCHANGED <<disk, snapshot, up, launches, loop, drain, pass, seen>>

\* That close fails: the request is refused and the guard released.
AdminCloseFails ==
    /\ admin.phase = "aborting"
    /\ admin' = NoAdmin
    /\ UNCHANGED <<disk, snapshot, up, tracker, launches, loop, open, drain, pass, seen>>

\* stopParsing sees the loop stopped.
AdminStopped ==
    /\ admin.phase = "waiting" /\ tracker.parsingStopped
    /\ Paused
    /\ UNCHANGED <<disk, snapshot, up, tracker, launches, loop, open, drain, pass, seen>>

\* Ten one-second waits have passed: the request is refused, parsing resumed.
AdminGivesUp ==
    /\ admin.phase = "waiting" /\ ~tracker.parsingStopped
    /\ tracker' = [tracker EXCEPT !.keepParsing = TRUE, !.poller = TRUE]
    /\ admin' = NoAdmin
    /\ UNCHANGED <<disk, snapshot, up, launches, loop, open, drain, pass, seen>>

\* The size is known; opening the output truncates the previous snapshot.
PackBegins ==
    /\ admin.phase = "measuring"
    /\ admin' = [admin EXCEPT !.phase = "packing"]
    /\ snapshot' = [snapshot EXCEPT !.bytes =
          [layout |-> "store", root |-> TRUE, whole |-> FALSE,
           meta |-> "undeclared", marker |-> disk.marker]]
    /\ UNCHANGED <<disk, up, tracker, launches, loop, open, drain, pass, seen>>

\* tar, pv and pigz are done and the output is flushed; the sidecar is next.
PackFlushed ==
    /\ admin.phase = "packing"
    /\ admin' = [admin EXCEPT !.phase = "sealing"]
    /\ snapshot' = [snapshot EXCEPT !.bytes.whole = TRUE]
    /\ UNCHANGED <<disk, up, tracker, launches, loop, open, drain, pass, seen>>

\* finishSnapshot has hashed the file and written the sidecar; indexing goes on.
PackEnds ==
    /\ admin.phase = "sealing"
    /\ snapshot' = [snapshot EXCEPT !.sidecar = snapshot.bytes]
    /\ admin' = NoAdmin
    /\ Relaunch
    /\ UNCHANGED <<disk, up, tracker, open, drain, pass, seen>>

\* Mutant: a failed snapshot leaves the tracker paused.
StaysPaused == UNCHANGED <<launches, loop>>

\* handleBootstrapFailure: the store is untouched, indexing goes on.
ResumeIndexing == Relaunch

PackFails ==
    /\ admin.phase \in {"measuring", "packing", "sealing"}
    /\ admin' = NoAdmin
    /\ ResumeIndexing
    /\ UNCHANGED <<disk, snapshot, up, tracker, open, drain, pass, seen>>

\* The archive is refused, or cannot be read, before anything is deleted.
ValidationFails ==
    /\ admin.phase = "validating"
    /\ admin' = NoAdmin
    /\ Relaunch
    /\ UNCHANGED <<disk, snapshot, up, tracker, open, drain, pass, seen>>

\* deleteFilesInDirectorySync, in the same turn as the last gate's verdict.
Wipe ==
    /\ admin.phase = "validating" /\ ArchiveAccepted(admin.source)
    /\ admin' = [admin EXCEPT !.phase = "extracting"]
    /\ disk' = [marker |-> FALSE, wiped |-> TRUE]
    /\ UNCHANGED <<snapshot, up, tracker, launches, loop, open, drain, pass, seen>>

\* handleRestoreFailure after the wipe fails loud.
PostWipeFailure == Exit

\* The store cannot be deleted or unpacked whole, or does not end up at the
\* root of the directory.
ExtractFails == admin.phase = "extracting" /\ PostWipeFailure

\* The archive's store is in place.  clearHalt drops the halt, and the marker
\* of whatever store this.db still has open (none, on this path); start()
\* reads the marker that came with the archive.
ExtractEnds ==
    /\ admin.phase = "extracting" /\ Extractable(admin.source)
    /\ disk' = [marker |-> admin.source.bytes.marker /\ launches \notin open, wiped |-> FALSE]
    /\ tracker' = [tracker EXCEPT !.halted = FALSE]
    /\ admin' = NoAdmin
    /\ Relaunch
    /\ UNCHANGED <<snapshot, up, open, drain, pass, seen>>

-----------------------------------------------------------------------------
(***************************************************************************)
(* SIGTERM.  The drain waits for the promise of the FIRST launch and for   *)
(* requests being served (a request that is pausing the tracker is one; a  *)
(* snapshot or restore under way is not), then closes this.db.             *)
(***************************************************************************)
\* The handler and stop().
Signal ==
    /\ up /\ drain = "none" /\ launches > 0
    /\ drain' = "waiting"
    /\ tracker' = [tracker EXCEPT !.keepParsing = FALSE, !.poller = FALSE]
    /\ UNCHANGED <<disk, snapshot, up, launches, loop, open, admin, pass, seen>>

DrainCloses ==
    /\ drain = "waiting"
    /\ loop[1] \in Settled
    /\ admin.phase \notin {"waiting", "aborting"}
    /\ drain' = "closed"
    /\ open' = open \ {launches}
    /\ UNCHANGED <<disk, snapshot, up, tracker, launches, loop, admin, pass, seen>>

ExitClean == drain = "closed" /\ Exit

\* Mutant: the timer is set when the drain's waits are over.
TimerArmedLate == drain = "closed"

TimerArmed == drain # "none"

\* The hard-exit timer.
HardExit == TimerArmed /\ Exit

\* SIGKILL, the OOM killer, an uncaught exception.
Kill == up /\ Exit

-----------------------------------------------------------------------------
(***************************************************************************)
(* The mempool pass: a timer callback that outlives the timer and the      *)
(* launch it was armed by (MempoolRefresh has its steps).                  *)
(***************************************************************************)
PassStarts ==
    /\ tracker.poller /\ pass = 0
    /\ pass' = launches
    /\ UNCHANGED <<disk, snapshot, up, tracker, launches, loop, open, admin, drain, seen>>

\* A pass whose listing fails returns with the flag as it was.
PassUnlisted ==
    /\ pass # 0
    /\ pass' = 0
    /\ UNCHANGED <<disk, snapshot, up, tracker, launches, loop, open, admin, drain, seen>>

\* One that got its listing asserts readiness, or withdraws it on any fault.
PassEnds(ok) ==
    /\ pass # 0
    /\ pass' = 0
    /\ tracker' = [tracker EXCEPT !.mempoolReconverged = ok]
    /\ seen' = IF ok THEN [seen EXCEPT !.mirrored = pass] ELSE seen
    /\ UNCHANGED <<disk, snapshot, up, launches, loop, open, admin, drain>>

-----------------------------------------------------------------------------
LoopStep(i) == Open(i) \/ ReadMarker(i) \/ BeginLoop(i) \/ HaltWrite(i) \/ TakeElse(i) \/ CloseDone(i)

AdminStep ==
    \/ AdminClosesAborted \/ AdminCloseFails \/ AdminStopped \/ AdminGivesUp
    \/ PackBegins \/ PackFlushed \/ PackEnds \/ PackFails
    \/ ValidationFails \/ Wipe \/ ExtractFails \/ ExtractEnds

Next ==
    \/ Boot
    \/ \E i \in Launch :
          \/ LoopStep(i) \/ ArmPoller(i) \/ DropPoller(i) \/ PollHalts(i) \/ LoopFails(i)
    \/ AdminRequest(FALSE, None)
    \/ \E a \in Published \cup Snapshots : AdminRequest(TRUE, a)
    \/ AdminStep
    \/ Signal \/ DrainCloses \/ ExitClean \/ HardExit \/ Kill
    \/ PassStarts \/ PassUnlisted
    \/ \E ok \in BOOLEAN : PassEnds(ok)

(***************************************************************************)
(* Every await the process makes is answered and its timers fire: a store  *)
(* operation, a child process and a block end in a result or an error.     *)
(* Nothing is assumed of the operator, the supervisor or the chain.        *)
(***************************************************************************)
Fairness ==
    /\ \A i \in Launch : WF_vars(LoopStep(i))
    /\ WF_vars(AdminStep)
    /\ WF_vars(HardExit)

Spec == Init /\ [][Next]_vars /\ Fairness

-----------------------------------------------------------------------------
\* While a snapshot reads the store's directory, a restore replaces it, or a
\* restore has left it half written, no handle on the store is open: stopParsing
\* must close before it answers, and what a failed extraction left must not be
\* opened by the same process (stopParsing, decompressPigzInner,
\* handleRestoreFailure).
StoreIsReleased ==
    (admin.phase \in {"packing", "sealing", "extracting"} \/ (up /\ disk.wiped)) => open = {}

\* A process whose store carries the halt marker reports halted as soon as its
\* launch has read the marker, also after a snapshot's relaunch and after the
\* restore of a snapshot that was taken while halted (resumeHaltFromMarker,
\* clearHalt).  The exception is the marker that could not be read.
HaltIsReported ==
    (up /\ disk.marker /\ Idle /\ \A i \in Launch : loop[i] \notin {"opening", "opened"})
        => tracker.halted \/ seen.blind

\* The store is wiped only for an archive that can replace it: not for the
\* remains of a snapshot that failed or was killed half way, whatever sidecar an
\* earlier one left, nor for one without a store at its root
\* (validateBootstrapArchiveOrThrow, finishSnapshot).
WipedOnlyForAStore == admin.phase = "extracting" => Extractable(admin.source)

\* A tracker paused for a snapshot or a restore gets going again: a new launch
\* polls or has resumed the halt, or the process has ended for its supervisor
\* (handleBootstrapFailure, handleRestoreFailure, launchTracker).
PausedResumes ==
    admin.phase \in Owning ~> (~up \/ (Idle /\ loop[launches] \in {"polling", "halted"}))

\* SIGTERM ends the process although start() and a refused stop set keepParsing
\* again and so undo stop() (createShutdown).
SignalEnds == drain # "none" ~> ~up

\* A refused pause leaves the tracker running (stopParsing).  Violated: a loop
\* that is closing its store when the wait runs out ends all the same.
FailedStopKeepsRunning ==
    (up /\ Idle /\ drain = "none") => \E i \in Launch : loop[i] \notin {"none", "ended"}

\* Readiness of a running launch rests on a pass over the mempool store that
\* launch opened (newSyncLoopState).  Violated: a pass that outlives a restart
\* raises it.
ReadinessIsReEarned ==
    (up /\ loop[launches] = "polling" /\ tracker.mempoolReconverged) => seen.mirrored = launches
=============================================================================
