------------------------ MODULE StoreCommitLockProofs ------------------------
(***************************************************************************)
(* What the store-commit lock guarantees its readers, for any number of    *)
(* concurrent address reads and pagers.                                    *)
(*                                                                         *)
(* The inductive invariant has two layers.  The lock's own: `readers'      *)
(* counts the reads under way, `writing' says that one commit holds the    *)
(* write side, and a commit that has drained the reads meets none.  On top *)
(* of it the data: what a read has collected is what the stores hold now,  *)
(* as nobody can have committed since, and what a pager keeps between its  *)
(* pages is a prefix of the answer for the tip and the epoch it reports.   *)
(***************************************************************************)
EXTENDS StoreCommitLock, FiniteSetTheorems, SequenceTheorems, TLAPS

ReadingAt == {"height", "rows", "mempool", "probe", "done"}
HoldingAt == {"drain", "write", "write2"}
WritingAt == {"write", "write2"}

\* The reads between their two turns of the lock.
Readings == {r \in Reader : pc[r] \in ReadingAt}

Locations ==
    /\ \A r \in Reader : pc[r] \in {"idle", "enter"} \cup ReadingAt
    /\ \A w \in Writer : pc[w] \in {"idle", "enter"} \cup HoldingAt
    /\ pc[Pass] # "write2"

Exclusion ==
    /\ readers = Cardinality(Readings)
    /\ \A w \in Writer : pc[w] \in HoldingAt => writing
    /\ \A v, w \in Writer : pc[v] \in HoldingAt /\ pc[w] \in HoldingAt => v = w
    /\ \A w \in Writer : pc[w] \in WritingAt => Readings = {}

\* A process waits or is resumed at one place of one list.
Queued ==
    /\ \A i \in DOMAIN waiters : pc[waiters[i]] \in {"enter", "drain"}
    /\ \A i \in DOMAIN resumed : pc[resumed[i]] \in {"enter", "drain"}
    /\ \A i, j \in DOMAIN waiters : waiters[i] = waiters[j] => i = j
    /\ \A i, j \in DOMAIN resumed : resumed[i] = resumed[j] => i = j
    /\ \A i \in DOMAIN waiters, j \in DOMAIN resumed : waiters[i] # resumed[j]

\* What the stores answer to each question of a read.
RowsNow(r) == IF r \in Pager THEN RowsFrom(paging[r].after) ELSE Rows(confirmed)
UnconfirmedNow(r) == IF pending /\ (r \in Pager => paging[r].after = 0) THEN {"b"} ELSE {}

\* The outputs a read has looked at, and what it may have found of them.
Looked(s) == s.spent \cup s.withheld \cup s.results
FoundOk(s) ==
    /\ s.results \cap s.withheld = {} /\ s.withheld \subseteq s.rows
    /\ \A o \in s.spent : SpentInMempool(o)
    /\ \A o \in s.withheld : ~SpentInMempool(o)

\* What is to be served of these rows, and of the mempool's.
Due(s) == {o \in s.rows : ~SpentInMempool(o)} \cup (IF confirmed THEN {} ELSE s.unconfirmed)

\* Withheld and served at the node's present tip.
AtTip(withheld, served, rows) ==
    /\ \A o \in withheld : Withheld(o, nodeTip)
    /\ \A o \in served \cap rows : ~Withheld(o, nodeTip)

\* What a read that is at this place may have collected.
SnapshotAt(r, place, s) ==
    /\ place \in {"rows", "mempool", "probe", "done"} => s.height = confirmed
    /\ place \in {"mempool", "probe", "done"} => s.rows = RowsNow(r)
    /\ place \in {"probe", "done"} => s.unconfirmed = UnconfirmedNow(r)
    /\ place \notin {"probe", "done"} => Looked(s) = {}
    /\ place \in {"probe", "done"} => FoundOk(s)
    /\ place = "probe" => /\ Looked(s) \subseteq s.rows
                          /\ \A o \in s.results : ~SpentInMempool(o)
    /\ place = "done" => /\ s.spent = {o \in s.rows : SpentInMempool(o)}
                         /\ s.results \cup s.withheld = Due(s)
    /\ (place \in {"probe", "done"} /\ r \in Pager) => (~tipMoved[r] => AtTip(s.withheld, s.results, s.rows))

Snapshot == \A r \in Reader : SnapshotAt(r, pc[r], seen[r])

\* The mempool's twin of b is served with the first page.
ServedFirst(tip) == {"c"} \cup (IF pending /\ ~tip THEN {"b"} ELSE {})
ServedAll(tip)   == {"c", IF tip \/ pending THEN "b" ELSE "a"}

PageOk(p, isMoved) ==
    /\ p.after = 0 => p = FirstPage
    /\ p.after # 0 /\ ~p.moved =>
          /\ ~p.twice
          /\ confirmed /\ ~p.tip => pc[Loop] = "write2"
          /\ p.served \cap p.withheld = {} /\ p.withheld \subseteq Rows(p.tip)
          /\ ~isMoved => AtTip(p.withheld, p.served, Rows(p.tip))
          /\ \/ p.after = 1 /\ p.served \cup p.withheld = ServedFirst(p.tip)
             \/ p.after = (IF p.tip THEN 3 ELSE 2) /\ p.served \cup p.withheld = ServedAll(p.tip)

Pages ==
    /\ pc[Loop] = "write2" => confirmed
    /\ \A r \in Pager : PageOk(paging[r], tipMoved[r])

IInv == TypeOK /\ Locations /\ Exclusion /\ Queued /\ Snapshot /\ Pages

-----------------------------------------------------------------------------
\* TypeOK without its bound on the lists, which follows from Queued.
Typed ==
    /\ readers \in 0 .. Cardinality(Reader) /\ writing \in BOOLEAN
    /\ waiters \in Seq(Process) /\ resumed \in Seq(Process)
    /\ pc \in [Process -> {"idle", "enter", "drain", "height", "rows", "mempool", "probe",
                           "done", "write", "write2"}]
    /\ confirmed \in BOOLEAN /\ pending \in BOOLEAN
    /\ nodeTip \in {-1} \cup NodeTips /\ tipMoved \in [Pager -> BOOLEAN]
    /\ seen \in [Reader -> [height : BOOLEAN, rows : SUBSET {"a", "b", "c"}, unconfirmed : SUBSET {"b"},
                            spent : SUBSET {"a"}, withheld : SUBSET {"a", "b", "c"},
                            results : SUBSET {"a", "b", "c"}]]
    /\ paging \in [Pager -> [after : 0 .. 3, served : SUBSET {"a", "b", "c"},
                              withheld : SUBSET {"a", "b", "c"}, twice : BOOLEAN, tip : BOOLEAN,
                              moved : BOOLEAN]]

\* Two lists that hold no element twice are together no longer than their set.
LEMMA ListsAreBounded ==
    ASSUME NEW S, IsFiniteSet(S), NEW s \in Seq(S), NEW t \in Seq(S),
           \A i, j \in DOMAIN s : s[i] = s[j] => i = j,
           \A i, j \in DOMAIN t : t[i] = t[j] => i = j,
           \A i \in DOMAIN s, j \in DOMAIN t : s[i] # t[j]
    PROVE  Len(s) + Len(t) <= Cardinality(S)
<1> DEFINE n == Len(s) + Len(t)
           f == [i \in 1 .. n |-> IF i <= Len(s) THEN s[i] ELSE t[i - Len(s)]]
<1>1. Len(s) \in Nat /\ Len(t) \in Nat /\ n \in Nat
  OBVIOUS
<1>2. f \in [1 .. n -> S]
  BY <1>1
<1>3. \A i, j \in 1 .. n : f[i] = f[j] => i = j
  BY <1>1
<1>4. f \in Injection(1 .. n, S)
  BY <1>2, <1>3 DEF Injection, IsInjective
<1>5. IsFiniteSet(1 .. n) /\ Cardinality(1 .. n) = n
  BY <1>1, FS_Interval
<1> QED
  BY <1>1, <1>4, <1>5, FS_Injection

LEMMA ProcessIsFinite == IsFiniteSet(Process)
<1>1. IsFiniteSet({Loop}) /\ IsFiniteSet({Pass}) /\ Writer = {Loop} \cup {Pass}
  BY FS_Singleton DEF Writer
<1>2. IsFiniteSet(Writer) /\ IsFiniteSet(Reader)
  BY <1>1, FS_Union, LockAssumption
<1> QED
  BY <1>2, FS_Union DEF Process

-----------------------------------------------------------------------------
(***************************************************************************)
(* The two lists of the lock.                                              *)
(***************************************************************************)

\* A process that runs its loop test is in neither list any more.
LEMMA TurnLeavesLists ==
    ASSUME Typed, Queued, NEW p \in Process, NEW where, Runs(p, where)
    PROVE  /\ resumed' \in Seq(Process)
           /\ \A i \in DOMAIN resumed' : /\ resumed'[i] # p
                                         /\ pc[resumed'[i]] \in {"enter", "drain"}
           /\ \A i, j \in DOMAIN resumed' : resumed'[i] = resumed'[j] => i = j
           /\ \A i \in DOMAIN waiters : waiters[i] # p
           /\ \A i \in DOMAIN waiters, j \in DOMAIN resumed' : waiters[i] # resumed'[j]
<1>1. CASE Arrives(p) /\ UNCHANGED resumed
  BY <1>1 DEF Arrives, Typed, Queued
<1>2. CASE Resumes(p, where) /\ resumed' = Tail(resumed)
  <2>1. resumed # <<>> /\ resumed[1] = p
    BY <1>2 DEF Resumes
  <2>2. resumed' \in Seq(Process) /\ Len(resumed') = Len(resumed) - 1 /\ Len(resumed) \in Nat
    BY <1>2, <2>1 DEF Typed
  <2>3. \A i \in 1 .. Len(resumed') : resumed'[i] = resumed[i + 1]
    BY <1>2, <2>1 DEF Typed
  <2>4. DOMAIN resumed' = 1 .. Len(resumed') /\ DOMAIN resumed = 1 .. Len(resumed) /\ 1 \in DOMAIN resumed
    BY <2>1, <2>2 DEF Typed
  <2>5. \A i \in DOMAIN resumed' : i + 1 \in DOMAIN resumed /\ resumed'[i] = resumed[i + 1] /\ i + 1 # 1
    BY <2>2, <2>3, <2>4
  <2> QED
    BY <2>1, <2>2, <2>4, <2>5 DEF Queued
<1> QED
  BY <1>1, <1>2 DEF Runs

\* ... and it may queue again, at the end of the waiters,
LEMMA WaitsQueued ==
    ASSUME Typed, Queued, NEW p \in Process, NEW where, Runs(p, where),
           NEW place \in {"enter", "drain"}, WaitForLockChange(p, place)
    PROVE  waiters' \in Seq(Process) /\ resumed' \in Seq(Process) /\ Queued'
<1>1. waiters' = Append(waiters, p) /\ pc' = [pc EXCEPT ![p] = place]
  BY DEF WaitForLockChange
<1>2. /\ waiters' \in Seq(Process) /\ DOMAIN waiters' = 1 .. Len(waiters) + 1 /\ Len(waiters) \in Nat
      /\ DOMAIN waiters = 1 .. Len(waiters)
      /\ \A i \in DOMAIN waiters' : waiters'[i] = IF i \in DOMAIN waiters THEN waiters[i] ELSE p
      /\ \A i, j \in DOMAIN waiters' : i \notin DOMAIN waiters /\ j \notin DOMAIN waiters => i = j
  BY <1>1 DEF Typed
<1>3. \A q \in Process : pc'[q] = IF q = p THEN place ELSE pc[q]
  BY <1>1 DEF Typed
<1>4. \A i \in DOMAIN resumed' : resumed'[i] \in Process
  BY TurnLeavesLists
<1>5. \A i \in DOMAIN waiters : waiters[i] \in Process
  BY DEF Typed
<1> QED
  BY <1>2, <1>3, <1>4, <1>5, TurnLeavesLists DEF Queued

\* ... or go on without queueing.
LEMMA GoesOnQueued ==
    ASSUME Typed, Queued, NEW p \in Process, NEW where, Runs(p, where), NEW place,
           waiters' = waiters, pc' = [pc EXCEPT ![p] = place]
    PROVE  waiters' \in Seq(Process) /\ resumed' \in Seq(Process) /\ Queued'
<1>1. \A q \in Process : q # p => pc'[q] = pc[q]
  BY DEF Typed
<1>2. \A i \in DOMAIN resumed' : resumed'[i] \in Process
  BY TurnLeavesLists
<1>3. \A i \in DOMAIN waiters : waiters[i] \in Process
  BY DEF Typed
<1>4. waiters \in Seq(Process)
  BY DEF Typed
<1> QED
  BY <1>1, <1>2, <1>3, <1>4, TurnLeavesLists DEF Queued

\* A process that is at work is in neither list; its step leaves them alone
LEMMA WorkKeepsQueued ==
    ASSUME Typed, Queued, NEW p \in Process, pc[p] \notin {"enter", "drain"}, NEW place,
           waiters' = waiters, resumed' = resumed, pc' = [pc EXCEPT ![p] = place]
    PROVE  waiters' \in Seq(Process) /\ resumed' \in Seq(Process) /\ Queued'
<1>1. \A q \in Process : q # p => pc'[q] = pc[q]
  BY DEF Typed
<1>2. /\ \A i \in DOMAIN waiters : waiters[i] \in Process
      /\ \A i \in DOMAIN resumed : resumed[i] \in Process
  BY DEF Typed
<1>3. waiters \in Seq(Process) /\ resumed \in Seq(Process)
  BY DEF Typed
<1> QED
  BY <1>1, <1>2, <1>3 DEF Queued

\* ... or resumes all waiters.
LEMMA WakeKeepsQueued ==
    ASSUME Typed, Queued, NEW p \in Process, pc[p] \notin {"enter", "drain"}, NEW place,
           Wake, pc' = [pc EXCEPT ![p] = place]
    PROVE  waiters' \in Seq(Process) /\ resumed' \in Seq(Process) /\ Queued'
<1>1. waiters' = <<>> /\ resumed' = resumed \o waiters
  BY DEF Wake
<1>2. \A q \in Process : q # p => pc'[q] = pc[q]
  BY DEF Typed
<1>3. /\ waiters' \in Seq(Process) /\ resumed' \in Seq(Process) /\ DOMAIN waiters' = {}
      /\ Len(resumed) \in Nat /\ Len(waiters) \in Nat
      /\ DOMAIN resumed = 1 .. Len(resumed) /\ DOMAIN waiters = 1 .. Len(waiters)
      /\ DOMAIN resumed' = 1 .. Len(resumed) + Len(waiters)
  BY <1>1 DEF Typed
<1>4. \A i \in DOMAIN resumed' : \/ i \in DOMAIN resumed /\ resumed'[i] = resumed[i]
                                 \/ i - Len(resumed) \in DOMAIN waiters /\ resumed'[i] = waiters[i - Len(resumed)]
  BY <1>1, <1>3 DEF Typed
<1>5. /\ \A i \in DOMAIN waiters : waiters[i] \in Process
      /\ \A i \in DOMAIN resumed : resumed[i] \in Process
  BY DEF Typed
<1>6. \A i \in DOMAIN resumed' : pc'[resumed'[i]] \in {"enter", "drain"}
  BY <1>2, <1>4, <1>5 DEF Queued
<1>7. ASSUME NEW i \in DOMAIN resumed', NEW j \in DOMAIN resumed', resumed'[i] = resumed'[j]
      PROVE  i = j
  BY <1>3, <1>4, <1>7 DEF Queued
<1> QED
  BY <1>3, <1>6, <1>7 DEF Queued

-----------------------------------------------------------------------------
(***************************************************************************)
(* The lock: readers counts the reads, one commit holds the write side,    *)
(* and it commits while no read is under way.                              *)
(***************************************************************************)
LockInv == Typed /\ Locations /\ Exclusion /\ Queued

LEMMA ReadingsCounted ==
    /\ IsFiniteSet(Readings)
    /\ Cardinality(Readings) \in 0 .. Cardinality(Reader)
    /\ Cardinality(Readings) = 0 <=> Readings = {}
<1>1. Readings \subseteq Reader
  BY DEF Readings
<1>2. IsFiniteSet(Reader)
  BY LockAssumption
<1>3. IsFiniteSet(Readings) /\ Cardinality(Readings) <= Cardinality(Reader)
  BY <1>1, <1>2, FS_Subset
<1>4. Cardinality(Readings) \in Nat /\ Cardinality(Reader) \in Nat
  BY <1>2, <1>3, FS_CardinalityType
<1>5. Cardinality(Readings) = 0 <=> Readings = {}
  BY <1>3, FS_EmptySet
<1> QED
  BY <1>3, <1>4, <1>5

\* How a process that moves to `place' changes the set of reads under way.
LEMMA ReadingsMove ==
    ASSUME Typed, NEW p \in Process, NEW place, pc' = [pc EXCEPT ![p] = place]
    PROVE  /\ p \in Writer => Readings' = Readings
           /\ (p \in Reader /\ pc[p] \in ReadingAt /\ place \in ReadingAt) => Readings' = Readings
           /\ (p \in Reader /\ pc[p] \notin ReadingAt /\ place \notin ReadingAt) => Readings' = Readings
           /\ (p \in Reader /\ pc[p] \notin ReadingAt /\ place \in ReadingAt) =>
                 /\ Readings' = Readings \cup {p}
                 /\ Cardinality(Readings') = Cardinality(Readings) + 1
           /\ (p \in Reader /\ pc[p] \in ReadingAt /\ place \notin ReadingAt) =>
                 /\ p \in Readings /\ Readings' = Readings \ {p}
                 /\ Cardinality(Readings') = Cardinality(Readings) - 1
<1>1. \A q \in Process : pc'[q] = IF q = p THEN place ELSE pc[q]
  BY DEF Typed
<1>2. Reader \subseteq Process /\ \A q \in Writer : q \notin Reader
  BY LockAssumption DEF Process, Writer
<1>3. IsFiniteSet(Readings)
  BY ReadingsCounted
<1>4. (p \in Reader /\ pc[p] \notin ReadingAt /\ place \in ReadingAt) =>
         p \notin Readings /\ Readings' = Readings \cup {p}
  BY <1>1, <1>2 DEF Readings
<1>5. (p \in Reader /\ pc[p] \in ReadingAt /\ place \notin ReadingAt) =>
         p \in Readings /\ Readings' = Readings \ {p}
  BY <1>1, <1>2 DEF Readings
<1>6. p \in Writer => Readings' = Readings
  BY <1>1, <1>2 DEF Readings
<1>7. (p \in Reader /\ (pc[p] \in ReadingAt <=> place \in ReadingAt)) => Readings' = Readings
  BY <1>1, <1>2 DEF Readings
<1> QED
  BY <1>3, <1>4, <1>5, <1>6, <1>7, FS_AddElement, FS_RemoveElement

\* The parts of the invariant that only read the locations of the commits.
LEMMA HoldersMove ==
    ASSUME LockInv, NEW p \in Process, NEW place, pc' = [pc EXCEPT ![p] = place],
           \/ /\ p \in Reader /\ place \in {"idle", "enter"} \cup ReadingAt
              /\ (pc[p] \in ReadingAt \/ place \notin ReadingAt \/ ~writing)
              /\ writing' = writing
           \/ /\ p \in Writer /\ place \in {"idle", "enter"} \cup HoldingAt
              /\ place = "write2" => p = Loop
              /\ place \in HoldingAt /\ pc[p] \notin HoldingAt => ~writing
              /\ place \in WritingAt => readers = 0
              /\ writing' = (IF place \in HoldingAt THEN TRUE
                             ELSE IF pc[p] \in HoldingAt THEN FALSE ELSE writing)
    PROVE  /\ Locations'
           /\ \A w \in Writer : pc'[w] \in HoldingAt => writing'
           /\ \A v, w \in Writer : pc'[v] \in HoldingAt /\ pc'[w] \in HoldingAt => v = w
           /\ \A w \in Writer : pc'[w] \in WritingAt => Readings' = {}
<1>1. \A q \in Process : pc'[q] = IF q = p THEN place ELSE pc[q]
  BY DEF LockInv, Typed
<1>2. /\ Reader \subseteq Process /\ Writer \subseteq Process /\ Pass \in Writer /\ Loop \in Writer
      /\ \A q \in Writer : q \notin Reader
      /\ Pass # Loop
  BY LockAssumption DEF Process, Writer
<1>3. readers = 0 => Readings = {}
  BY ReadingsCounted DEF LockInv, Exclusion
<1>4. ReadingAt \cap {"idle", "enter"} = {} /\ HoldingAt \cap {"idle", "enter"} = {} /\ WritingAt \subseteq HoldingAt
  BY DEF ReadingAt, HoldingAt, WritingAt
<1>5. Locations'
  BY <1>1, <1>2 DEF LockInv, Locations
<1>6. CASE p \in Reader
  <2>1. \A w \in Writer : pc'[w] = pc[w]
    BY <1>1, <1>2, <1>6
  <2>2. writing' = writing
    BY <1>2, <1>6
  <2>3. ASSUME NEW w \in Writer, pc[w] \in WritingAt
        PROVE  Readings' = {}
    <3>1. writing /\ Readings = {}
      BY <1>4, <2>3 DEF LockInv, Exclusion
    <3>2. pc[p] \notin ReadingAt
      BY <1>6, <3>1 DEF Readings
    <3>3. place \notin ReadingAt
      BY <1>2, <1>6, <3>1, <3>2
    <3> QED
      BY <1>6, <3>1, <3>2, <3>3, ReadingsMove DEF LockInv
  <2> QED
    BY <1>5, <2>1, <2>2, <2>3 DEF LockInv, Exclusion
<1>7. CASE p \in Writer
  <2>1. Readings' = Readings
    BY <1>7, ReadingsMove DEF LockInv
  <2>2. ASSUME NEW w \in Writer, pc'[w] \in HoldingAt
        PROVE  writing' /\ \A v \in Writer : pc'[v] \in HoldingAt => v = w
    BY <1>1, <1>2, <1>7, <2>2 DEF LockInv, Exclusion
  <2>3. ASSUME NEW w \in Writer, pc'[w] \in WritingAt
        PROVE  Readings' = {}
    BY <1>1, <1>2, <1>3, <1>7, <2>1, <2>3 DEF LockInv, Exclusion
  <2> QED
    BY <1>5, <2>2, <2>3
<1> QED
  BY <1>6, <1>7 DEF Process

\* The types of what a step keeps or writes.
Places == {"idle", "enter", "drain", "height", "rows", "mempool", "probe", "done", "write", "write2"}
SeenType == [height : BOOLEAN, rows : SUBSET {"a", "b", "c"}, unconfirmed : SUBSET {"b"},
             spent : SUBSET {"a"}, withheld : SUBSET {"a", "b", "c"}, results : SUBSET {"a", "b", "c"}]
PageType == [after : 0 .. 3, served : SUBSET {"a", "b", "c"}, withheld : SUBSET {"a", "b", "c"},
             twice : BOOLEAN, tip : BOOLEAN, moved : BOOLEAN]

\* A step that moves one process re-establishes the lock's invariant.
LEMMA MoveLockInv ==
    ASSUME LockInv, NEW p \in Process, NEW place \in Places, pc' = [pc EXCEPT ![p] = place],
           \/ /\ p \in Reader /\ place \in {"idle", "enter"} \cup ReadingAt
              /\ (pc[p] \in ReadingAt \/ place \notin ReadingAt \/ ~writing)
              /\ writing' = writing
           \/ /\ p \in Writer /\ place \in {"idle", "enter"} \cup HoldingAt
              /\ place = "write2" => p = Loop
              /\ place \in HoldingAt /\ pc[p] \notin HoldingAt => ~writing
              /\ place \in WritingAt => readers = 0
              /\ writing' = (IF place \in HoldingAt THEN TRUE
                             ELSE IF pc[p] \in HoldingAt THEN FALSE ELSE writing),
           readers' = readers + (IF p \in Reader /\ pc[p] \notin ReadingAt /\ place \in ReadingAt THEN 1 ELSE 0)
                              - (IF p \in Reader /\ pc[p] \in ReadingAt /\ place \notin ReadingAt THEN 1 ELSE 0),
           waiters' \in Seq(Process) /\ resumed' \in Seq(Process) /\ Queued',
           confirmed' \in BOOLEAN /\ pending' \in BOOLEAN,
           seen' \in [Reader -> SeenType], paging' \in [Pager -> PageType],
           nodeTip' \in {-1} \cup NodeTips, tipMoved' \in [Pager -> BOOLEAN]
    PROVE  LockInv'
<1>1. readers' = Cardinality(Readings')
  <2>1. p \in Reader \/ p \in Writer
    BY DEF Process
  <2>2. readers = Cardinality(Readings) /\ readers \in Int
    BY ReadingsCounted DEF LockInv, Exclusion, Typed
  <2>3. p \in Writer => p \notin Reader
    BY LockAssumption DEF Writer
  <2>4. CASE p \in Writer \/ (p \in Reader /\ (pc[p] \in ReadingAt <=> place \in ReadingAt))
    <3>1. readers' = readers
      BY <2>2, <2>3, <2>4
    <3>2. Readings' = Readings
      BY <2>4, ReadingsMove DEF LockInv
    <3> QED
      BY <2>2, <3>1, <3>2
  <2>5. CASE p \in Reader /\ pc[p] \notin ReadingAt /\ place \in ReadingAt
    <3>1. readers' = readers + 1
      BY <2>2, <2>5
    <3>2. Cardinality(Readings') = Cardinality(Readings) + 1
      BY <2>5, ReadingsMove DEF LockInv
    <3> QED
      BY <2>2, <3>1, <3>2
  <2>6. CASE p \in Reader /\ pc[p] \in ReadingAt /\ place \notin ReadingAt
    <3>1. readers' = readers - 1
      BY <2>2, <2>6
    <3>2. Cardinality(Readings') = Cardinality(Readings) - 1
      BY <2>6, ReadingsMove DEF LockInv
    <3> QED
      BY <2>2, <3>1, <3>2
  <2> QED
    BY <2>1, <2>4, <2>5, <2>6
<1>2. readers' \in 0 .. Cardinality(Reader)
  <2>1. Readings' \subseteq Reader /\ IsFiniteSet(Reader)
    BY LockAssumption DEF Readings
  <2>2. /\ Cardinality(Readings') \in Nat /\ Cardinality(Reader) \in Nat
        /\ Cardinality(Readings') <= Cardinality(Reader)
    BY <2>1, FS_Subset, FS_CardinalityType
  <2> QED
    BY <1>1, <2>2
<1>3. pc' \in [Process -> Places]
  BY DEF LockInv, Typed, Places
<1>4. writing' \in BOOLEAN
  BY DEF LockInv, Typed
<1>5. Typed'
  BY <1>2, <1>3, <1>4 DEF Typed, Places, SeenType, PageType
<1>6. Locations' /\ Exclusion'
  BY <1>1, HoldersMove DEF Exclusion
<1> QED
  BY <1>5, <1>6 DEF LockInv

LEMMA InitIInv == Init => IInv
<1> SUFFICES ASSUME Init PROVE IInv
  OBVIOUS
<1>1. Locations /\ Readings = {}
  BY DEF Init, Locations, Readings, Process, Writer, ReadingAt
<1>2. Exclusion
  BY <1>1, ReadingsCounted DEF Init, Exclusion, Process, HoldingAt, WritingAt
<1>3. Queued
  BY DEF Init, Queued
<1>4. Typed
  <2>1. readers \in 0 .. Cardinality(Reader)
    BY <1>2, ReadingsCounted DEF Exclusion
  <2>2. Nothing \in SeenType /\ FirstPage \in PageType
    BY DEF Nothing, FirstPage, SeenType, PageType
  <2>3. <<>> \in Seq(Process)
    OBVIOUS
  <2> QED
    BY <2>1, <2>2, <2>3 DEF Init, Typed, SeenType, PageType
<1>5. TypeOK
  <2>1. Len(waiters) + Len(resumed) <= Cardinality(Process)
    BY <1>3, <1>4, ListsAreBounded, ProcessIsFinite DEF Typed, Queued
  <2> QED
    BY <1>4, <2>1 DEF TypeOK, Typed
<1>6. Snapshot
  BY DEF Init, Snapshot, SnapshotAt, Process, Looked, Nothing
<1>7. Pages
  BY DEF Init, Pages, PageOk, Process, Writer, FirstPage
<1> QED
  BY <1>1, <1>2, <1>3, <1>4, <1>5, <1>6, <1>7 DEF IInv

\* What a pager keeps has its type.
LEMMA NextPageTyped ==
    ASSUME Typed, NEW r \in Pager
    PROVE  NextPage(r) \in PageType
<1>1. r \in Reader
  BY LockAssumption
<1>2. FirstPage \in PageType
  BY DEF FirstPage, PageType
<1>3. ASSUME ~LastPage(r)
      PROVE  Cursor(r) \in 0 .. 3
  <2>0. seen[r] \in SeenType
    BY <1>1 DEF Typed, SeenType
  <2>1. seen[r].rows # {} /\ seen[r].rows \subseteq {"a", "b", "c"}
    BY <1>3, <2>0 DEF LastPage, SeenType
  <2>2. \A o \in seen[r].rows : Key[o] \in 0 .. 3
    BY <2>1 DEF Key
  <2> QED
    BY <2>1, <2>2 DEF Cursor
<1>4. seen[r].results \subseteq {"a", "b", "c"} /\ seen[r].withheld \subseteq {"a", "b", "c"}
  <2>1. seen[r] \in SeenType
    BY <1>1 DEF Typed, SeenType
  <2> QED
    BY <2>1 DEF SeenType
<1>5. paging[r] \in PageType /\ seen[r].height \in BOOLEAN
  BY <1>1 DEF Typed, PageType
<1> QED
  BY <1>2, <1>3, <1>4, <1>5 DEF NextPage, PageType

-----------------------------------------------------------------------------
(***************************************************************************)
(* Each step preserves the whole invariant.                                *)
(***************************************************************************)
LEMMA Closes ==
    ASSUME LockInv', Snapshot', Pages'
    PROVE  IInv'
<1>1. Typed' /\ Queued'
  BY DEF LockInv
<1>2. Len(waiters') + Len(resumed') <= Cardinality(Process)
  BY <1>1, ListsAreBounded, ProcessIsFinite DEF Typed, Queued
<1>3. TypeOK'
  BY <1>1, <1>2 DEF TypeOK, Typed
<1> QED
  BY <1>3 DEF IInv, LockInv

LEMMA Parts == IInv => LockInv
BY DEF IInv, LockInv, TypeOK, Typed

LEMMA Identities ==
    /\ Reader \subseteq Process /\ Writer \subseteq Process /\ Pager \subseteq Reader
    /\ Loop \in Writer /\ Pass \in Writer /\ Loop # Pass
    /\ \A w \in Writer : w \notin Reader
BY LockAssumption DEF Process, Writer

\* What a read has found stays right while it and the stores stay where they are,
LEMMA SnapshotKept ==
    ASSUME NEW r \in Reader, NEW place, NEW s, SnapshotAt(r, place, s),
           confirmed' = confirmed, pending' = pending, nodeTip' = nodeTip,
           r \in Pager => tipMoved'[r] = tipMoved[r] /\ paging'[r].after = paging[r].after
    PROVE  SnapshotAt(r, place, s)'
<1>1. RowsNow(r)' = RowsNow(r) /\ UnconfirmedNow(r)' = UnconfirmedNow(r)
  BY DEF RowsNow, UnconfirmedNow, RowsFrom, Rows
<1>2. /\ FoundOk(s)' <=> FoundOk(s)
      /\ Due(s)' = Due(s)
      /\ \A o : SpentInMempool(o)' <=> SpentInMempool(o)
  BY DEF FoundOk, Due, SpentInMempool
<1>3. AtTip(s.withheld, s.results, s.rows)' <=> AtTip(s.withheld, s.results, s.rows)
  BY DEF AtTip, Withheld, Confirmations
<1> QED
  BY <1>1, <1>2, <1>3 DEF SnapshotAt, Looked

\* and so does what a pager keeps.
LEMMA PageKept ==
    ASSUME NEW p, NEW isMoved, PageOk(p, isMoved), pc'[Loop] = "write2" <=> pc[Loop] = "write2",
           confirmed' = confirmed, pending' = pending, nodeTip' = nodeTip
    PROVE  PageOk(p, isMoved)'
<1>1. AtTip(p.withheld, p.served, Rows(p.tip))' <=> AtTip(p.withheld, p.served, Rows(p.tip))
  BY DEF AtTip, Withheld, Confirmations, Rows
<1> QED
  BY <1>1 DEF PageOk, ServedFirst, ServedAll, Rows

LEMMA PagesKept ==
    ASSUME Pages, pc'[Loop] = "write2" <=> pc[Loop] = "write2", paging' = paging, tipMoved' = tipMoved,
           confirmed' = confirmed, pending' = pending, nodeTip' = nodeTip
    PROVE  Pages'
<1>1. ASSUME NEW r \in Pager
      PROVE  PageOk(paging[r], tipMoved[r])'
  <2>1. PICK p, m : p = paging[r] /\ m = tipMoved[r] /\ PageOk(p, m)
    BY DEF Pages
  <2>2. PageOk(p, m)'
    BY <2>1, PageKept
  <2>3. paging'[r] = p /\ tipMoved'[r] = m
    BY <2>1
  <2> QED
    BY <2>2, <2>3
<1> QED
  BY <1>1 DEF Pages

\* A step of the lock alone touches no data.
LEMMA LockMoveKeepsData ==
    ASSUME IInv, NEW p \in Process, NEW place \in {"enter", "height", "drain", "write"},
           pc[p] \in {"idle", "enter", "drain"}, pc' = [pc EXCEPT ![p] = place],
           UNCHANGED <<stores, seen, paging, tips>>
    PROVE  Snapshot' /\ Pages'
<1>1. \A q \in Process : pc'[q] = IF q = p THEN place ELSE pc[q]
  BY DEF IInv, TypeOK
<1>2. /\ confirmed' = confirmed /\ pending' = pending /\ seen' = seen /\ paging' = paging
      /\ nodeTip' = nodeTip /\ tipMoved' = tipMoved
  BY DEF stores, tips
<1>4. ASSUME NEW r \in Reader
      PROVE  SnapshotAt(r, pc[r], seen[r])'
  <2>1. PICK at, s : at = pc[r] /\ s = seen[r] /\ SnapshotAt(r, at, s)
    BY DEF IInv, Snapshot
  <2>2. CASE r # p
    <3>1. pc'[r] = at /\ seen'[r] = s
      BY <1>1, <1>2, <2>1, <2>2, Identities
    <3>2. SnapshotAt(r, at, s)'
      BY <1>2, <2>1, SnapshotKept
    <3> QED
      BY <3>1, <3>2
  <2>3. CASE r = p
    <3>1. pc'[r] = place
      BY <1>1, <2>3, Identities
    <3>2. Looked(s) = {}
      BY <2>1, <2>3 DEF SnapshotAt
    <3> QED
      BY <1>2, <2>1, <3>1, <3>2 DEF SnapshotAt, Looked
  <2> QED
    BY <2>2, <2>3
<1>5. pc'[Loop] = "write2" <=> pc[Loop] = "write2"
  BY <1>1, Identities
<1>6. Pages'
  BY <1>2, <1>5, PagesKept DEF IInv, Pages
<1>7. Snapshot'
  BY <1>4 DEF Snapshot
<1> QED
  BY <1>6, <1>7

LEMMA ReadWaitsIInv ==
    ASSUME IInv, NEW r \in Reader, ReadWaits(r)
    PROVE  IInv'
<1>1. LockInv /\ r \in Process
  BY Parts, Identities
<1>2. pc' = [pc EXCEPT ![r] = "enter"] /\ pc[r] \in {"idle", "enter"}
  BY DEF ReadWaits, Runs, Arrives, Resumes, WaitForLockChange
<1>3. waiters' \in Seq(Process) /\ resumed' \in Seq(Process) /\ Queued'
  BY <1>1, WaitsQueued DEF ReadWaits, LockInv
<1>4. /\ readers' = readers /\ writing' = writing /\ confirmed' = confirmed /\ pending' = pending
      /\ seen' = seen /\ paging' = paging /\ nodeTip' = nodeTip /\ tipMoved' = tipMoved
  BY DEF ReadWaits, stores, tips
<1>5. LockInv'
  <2>1. pc[r] \notin ReadingAt /\ "enter" \notin ReadingAt
    BY <1>2 DEF ReadingAt
  <2>2. readers' = readers + 0 - 0
    BY <1>1, <1>4 DEF LockInv, Typed
  <2> QED
    BY <1>1, <1>2, <1>3, <1>4, <2>1, <2>2, MoveLockInv DEF LockInv, Typed, Places, SeenType, PageType
<1>6. Snapshot' /\ Pages'
  BY <1>1, <1>2, <1>4, LockMoveKeepsData DEF stores, tips
<1> QED
  BY <1>5, <1>6, Closes

LEMMA ReadStartsIInv ==
    ASSUME IInv, NEW r \in Reader, ReadStarts(r)
    PROVE  IInv'
<1>1. LockInv /\ r \in Process
  BY Parts, Identities
<1>2. pc' = [pc EXCEPT ![r] = "height"] /\ pc[r] \in {"idle", "enter"} /\ ~writing
  BY DEF ReadStarts, Runs, Arrives, Resumes, ReadBlocked
<1>3. waiters' \in Seq(Process) /\ resumed' \in Seq(Process) /\ Queued'
  BY <1>1, <1>2, GoesOnQueued DEF ReadStarts, LockInv
<1>4. /\ readers' = readers + 1 /\ writing' = writing /\ confirmed' = confirmed /\ pending' = pending
      /\ seen' = seen /\ paging' = paging /\ nodeTip' = nodeTip /\ tipMoved' = tipMoved
  BY DEF ReadStarts, stores, tips
<1>5. LockInv'
  <2>1. pc[r] \notin ReadingAt /\ "height" \in ReadingAt
    BY <1>2 DEF ReadingAt
  <2>2. readers' = readers + 1 - 0
    BY <1>1, <1>4 DEF LockInv, Typed
  <2> QED
    BY <1>1, <1>2, <1>3, <1>4, <2>1, <2>2, MoveLockInv DEF LockInv, Typed, Places, SeenType, PageType
<1>6. Snapshot' /\ Pages'
  BY <1>1, <1>2, <1>4, LockMoveKeepsData DEF stores, tips
<1> QED
  BY <1>5, <1>6, Closes

\* The loop tests of withStoreCommit, in one: it waits, or takes the write side
\* and waits for the reads, or finds none left.
LEMMA CommitEntersIInv ==
    ASSUME IInv, NEW w \in Writer, LockNext(w)
    PROVE  IInv'
<1>1. LockInv /\ w \in Process /\ w \notin Reader
  BY Parts, Identities
<1>2. /\ readers' = readers /\ confirmed' = confirmed /\ pending' = pending
      /\ seen' = seen /\ paging' = paging /\ nodeTip' = nodeTip /\ tipMoved' = tipMoved
  BY DEF LockNext, CommitWaits, CommitTakes, CommitDrains, stores, tips
<1>3. readers' = readers + 0 - 0
  BY <1>1, <1>2 DEF LockInv, Typed
<1>4. ASSUME NEW place \in {"enter", "drain", "write"}, NEW where,
             Runs(w, where), pc[w] \in {"idle", "enter", "drain"},
             \/ place # "write" /\ WaitForLockChange(w, place)
             \/ waiters' = waiters /\ pc' = [pc EXCEPT ![w] = place],
             place \in HoldingAt /\ pc[w] \notin HoldingAt => ~writing,
             place \in WritingAt => readers = 0,
             writing' = (IF place \in HoldingAt THEN TRUE
                         ELSE IF pc[w] \in HoldingAt THEN FALSE ELSE writing)
      PROVE  IInv'
  <2>1. pc' = [pc EXCEPT ![w] = place]
    BY <1>4 DEF WaitForLockChange
  <2>2. waiters' \in Seq(Process) /\ resumed' \in Seq(Process) /\ Queued'
    BY <1>1, <1>4, WaitsQueued, GoesOnQueued DEF LockInv
  <2>3. place \in {"idle", "enter"} \cup HoldingAt /\ place # "write2" /\ place \in Places
    BY DEF HoldingAt, Places
  <2>4. LockInv'
    BY <1>1, <1>2, <1>3, <1>4, <2>1, <2>2, <2>3, MoveLockInv DEF LockInv, Typed, SeenType, PageType
  <2>5. Snapshot' /\ Pages'
    BY <1>1, <1>2, <1>4, <2>1, LockMoveKeepsData DEF stores, tips
  <2> QED
    BY <2>4, <2>5, Closes
<1>5. /\ "enter" \notin HoldingAt /\ "idle" \notin HoldingAt /\ "drain" \in HoldingAt /\ "write" \in HoldingAt
      /\ "enter" \notin WritingAt /\ "drain" \notin WritingAt
  BY DEF HoldingAt, WritingAt
<1>6. readers > 0 \/ readers = 0
  BY <1>1 DEF LockInv, Typed
<1>7. CASE CommitWaits(w)
  BY <1>4, <1>5, <1>7 DEF CommitWaits, Runs, Arrives, Resumes
<1>8. CASE CommitTakes(w)
  <2>1. Runs(w, "enter") /\ pc[w] \in {"idle", "enter"} /\ ~writing /\ writing' = TRUE
    BY <1>8 DEF CommitTakes, Runs, Arrives, Resumes
  <2>2. CASE readers > 0
    BY <1>4, <1>5, <1>8, <2>1, <2>2 DEF CommitTakes
  <2>3. CASE readers = 0
    <3>1. pc' = [pc EXCEPT ![w] = "write"] /\ waiters' = waiters
      BY <1>8, <2>3 DEF CommitTakes
    <3> QED
      BY <1>4, <1>5, <2>1, <2>3, <3>1
  <2> QED
    BY <1>6, <2>2, <2>3
<1>9. CASE CommitDrains(w)
  <2>1. Runs(w, "drain") /\ pc[w] = "drain" /\ writing' = writing
    BY <1>9 DEF CommitDrains, Runs, Resumes
  <2>2. writing
    BY <1>1, <1>5, <2>1 DEF LockInv, Exclusion
  <2>3. CASE readers > 0
    BY <1>4, <1>5, <1>9, <2>1, <2>2, <2>3 DEF CommitDrains
  <2>4. CASE readers = 0
    <3>1. pc' = [pc EXCEPT ![w] = "write"] /\ waiters' = waiters
      BY <1>9, <2>4 DEF CommitDrains
    <3> QED
      BY <1>4, <1>5, <2>1, <2>2, <2>4, <3>1
  <2> QED
    BY <1>6, <2>3, <2>4
<1> QED
  BY <1>7, <1>8, <1>9 DEF LockNext

\* The rows a page scans: at most one, the next after the cursor.
LEMMA PageRows ==
    ASSUME confirmed \in BOOLEAN, NEW after \in 0 .. 3
    PROVE  /\ after = 0 => RowsFrom(after) = {"c"}
           /\ after = 1 => RowsFrom(after) = IF confirmed THEN {"b"} ELSE {"a"}
           /\ after = 2 => RowsFrom(after) = IF confirmed THEN {"b"} ELSE {}
           /\ after = 3 => RowsFrom(after) = {}
<1>1. Key["c"] = 1 /\ Key["a"] = 2 /\ Key["b"] = 3
  BY DEF Key
<1>2. CASE confirmed
  BY <1>1, <1>2 DEF RowsFrom, Rows
<1>3. CASE ~confirmed
  BY <1>1, <1>3 DEF RowsFrom, Rows
<1> QED
  BY <1>2, <1>3

LEMMA ReadStepsIInv ==
    ASSUME IInv, NEW r \in Reader,
           ReadHeight(r) \/ ReadRows(r) \/ ReadMempool(r) \/ ProbeRow(r) \/ ProbeMempool(r)
    PROVE  IInv'
<1>1. LockInv /\ r \in Process
  BY Parts, Identities
<1>2. PICK s : s = seen[r] /\ s \in SeenType
  BY <1>1 DEF LockInv, Typed, SeenType
<1>3. /\ SnapshotAt(r, pc[r], s) /\ (r \in Pager => paging[r] \in PageType)
      /\ confirmed \in BOOLEAN /\ pending \in BOOLEAN
  BY <1>1, <1>2 DEF IInv, Snapshot, LockInv, Typed, PageType
<1>4. RowsNow(r) \subseteq {"a", "b", "c"} /\ UnconfirmedNow(r) \subseteq {"b"}
  BY DEF RowsNow, RowsFrom, Rows, UnconfirmedNow
<1>5. ASSUME NEW from \in ReadingAt, NEW to \in ReadingAt, from # "done",
             NEW value \in SeenType, Step(r, from, to, value), SnapshotAt(r, to, value)
      PROVE  IInv'
  <2>1. /\ pc' = [pc EXCEPT ![r] = to] /\ pc[r] = from /\ seen' = [seen EXCEPT ![r] = value]
        /\ readers' = readers /\ writing' = writing /\ waiters' = waiters /\ resumed' = resumed
        /\ confirmed' = confirmed /\ pending' = pending /\ paging' = paging
        /\ nodeTip' = nodeTip /\ tipMoved' = tipMoved
    BY <1>5 DEF Step, lock, stores, tips
  <2>2. from \notin {"enter", "drain"} /\ to \in Places
    BY DEF ReadingAt, Places
  <2>3. waiters' \in Seq(Process) /\ resumed' \in Seq(Process) /\ Queued'
    BY <1>1, <2>1, <2>2, WorkKeepsQueued DEF LockInv
  <2>4. readers' = readers + 0 - 0
    BY <1>1, <2>1 DEF LockInv, Typed
  <2>5. seen' \in [Reader -> SeenType]
    BY <1>1, <2>1 DEF LockInv, Typed, SeenType
  <2>6. LockInv'
    BY <1>1, <2>1, <2>2, <2>3, <2>4, <2>5, MoveLockInv DEF LockInv, Typed, PageType
  <2>7. \A q \in Process : pc'[q] = IF q = r THEN to ELSE pc[q]
    BY <1>1, <2>1 DEF LockInv, Typed
  <2>8. \A q \in Reader : seen'[q] = IF q = r THEN value ELSE seen[q]
    BY <1>1, <2>1 DEF LockInv, Typed
  <2>9. ASSUME NEW q \in Reader
        PROVE  SnapshotAt(q, pc[q], seen[q])'
    <3>1. PICK at, found : /\ at = (IF q = r THEN to ELSE pc[q])
                           /\ found = (IF q = r THEN value ELSE seen[q])
                           /\ SnapshotAt(q, at, found)
      BY <1>5 DEF IInv, Snapshot
    <3>2. SnapshotAt(q, at, found)'
      BY <2>1, <3>1, SnapshotKept
    <3>3. pc'[q] = at /\ seen'[q] = found
      BY <2>7, <2>8, <3>1, Identities
    <3> QED
      BY <3>2, <3>3
  <2>10. Snapshot'
    BY <2>9 DEF Snapshot
  <2>11. pc'[Loop] = pc[Loop]
    BY <2>7, Identities
  <2>12. Pages'
    BY <2>1, <2>11, PagesKept DEF IInv
  <2> QED
    BY <2>6, <2>10, <2>12, Closes
<1>6. CASE ReadHeight(r)
  <2>1. PICK value : value = [s EXCEPT !.height = confirmed]
    OBVIOUS
  <2>2. value \in SeenType /\ value.height = confirmed /\ Looked(value) = Looked(s)
    BY <1>2, <1>3, <2>1 DEF SeenType, Looked
  <2>3. Step(r, "height", "rows", value) /\ pc[r] = "height"
    BY <1>2, <1>6, <2>1 DEF ReadHeight, Step
  <2>4. SnapshotAt(r, "rows", value)
    BY <1>3, <2>2, <2>3 DEF SnapshotAt
  <2> QED
    BY <1>5, <2>2, <2>3, <2>4 DEF ReadingAt
<1>7. CASE ReadRows(r)
  <2>1. PICK value : value = [s EXCEPT !.rows = RowsNow(r)]
    OBVIOUS
  <2>2. value \in SeenType /\ value.rows = RowsNow(r) /\ value.height = s.height /\ Looked(value) = Looked(s)
    BY <1>2, <1>4, <2>1 DEF SeenType, Looked
  <2>3. Step(r, "rows", "mempool", value) /\ pc[r] = "rows"
    BY <1>2, <1>7, <2>1 DEF ReadRows, RowsNow, Step
  <2>4. SnapshotAt(r, "mempool", value)
    BY <1>3, <2>2, <2>3 DEF SnapshotAt
  <2> QED
    BY <1>5, <2>2, <2>3, <2>4 DEF ReadingAt
<1>8. CASE ReadMempool(r)
  <2>1. PICK value : value = [s EXCEPT !.unconfirmed = UnconfirmedNow(r)]
    OBVIOUS
  <2>2. value \in SeenType /\ value.unconfirmed = UnconfirmedNow(r) /\ value.height = s.height
        /\ value.rows = s.rows /\ Looked(value) = Looked(s)
    BY <1>2, <1>4, <2>1 DEF SeenType, Looked
  <2>3. Step(r, "mempool", "probe", value) /\ pc[r] = "mempool"
    BY <1>2, <1>8, <2>1 DEF ReadMempool, UnconfirmedNow, Step
  <2>4. s.height = confirmed /\ s.rows = RowsNow(r) /\ Looked(s) = {}
    BY <1>3, <2>3 DEF SnapshotAt
  <2>5. value.spent = {} /\ value.withheld = {} /\ value.results = {}
    BY <2>2, <2>4 DEF Looked
  <2>6. SnapshotAt(r, "probe", value)
    BY <2>2, <2>4, <2>5 DEF SnapshotAt, Looked, FoundOk, AtTip
  <2> QED
    BY <1>5, <2>2, <2>3, <2>6 DEF ReadingAt
<1>9. CASE ProbeRow(r)
  <2>1. PICK o : o = NextRow(r) /\ o \in Unprobed(r)
    <3>1. \E o \in Unprobed(r) : \A p \in Unprobed(r) : Key[o] <= Key[p]
      <4>1. Unprobed(r) \subseteq {"a", "b", "c"} /\ Unprobed(r) # {}
        BY <1>2, <1>9 DEF ProbeRow, Unprobed, SeenType
      <4>2. Key["c"] = 1 /\ Key["a"] = 2 /\ Key["b"] = 3
        BY DEF Key
      <4> QED
        BY <4>1, <4>2
    <3> QED
      BY <3>1 DEF NextRow
  <2>2. PICK value : value = Probed(s, o)
    OBVIOUS
  <2>3. Step(r, "probe", "probe", value) /\ pc[r] = "probe"
    BY <1>2, <1>9, <2>1, <2>2 DEF ProbeRow, Step
  <2>4. /\ s.height = confirmed /\ s.rows = RowsNow(r) /\ s.unconfirmed = UnconfirmedNow(r)
        /\ FoundOk(s) /\ Looked(s) \subseteq s.rows /\ \A x \in s.results : ~SpentInMempool(x)
        /\ r \in Pager => (~tipMoved[r] => AtTip(s.withheld, s.results, s.rows))
    BY <1>3, <2>3 DEF SnapshotAt
  <2>5. o \in s.rows /\ o \notin s.spent /\ o \notin s.withheld /\ o \notin s.results
    BY <1>2, <2>1 DEF Unprobed
  <2>6. /\ value.height = s.height /\ value.rows = s.rows /\ value.unconfirmed = s.unconfirmed
        /\ value.spent = IF SpentInMempool(o) THEN s.spent \cup {o} ELSE s.spent
        /\ value.withheld = IF ~SpentInMempool(o) /\ Withheld(o, nodeTip) THEN s.withheld \cup {o} ELSE s.withheld
        /\ value.results = IF SpentInMempool(o) \/ Withheld(o, nodeTip) THEN s.results ELSE s.results \cup {o}
        /\ DOMAIN value = DOMAIN s
    BY <1>2, <2>2 DEF Probed, SeenType
  <2>7. value \in SeenType
    <3>1. SpentInMempool(o) => o \in {"a"}
      BY DEF SpentInMempool
    <3>2. o \in {"a", "b", "c"}
      BY <1>2, <2>5 DEF SeenType
    <3>3. CASE SpentInMempool(o)
      BY <1>2, <2>2, <3>1, <3>3 DEF Probed, SeenType
    <3>4. CASE ~SpentInMempool(o)
      BY <1>2, <2>2, <3>2, <3>4 DEF Probed, SeenType
    <3> QED
      BY <3>3, <3>4
  <2>8. FoundOk(value)
    BY <2>4, <2>5, <2>6 DEF FoundOk
  <2>9. Looked(value) \subseteq value.rows /\ \A x \in value.results : ~SpentInMempool(x)
    BY <2>4, <2>5, <2>6 DEF Looked
  <2>10. r \in Pager => (~tipMoved[r] => AtTip(value.withheld, value.results, value.rows))
    BY <2>4, <2>6 DEF AtTip
  <2>11. SnapshotAt(r, "probe", value)
    BY <2>4, <2>6, <2>8, <2>9, <2>10 DEF SnapshotAt
  <2> QED
    BY <1>5, <2>3, <2>7, <2>11 DEF ReadingAt
<1>10. CASE ProbeMempool(r)
  <2>1. PICK value : value = [s EXCEPT !.results = s.results \cup (IF Twin(r) THEN {} ELSE s.unconfirmed)]
    OBVIOUS
  <2>2. Step(r, "probe", "done", value) /\ pc[r] = "probe" /\ Unprobed(r) = {}
    BY <1>2, <1>10, <2>1 DEF ProbeMempool, Step
  <2>3. /\ s.height = confirmed /\ s.rows = RowsNow(r) /\ s.unconfirmed = UnconfirmedNow(r)
        /\ FoundOk(s) /\ Looked(s) \subseteq s.rows /\ \A x \in s.results : ~SpentInMempool(x)
        /\ r \in Pager => (~tipMoved[r] => AtTip(s.withheld, s.results, s.rows))
    BY <1>3, <2>2 DEF SnapshotAt
  <2>4. Twin(r) = confirmed
    BY <1>2, <1>3, <2>3 DEF Twin, RowsNow, Rows
  <2>5. ~confirmed => "b" \notin s.rows
    BY <2>3 DEF RowsNow, RowsFrom, Rows
  <2>6. s.unconfirmed \subseteq {"b"}
    BY <1>2 DEF SeenType
  <2>7. /\ value.height = s.height /\ value.rows = s.rows /\ value.unconfirmed = s.unconfirmed
        /\ value.spent = s.spent /\ value.withheld = s.withheld
        /\ value.results = s.results \cup (IF confirmed THEN {} ELSE s.unconfirmed)
        /\ value \in SeenType
    BY <1>2, <1>3, <2>1, <2>4 DEF SeenType
  <2>8. s.rows = Looked(s)
    BY <1>2, <2>2, <2>3 DEF Unprobed, Looked
  <2>9. FoundOk(value)
    BY <1>3, <2>3, <2>5, <2>6, <2>7 DEF FoundOk
  <2>10. value.spent = {o \in value.rows : SpentInMempool(o)}
    BY <2>3, <2>7, <2>8 DEF FoundOk, Looked
  <2>11. value.results \cup value.withheld = Due(value)
    BY <1>3, <2>3, <2>7, <2>8 DEF FoundOk, Looked, Due
  <2>12. r \in Pager => (~tipMoved[r] => AtTip(value.withheld, value.results, value.rows))
    BY <1>3, <2>3, <2>5, <2>6, <2>7 DEF AtTip
  <2>13. SnapshotAt(r, "done", value)
    BY <2>3, <2>7, <2>9, <2>10, <2>11, <2>12 DEF SnapshotAt
  <2> QED
    BY <1>5, <2>2, <2>7, <2>13 DEF ReadingAt
<1> QED
  BY <1>6, <1>7, <1>8, <1>9, <1>10

\* The page that has been read continues the answer begun.
LEMMA NextPageContinues ==
    ASSUME IInv, NEW r \in Pager, pc[r] = "done", NextPage(r) # FirstPage
    PROVE  /\ NextPage(r).after # 0 /\ NextPage(r).tip = confirmed
           /\ PageOk(NextPage(r), tipMoved[r])
<1>1. r \in Reader /\ LockInv
  BY Identities, Parts
<1>2. PICK s, p : s = seen[r] /\ p = paging[r] /\ s \in SeenType /\ p \in PageType
  BY <1>1 DEF LockInv, Typed, SeenType, PageType
<1>3. confirmed \in BOOLEAN /\ pending \in BOOLEAN
  BY <1>1 DEF LockInv, Typed
<1>4. ~LastPage(r) /\ Steady(r)
  BY DEF NextPage
<1>5. /\ s.height = confirmed /\ s.rows = RowsFrom(p.after)
      /\ s.unconfirmed = (IF pending /\ p.after = 0 THEN {"b"} ELSE {})
      /\ FoundOk(s) /\ s.results \cup s.withheld = Due(s)
      /\ ~tipMoved[r] => AtTip(s.withheld, s.results, s.rows)
  BY <1>1, <1>2 DEF IInv, Snapshot, SnapshotAt, RowsNow, UnconfirmedNow
<1>6. PICK n : /\ n = NextPage(r)
               /\ n.after = Cursor(r) /\ n.served = p.served \cup s.results
               /\ n.withheld = p.withheld \cup s.withheld
               /\ n.twice <=> (p.twice \/ p.served \cap s.results # {})
               /\ n.tip = confirmed /\ n.moved = p.moved
  <2>1. PICK again \in BOOLEAN : again = (p.twice \/ p.served \cap s.results # {})
    OBVIOUS
  <2>2. NextPage(r) = [after |-> Cursor(r), served |-> p.served \cup s.results,
                       withheld |-> p.withheld \cup s.withheld, twice |-> again,
                       tip |-> s.height, moved |-> p.moved]
    BY <1>2, <1>4, <2>1 DEF NextPage
  <2>3. /\ NextPage(r).after = Cursor(r) /\ NextPage(r).served = p.served \cup s.results
        /\ NextPage(r).withheld = p.withheld \cup s.withheld
        /\ NextPage(r).tip = confirmed /\ NextPage(r).moved = p.moved
    BY <1>5, <2>2
  <2>4. NextPage(r).twice = again
    BY <2>2
  <2> QED
    BY <2>1, <2>3, <2>4
<1>7. \A o \in {"a", "b", "c"} : s.rows = {o} => Cursor(r) = Key[o]
  BY <1>2 DEF Cursor
<1>8. Key["c"] = 1 /\ Key["a"] = 2 /\ Key["b"] = 3
  BY DEF Key
<1>9. PageOk(p, tipMoved[r])
  BY <1>2 DEF IInv, Pages
<1>10. s.results \cap s.withheld = {} /\ s.withheld \subseteq s.rows
  BY <1>5 DEF FoundOk
<1>11. CASE p.after = 0
  <2>1. p.served = {} /\ p.withheld = {} /\ ~p.twice /\ ~p.moved
    BY <1>9, <1>11 DEF PageOk, FirstPage
  <2>2. s.rows = {"c"}
    BY <1>2, <1>3, <1>5, <1>11, PageRows
  <2>3. Due(s) = ServedFirst(confirmed)
    BY <1>3, <1>5, <1>11, <2>2 DEF Due, SpentInMempool, ServedFirst
  <2>4. n.after = 1 /\ ~n.twice /\ n.served = s.results /\ n.withheld = s.withheld
    BY <1>6, <1>7, <1>8, <2>1, <2>2
  <2>5. n.withheld \subseteq Rows(n.tip)
    BY <1>6, <1>10, <2>2, <2>4 DEF Rows
  <2>6. ~tipMoved[r] => AtTip(n.withheld, n.served, Rows(n.tip))
    <3>1. s.results \cap Rows(confirmed) \subseteq s.rows
      BY <1>3, <1>5, <2>2, <2>3 DEF ServedFirst, Rows
    <3> QED
      BY <1>5, <1>6, <2>4, <3>1 DEF AtTip
  <2>7. confirmed /\ ~n.tip => pc[Loop] = "write2"
    BY <1>6
  <2> QED
    BY <1>5, <1>6, <1>10, <2>3, <2>4, <2>5, <2>6, <2>7 DEF PageOk
<1>12. CASE p.after # 0
  <2>1. p.tip = confirmed /\ ~p.moved
    BY <1>2, <1>4, <1>5, <1>12 DEF Steady
  <2>2. /\ ~p.twice /\ p.served \cap p.withheld = {} /\ p.withheld \subseteq Rows(confirmed)
        /\ ~tipMoved[r] => AtTip(p.withheld, p.served, Rows(confirmed))
        /\ \/ p.after = 1 /\ p.served \cup p.withheld = ServedFirst(confirmed)
           \/ p.after = (IF confirmed THEN 3 ELSE 2) /\ p.served \cup p.withheld = ServedAll(confirmed)
    BY <1>9, <1>12, <2>1 DEF PageOk
  <2>3. p.after = 1 /\ p.served \cup p.withheld = ServedFirst(confirmed)
    BY <1>2, <1>3, <1>4, <1>5, <2>2, PageRows DEF LastPage
  <2>4. s.rows = (IF confirmed THEN {"b"} ELSE {"a"}) /\ s.unconfirmed = {}
    BY <1>3, <1>5, <1>12, <2>3, PageRows
  <2>5. /\ Due(s) = (IF confirmed THEN {"b"} ELSE IF pending THEN {} ELSE {"a"})
        /\ ServedFirst(confirmed) = (IF pending /\ ~confirmed THEN {"b", "c"} ELSE {"c"})
        /\ ServedAll(confirmed) = (IF confirmed \/ pending THEN {"b", "c"} ELSE {"a", "c"})
    <3>1. Due(s) = {o \in s.rows : ~SpentInMempool(o)}
      BY <2>4 DEF Due
    <3>2. CASE confirmed
      BY <2>4, <3>1, <3>2 DEF SpentInMempool, ServedFirst, ServedAll
    <3>3. CASE ~confirmed
      BY <1>3, <2>4, <3>1, <3>3 DEF SpentInMempool, ServedFirst, ServedAll
    <3> QED
      BY <1>3, <3>2, <3>3
  <2>6. s.rows \subseteq Rows(confirmed)
    BY <2>4 DEF Rows
  <2>7. ServedFirst(confirmed) \cap Due(s) = {} /\ ServedFirst(confirmed) \cup Due(s) = ServedAll(confirmed)
    BY <1>3, <2>5
  <2>8. n.after = (IF confirmed THEN 3 ELSE 2)
    <3>1. CASE confirmed
      BY <1>6, <1>7, <1>8, <2>4, <3>1
    <3>2. CASE ~confirmed
      BY <1>6, <1>7, <1>8, <2>4, <3>2
    <3> QED
      BY <3>1, <3>2
  <2>9. ~n.twice
    BY <1>5, <1>6, <2>2, <2>3, <2>7
  <2>10. n.served \cap n.withheld = {} /\ n.served \cup n.withheld = ServedAll(confirmed)
    BY <1>5, <1>6, <1>10, <2>2, <2>3, <2>7
  <2>11. n.withheld \subseteq Rows(n.tip)
    BY <1>6, <1>10, <2>2, <2>6
  <2>12. ~tipMoved[r] => AtTip(n.withheld, n.served, Rows(n.tip))
    <3>1. s.results \subseteq s.rows
      BY <1>5, <2>4 DEF Due
    <3> QED
      BY <1>5, <1>6, <2>2, <3>1 DEF AtTip
  <2>13. confirmed /\ ~n.tip => pc[Loop] = "write2"
    BY <1>6
  <2>14. n.after # 0
    BY <2>8
  <2>15. n.after = (IF n.tip THEN 3 ELSE 2) /\ n.served \cup n.withheld = ServedAll(n.tip)
    BY <1>6, <2>8, <2>10
  <2> QED
    BY <1>6, <2>9, <2>10, <2>11, <2>12, <2>13, <2>14, <2>15 DEF PageOk
<1> QED
  BY <1>11, <1>12

LEMMA ReadEndsIInv ==
    ASSUME IInv, NEW r \in Reader, ReadEnds(r)
    PROVE  IInv'
<1>1. LockInv /\ r \in Process
  BY Parts, Identities
<1>2. /\ pc' = [pc EXCEPT ![r] = "idle"] /\ pc[r] = "done" /\ seen' = [seen EXCEPT ![r] = Nothing]
      /\ readers' = readers - 1 /\ writing' = writing /\ confirmed' = confirmed /\ pending' = pending
      /\ nodeTip' = nodeTip
  BY DEF ReadEnds, stores
<1>3. Wake \/ (waiters' = waiters /\ resumed' = resumed)
  BY DEF ReadEnds
<1>4. waiters' \in Seq(Process) /\ resumed' \in Seq(Process) /\ Queued'
  BY <1>1, <1>2, <1>3, WorkKeepsQueued, WakeKeepsQueued DEF LockInv
<1>5. /\ paging' \in [Pager -> PageType] /\ tipMoved' \in [Pager -> BOOLEAN]
      /\ \A q \in Pager : paging'[q] = IF q = r THEN NextPage(r) ELSE paging[q]
      /\ \A q \in Pager : q # r => tipMoved'[q] = tipMoved[q]
      /\ r \in Pager => (tipMoved'[r] <=> tipMoved[r] /\ NextPage(r).after # 0)
  <2>1. paging \in [Pager -> PageType] /\ tipMoved \in [Pager -> BOOLEAN]
    BY <1>1 DEF LockInv, Typed, PageType
  <2>2. CASE r \in Pager
    <3>1. NextPage(r) \in PageType
      BY <1>1, <2>2, NextPageTyped DEF LockInv
    <3>2. paging' = [paging EXCEPT ![r] = NextPage(r)]
      BY <2>2 DEF ReadEnds, PageEnds
    <3>3. tipMoved' = [tipMoved EXCEPT ![r] = tipMoved[r] /\ NextPage(r).after # 0]
      BY <2>2 DEF ReadEnds, PageEnds
    <3>4. PICK value \in BOOLEAN : value <=> tipMoved[r] /\ NextPage(r).after # 0
      OBVIOUS
    <3>5. tipMoved' = [tipMoved EXCEPT ![r] = value]
      BY <3>3, <3>4
    <3> QED
      BY <2>1, <2>2, <3>1, <3>2, <3>4, <3>5
  <2>3. CASE r \notin Pager
    BY <2>1, <2>3 DEF ReadEnds
  <2> QED
    BY <2>2, <2>3
<1>6. LockInv'
  <2>1. pc[r] \in ReadingAt /\ "idle" \notin ReadingAt
    BY <1>2 DEF ReadingAt
  <2>2. readers' = readers + 0 - 1
    BY <1>1, <1>2 DEF LockInv, Typed
  <2>3. seen' \in [Reader -> SeenType]
    BY <1>1, <1>2 DEF LockInv, Typed, SeenType, Nothing
  <2> QED
    BY <1>1, <1>2, <1>4, <1>5, <2>1, <2>2, <2>3, MoveLockInv DEF LockInv, Typed, Places
<1>7. \A q \in Process : pc'[q] = IF q = r THEN "idle" ELSE pc[q]
  BY <1>1, <1>2 DEF LockInv, Typed
<1>8. ASSUME NEW q \in Reader
      PROVE  SnapshotAt(q, pc[q], seen[q])'
  <2>1. PICK at, s : at = pc[q] /\ s = seen[q] /\ SnapshotAt(q, at, s)
    BY DEF IInv, Snapshot
  <2>2. CASE q # r
    <3>1. SnapshotAt(q, at, s)'
      BY <1>2, <1>5, <2>1, <2>2, SnapshotKept
    <3>2. pc'[q] = at /\ seen'[q] = s
      BY <1>1, <1>2, <1>7, <2>1, <2>2, Identities DEF LockInv, Typed
    <3> QED
      BY <3>1, <3>2
  <2>3. CASE q = r
    <3>1. pc'[q] = "idle" /\ seen'[q] = Nothing
      BY <1>1, <1>2, <1>7, <2>3 DEF LockInv, Typed
    <3> QED
      BY <3>1 DEF SnapshotAt, Looked, Nothing
  <2> QED
    BY <2>2, <2>3
<1>9. Pages'
  <2>1. pc'[Loop] = pc[Loop]
    BY <1>7, Identities
  <2>2. FirstPage.after = 0
    BY DEF FirstPage
  <2>3. ASSUME NEW q \in Pager
        PROVE  PageOk(paging[q], tipMoved[q])'
    <3>1. CASE q # r
      <4>1. PICK p, m : p = paging[q] /\ m = tipMoved[q] /\ PageOk(p, m)
        BY DEF IInv, Pages
      <4>2. paging'[q] = p /\ tipMoved'[q] = m
        BY <1>5, <3>1, <4>1
      <4>3. PageOk(p, m)'
        BY <1>2, <2>1, <4>1, PageKept
      <4> QED
        BY <4>2, <4>3
    <3>2. CASE q = r
      <4>1. PICK p, m : p = NextPage(r) /\ m = tipMoved[r]
        OBVIOUS
      <4>2. paging'[q] = p
        BY <1>5, <3>2, <4>1
      <4>3. CASE p = FirstPage
        BY <2>2, <4>2, <4>3 DEF PageOk
      <4>4. CASE p # FirstPage
        <5>1. PageOk(p, m) /\ p.after # 0
          BY <1>2, <3>2, <4>1, <4>4, NextPageContinues
        <5>2. tipMoved'[q] <=> m
          BY <1>5, <3>2, <4>1, <5>1
        <5>3. PageOk(p, m)'
          BY <1>2, <2>1, <5>1, PageKept
        <5> QED
          BY <4>2, <5>2, <5>3 DEF PageOk
      <4> QED
        BY <4>3, <4>4
    <3> QED
      BY <3>1, <3>2
  <2>4. pc'[Loop] = "write2" => confirmed'
    BY <1>2, <2>1 DEF IInv, Pages
  <2> QED
    BY <2>3, <2>4 DEF Pages
<1> QED
  BY <1>6, <1>8, <1>9, Closes DEF Snapshot

\* A commit meets no read, so every snapshot condition is void.
LEMMA CommitSnapshot ==
    ASSUME IInv, NEW w \in Writer, pc[w] \in WritingAt, NEW place, pc' = [pc EXCEPT ![w] = place],
           seen' = seen
    PROVE  Snapshot'
<1>1. \A r \in Reader : pc[r] \notin ReadingAt
  BY DEF IInv, Exclusion, Readings
<1>2. \A r \in Reader : pc'[r] = pc[r]
  BY Identities DEF IInv, TypeOK
<1>3. \A r \in Reader : Looked(seen[r]) = {}
  BY <1>1 DEF IInv, Snapshot, SnapshotAt, ReadingAt
<1>4. \A r \in Reader : pc'[r] \notin {"rows", "mempool", "probe", "done"}
  BY <1>1, <1>2 DEF ReadingAt
<1>5. \A r \in Reader : Looked(seen'[r]) = {}
  BY <1>3
<1> QED
  BY <1>4, <1>5 DEF Snapshot, SnapshotAt, Looked

\* The lock's part of a commit that ends (Release) and of its first half.
LEMMA CommitLockInv ==
    ASSUME IInv, NEW w \in Writer, pc[w] \in WritingAt, NEW place \in {"idle", "write2"},
           pc' = [pc EXCEPT ![w] = place], place = "write2" => w = Loop,
           \/ place = "write2" /\ waiters' = waiters /\ resumed' = resumed /\ writing' = writing
           \/ place = "idle" /\ Wake /\ writing' = FALSE,
           readers' = readers, seen' = seen, confirmed' \in BOOLEAN, pending' \in BOOLEAN,
           paging' \in [Pager -> PageType], nodeTip' = nodeTip, tipMoved' = tipMoved
    PROVE  LockInv'
<1>1. LockInv /\ w \in Process /\ w \notin Reader
  BY Parts, Identities
<1>2. waiters' \in Seq(Process) /\ resumed' \in Seq(Process) /\ Queued'
  BY <1>1, WorkKeepsQueued, WakeKeepsQueued DEF LockInv, WritingAt
<1>3. pc[w] \in HoldingAt /\ writing
  BY <1>1 DEF LockInv, Exclusion, WritingAt, HoldingAt
<1>4. readers = 0
  BY <1>1, ReadingsCounted DEF LockInv, Exclusion
<1>5. "idle" \notin HoldingAt /\ "write2" \in HoldingAt /\ place \in Places
  BY DEF HoldingAt, Places
<1>6. writing' = (IF place \in HoldingAt THEN TRUE ELSE IF pc[w] \in HoldingAt THEN FALSE ELSE writing)
  BY <1>1, <1>3, <1>5 DEF LockInv, Typed
<1>7. readers' = readers + 0 - 0
  BY <1>1 DEF LockInv, Typed
<1> QED
  BY <1>1, <1>2, <1>3, <1>4, <1>5, <1>6, <1>7, MoveLockInv DEF LockInv, Typed, SeenType

\* A commit to the confirmed store keeps what a pager may tell by the tip.
LEMMA CommitPage ==
    ASSUME NEW r, PageOk(paging[r], tipMoved[r]), paging' = paging, tipMoved' = tipMoved,
           pending' = pending, nodeTip' = nodeTip,
           \/ confirmed' = TRUE /\ pc'[Loop] = "write2"
           \/ confirmed' = FALSE
    PROVE  PageOk(paging[r], tipMoved[r])'
<1>1. PICK p, m : p = paging[r] /\ m = tipMoved[r] /\ PageOk(p, m)
  OBVIOUS
<1>2. AtTip(p.withheld, p.served, Rows(p.tip))' <=> AtTip(p.withheld, p.served, Rows(p.tip))
  BY DEF AtTip, Withheld, Confirmations, Rows
<1>3. PageOk(p, m)'
  BY <1>1, <1>2 DEF PageOk, ServedFirst, ServedAll, Rows
<1> QED
  BY <1>1, <1>3

LEMMA FlushConfirmedIInv == IInv /\ FlushConfirmed => IInv'
<1> SUFFICES ASSUME IInv, FlushConfirmed PROVE IInv'
  OBVIOUS
<1>1. /\ pc[Loop] = "write" /\ pc' = [pc EXCEPT ![Loop] = "write2"] /\ confirmed' = TRUE
      /\ readers' = readers /\ writing' = writing /\ waiters' = waiters /\ resumed' = resumed
      /\ pending' = pending /\ seen' = seen /\ paging' = paging /\ nodeTip' = nodeTip /\ tipMoved' = tipMoved
  BY DEF FlushConfirmed, lock, tips
<1>2. LockInv'
  BY <1>1, CommitLockInv, Identities DEF IInv, TypeOK, WritingAt, PageType
<1>3. Snapshot'
  BY <1>1, CommitSnapshot, Identities DEF WritingAt
<1>4. pc'[Loop] = "write2"
  BY <1>1, Identities DEF IInv, TypeOK
<1>5. ASSUME NEW r \in Pager
      PROVE  PageOk(paging[r], tipMoved[r])'
  BY <1>1, <1>4, CommitPage DEF IInv, Pages
<1>6. Pages'
  BY <1>1, <1>5 DEF Pages
<1> QED
  BY <1>2, <1>3, <1>6, Closes

\* A pager between two pages learns of every commit to the mempool store.
LEMMA EpochMovesPages ==
    ASSUME IInv, EpochMoves
    PROVE  /\ paging' \in [Pager -> PageType]
           /\ \A r \in Pager : /\ paging'[r].after = 0 => paging'[r] = FirstPage
                               /\ paging'[r].after # 0 => paging'[r].moved
<1>1. paging \in [Pager -> PageType]
  BY DEF IInv, TypeOK, PageType
<1>2. ASSUME NEW r \in Pager
      PROVE  /\ paging'[r] \in PageType
             /\ paging'[r].after = 0 => paging'[r] = FirstPage
             /\ paging'[r].after # 0 => paging'[r].moved
  <2>1. paging'[r] = IF paging[r].after = 0 THEN FirstPage
                     ELSE [FirstPage EXCEPT !.after = paging[r].after, !.moved = TRUE]
    BY DEF EpochMoves
  <2>2. paging[r] \in PageType
    BY <1>1
  <2>3. CASE paging[r].after = 0
    BY <2>1, <2>3 DEF PageType, FirstPage
  <2>4. CASE paging[r].after # 0
    <3>1. paging'[r] = [after |-> paging[r].after, served |-> {}, withheld |-> {}, twice |-> FALSE,
                        tip |-> FALSE, moved |-> TRUE]
      BY <2>1, <2>4 DEF FirstPage
    <3>2. paging[r].after \in 0 .. 3
      BY <2>2 DEF PageType
    <3> QED
      BY <2>4, <3>1, <3>2 DEF PageType
  <2> QED
    BY <2>3, <2>4
<1>3. paging' \in [Pager -> PageType]
  BY <1>2 DEF EpochMoves
<1> QED
  BY <1>2, <1>3

LEMMA MempoolCommitIInv ==
    ASSUME IInv, NEW w \in Writer, pc[w] \in WritingAt, pc[Loop] = "write2" => w = Loop,
           pending' \in BOOLEAN, EpochMoves, Release(w), UNCHANGED <<readers, confirmed, seen, tips>>
    PROVE  IInv'
<1>1. pc' = [pc EXCEPT ![w] = "idle"] /\ writing' = FALSE /\ Wake
  BY DEF Release
<1>2. LockInv'
  BY <1>1, CommitLockInv, EpochMovesPages DEF IInv, TypeOK, tips
<1>3. Snapshot'
  BY <1>1, CommitSnapshot
<1>4. pc'[Loop] # "write2"
  BY <1>1, Identities DEF IInv, TypeOK
<1>5. Pages'
  BY <1>4, EpochMovesPages DEF Pages, PageOk
<1> QED
  BY <1>2, <1>3, <1>5, Closes

LEMMA RollbackIInv == IInv /\ Rollback => IInv'
<1> SUFFICES ASSUME IInv, Rollback PROVE IInv'
  OBVIOUS
<1>1. /\ pc[Loop] = "write" /\ confirmed' = FALSE /\ pc' = [pc EXCEPT ![Loop] = "idle"]
      /\ writing' = FALSE /\ Wake
      /\ readers' = readers /\ pending' = pending /\ seen' = seen /\ paging' = paging
      /\ nodeTip' = nodeTip /\ tipMoved' = tipMoved
  BY DEF Rollback, Release, tips
<1>2. LockInv'
  BY <1>1, CommitLockInv, Identities DEF IInv, TypeOK, WritingAt, PageType
<1>3. Snapshot'
  BY <1>1, CommitSnapshot, Identities DEF WritingAt
<1>4. pc'[Loop] # "write2" /\ pc[Loop] # "write2"
  BY <1>1, Identities DEF IInv, TypeOK
<1>5. ASSUME NEW r \in Pager
      PROVE  PageOk(paging[r], tipMoved[r])'
  BY <1>1, <1>4, CommitPage DEF IInv, Pages
<1>6. Pages'
  BY <1>4, <1>5 DEF Pages
<1> QED
  BY <1>2, <1>3, <1>6, Closes

\* When the node's tip moves, what was withheld or served at the old one is no
\* longer claimed.
LEMMA RefreshNodeTipIInv == IInv /\ RefreshNodeTip => IInv'
<1> SUFFICES ASSUME IInv, RefreshNodeTip PROVE IInv'
  OBVIOUS
<1>1. /\ readers' = readers /\ writing' = writing /\ waiters' = waiters /\ resumed' = resumed /\ pc' = pc
      /\ confirmed' = confirmed /\ pending' = pending /\ seen' = seen /\ paging' = paging
      /\ nodeTip' \in NodeTips
  BY DEF RefreshNodeTip, lock, stores
<1>2. tipMoved' = [r \in Pager |-> tipMoved[r] \/ (nodeTip' # nodeTip /\ Midway(r))]
  BY DEF RefreshNodeTip
<1>3. ASSUME NEW r \in Pager
      PROVE  /\ tipMoved'[r] \in BOOLEAN
             /\ nodeTip' = nodeTip => tipMoved'[r] = tipMoved[r]
             /\ nodeTip' # nodeTip /\ Midway(r) => tipMoved'[r]
  BY <1>2 DEF IInv, TypeOK
<1>4. TypeOK' /\ Locations' /\ Queued'
  <2>1. tipMoved' \in [Pager -> BOOLEAN]
    BY <1>2, <1>3
  <2> QED
    BY <1>1, <2>1 DEF IInv, TypeOK, Locations, Queued
<1>5. Exclusion'
  BY <1>1 DEF IInv, Exclusion, Readings
<1>6. ASSUME NEW r \in Reader
      PROVE  SnapshotAt(r, pc[r], seen[r])'
  <2>1. PICK at, s : at = pc[r] /\ s = seen[r] /\ SnapshotAt(r, at, s)
    BY DEF IInv, Snapshot
  <2>2. pc'[r] = at /\ seen'[r] = s
    BY <1>1, <2>1
  <2>3. CASE nodeTip' = nodeTip
    <3>1. SnapshotAt(r, at, s)'
      BY <1>1, <1>3, <2>1, <2>3, SnapshotKept
    <3> QED
      BY <2>2, <3>1
  <2>4. CASE nodeTip' # nodeTip
    <3>1. RowsNow(r)' = RowsNow(r) /\ UnconfirmedNow(r)' = UnconfirmedNow(r)
      BY <1>1 DEF RowsNow, UnconfirmedNow, RowsFrom, Rows
    <3>2. /\ FoundOk(s)' <=> FoundOk(s)
          /\ Due(s)' = Due(s)
          /\ \A o : SpentInMempool(o)' <=> SpentInMempool(o)
      BY <1>1 DEF FoundOk, Due, SpentInMempool
    <3>3. at \in {"probe", "done"} /\ r \in Pager => tipMoved'[r]
      BY <1>3, <2>1, <2>4 DEF Midway
    <3>4. SnapshotAt(r, at, s)'
      BY <1>1, <2>1, <3>1, <3>2, <3>3 DEF SnapshotAt, Looked
    <3> QED
      BY <2>2, <3>4
  <2> QED
    BY <2>3, <2>4
<1>7. ASSUME NEW r \in Pager
      PROVE  PageOk(paging[r], tipMoved[r])'
  <2>1. PICK p, m : p = paging[r] /\ m = tipMoved[r] /\ PageOk(p, m)
    BY DEF IInv, Pages
  <2>2. paging'[r] = p
    BY <1>1, <2>1
  <2>3. CASE nodeTip' = nodeTip
    <3>1. PageOk(p, m)'
      BY <1>1, <2>1, <2>3, PageKept
    <3>2. tipMoved'[r] = m
      BY <1>3, <2>1, <2>3
    <3> QED
      BY <2>2, <3>1, <3>2
  <2>4. CASE nodeTip' # nodeTip
    <3>1. p.after # 0 => tipMoved'[r]
      BY <1>3, <2>1, <2>4 DEF Midway
    <3> QED
      BY <1>1, <2>1, <2>2, <3>1 DEF PageOk, ServedFirst, ServedAll, Rows
  <2> QED
    BY <2>3, <2>4
<1>8. Pages' /\ Snapshot'
  BY <1>1, <1>6, <1>7 DEF IInv, Pages, Snapshot
<1> QED
  BY <1>4, <1>5, <1>8 DEF IInv

LEMMA NextIInv == IInv /\ [Next]_vars => IInv'
<1> SUFFICES ASSUME IInv, [Next]_vars PROVE IInv'
  OBVIOUS
<1>1. ASSUME NEW r \in Reader, ReadNext(r)
      PROVE  IInv'
  BY <1>1, ReadWaitsIInv, ReadStartsIInv, ReadStepsIInv, ReadEndsIInv DEF ReadNext
<1>2. ASSUME NEW w \in Writer, LockNext(w)
      PROVE  IInv'
  BY <1>2, CommitEntersIInv
<1>3. CASE FlushConfirmed
  BY <1>3, FlushConfirmedIInv
<1>4. CASE FlushMempool
  BY <1>4, MempoolCommitIInv, Identities DEF FlushMempool, WritingAt
<1>5. CASE Rollback
  BY <1>5, RollbackIInv
<1>6. CASE Refresh
  <2>1. pc[Loop] # "write2"
    BY <1>6, Identities DEF IInv, Exclusion, Refresh, HoldingAt
  <2> QED
    BY <1>6, <2>1, MempoolCommitIInv, Identities DEF Refresh, WritingAt
<1>7. CASE UNCHANGED vars
  <2>1. /\ readers' = readers /\ writing' = writing /\ waiters' = waiters /\ resumed' = resumed
        /\ pc' = pc /\ confirmed' = confirmed /\ pending' = pending /\ seen' = seen /\ paging' = paging
        /\ nodeTip' = nodeTip /\ tipMoved' = tipMoved
    BY <1>7 DEF vars, lock, stores, tips
  <2>2. TypeOK' /\ Locations' /\ Queued'
    BY <2>1 DEF IInv, TypeOK, Locations, Queued
  <2>3. Exclusion'
    BY <2>1 DEF IInv, Exclusion, Readings
  <2>4. ASSUME NEW r \in Reader
        PROVE  SnapshotAt(r, pc[r], seen[r])'
    <3>1. PICK at, s : at = pc[r] /\ s = seen[r] /\ SnapshotAt(r, at, s)
      BY DEF IInv, Snapshot
    <3>2. SnapshotAt(r, at, s)'
      BY <2>1, <3>1, SnapshotKept
    <3> QED
      BY <2>1, <3>1, <3>2
  <2>5. Pages'
    BY <2>1, PagesKept DEF IInv
  <2> QED
    BY <2>2, <2>3, <2>4, <2>5 DEF IInv, Snapshot
<1>8. CASE RefreshNodeTip
  BY <1>8, RefreshNodeTipIInv
<1> QED
  BY <1>1, <1>2, <1>3, <1>4, <1>5, <1>6, <1>7, <1>8 DEF Next, LoopNext

LEMMA SpecIInv == Spec => []IInv
<1>1. Init => IInv
  BY InitIInv
<1>2. IInv /\ [Next]_vars => IInv'
  BY NextIInv
<1> QED
  BY <1>1, <1>2, PTL DEF Spec

-----------------------------------------------------------------------------
(***************************************************************************)
(* The theorems.                                                           *)
(***************************************************************************)

\* Types, with the lock's lists never longer than the number of processes: a
\* process waits or is resumed at most once (waitForLockChange).
THEOREM TypeCorrect == Spec => []TypeOK
BY SpecIInv, PTL DEF IInv

\* However many address reads run beside the sync loop and the mempool pass, a
\* finished unpaged read accounts for exactly one of the spent output and the
\* output that replaced it, served or withheld, its rows are those of the height
\* it reports, and the two balances add up to what it accounts for, wherever the
\* node's tip moves meanwhile (withStoreRead, readUtxosAddress,
\* addServableConfirmedUtxo, readBalanceInfo).
THEOREM ReadsConsistent == Spec => []ReadsAreConsistent
<1>1. IInv => ReadsAreConsistent
  <2> SUFFICES ASSUME IInv, NEW r \in Reader \ Pager, pc[r] = "done", NEW s, s = seen[r]
               PROVE  /\ s.height = ("b" \in s.rows)
                      /\ s.results \cap s.withheld = {}
                      /\ Cardinality((s.results \cup s.withheld) \cap {"a", "b"}) = 1
                      /\ ConfirmedBalance(s) + PendingBalance(s) = Cardinality(s.results \cup s.withheld)
    BY DEF ReadsAreConsistent
  <2>1. /\ s.height = confirmed /\ s.rows = Rows(confirmed)
        /\ s.unconfirmed = (IF pending THEN {"b"} ELSE {})
        /\ s.spent = {o \in s.rows : SpentInMempool(o)}
        /\ s.results \cup s.withheld = Due(s) /\ s.results \cap s.withheld = {}
    BY DEF IInv, Snapshot, SnapshotAt, FoundOk, RowsNow, UnconfirmedNow
  <2>2. confirmed \in BOOLEAN /\ pending \in BOOLEAN
    BY DEF IInv, TypeOK
  <2>3. /\ Cardinality({"a"}) = 1 /\ Cardinality({"b"}) = 1 /\ Cardinality({}) = 0
        /\ Cardinality({"a", "c"}) = 2 /\ Cardinality({"b", "c"}) = 2
    <3>1. /\ Cardinality({"a"}) = 1 /\ Cardinality({"b"}) = 1 /\ Cardinality({}) = 0
          /\ IsFiniteSet({"a"}) /\ IsFiniteSet({"b"})
      BY FS_Singleton, FS_EmptySet
    <3>2. {"a", "c"} = {"a"} \cup {"c"} /\ {"b", "c"} = {"b"} \cup {"c"} /\ "c" \notin {"a"} /\ "c" \notin {"b"}
      OBVIOUS
    <3>3. /\ Cardinality({"a"} \cup {"c"}) = Cardinality({"a"}) + 1
          /\ Cardinality({"b"} \cup {"c"}) = Cardinality({"b"}) + 1
      BY <3>1, <3>2, FS_AddElement, Zenon
    <3> QED
      BY <3>1, <3>2, <3>3
  <2>4. CASE confirmed
    <3>1. s.rows = {"b", "c"}
      BY <2>1, <2>4 DEF Rows
    <3>2. s.spent = {} /\ s.unconfirmed \ s.rows = {}
      BY <2>1, <3>1 DEF SpentInMempool
    <3>3. Due(s) = {"b", "c"} /\ {"b", "c"} \cap {"a", "b"} = {"b"}
      BY <2>4, <3>1 DEF Due, SpentInMempool
    <3>4. ConfirmedBalance(s) = 2 /\ PendingBalance(s) = 0
      BY <2>3, <3>1, <3>2 DEF ConfirmedBalance, PendingBalance
    <3>5. s.height = ("b" \in s.rows)
      BY <2>1, <2>2, <2>4, <3>1
    <3> QED
      BY <2>1, <2>3, <3>3, <3>4, <3>5
  <2>5. CASE ~confirmed /\ pending
    <3>1. s.rows = {"a", "c"} /\ s.unconfirmed = {"b"}
      BY <2>1, <2>5 DEF Rows
    <3>2. s.spent = {"a"} /\ s.unconfirmed \ s.rows = {"b"}
      BY <2>1, <2>5, <3>1 DEF SpentInMempool
    <3>3. Due(s) = {"b", "c"} /\ {"b", "c"} \cap {"a", "b"} = {"b"}
      BY <2>5, <3>1 DEF Due, SpentInMempool
    <3>4. ConfirmedBalance(s) = 2 /\ PendingBalance(s) = 0
      BY <2>3, <3>1, <3>2 DEF ConfirmedBalance, PendingBalance
    <3>5. s.height = ("b" \in s.rows)
      BY <2>1, <2>2, <2>5, <3>1
    <3> QED
      BY <2>1, <2>3, <3>3, <3>4, <3>5
  <2>6. CASE ~confirmed /\ ~pending
    <3>1. s.rows = {"a", "c"} /\ s.unconfirmed = {}
      BY <2>1, <2>6 DEF Rows
    <3>2. s.spent = {} /\ s.unconfirmed \ s.rows = {}
      BY <2>1, <2>6, <3>1 DEF SpentInMempool
    <3>3. Due(s) = {"a", "c"} /\ {"a", "c"} \cap {"a", "b"} = {"a"}
      BY <2>6, <3>1 DEF Due, SpentInMempool
    <3>4. ConfirmedBalance(s) = 2 /\ PendingBalance(s) = 0
      BY <2>3, <3>1, <3>2 DEF ConfirmedBalance, PendingBalance
    <3>5. s.height = ("b" \in s.rows)
      BY <2>1, <2>2, <2>6, <3>1
    <3> QED
      BY <2>1, <2>3, <3>3, <3>4, <3>5
  <2> QED
    BY <2>2, <2>4, <2>5, <2>6
<1> QED
  BY <1>1, SpecIInv, PTL

\* Pages that report one tip and one mempool epoch account together for each
\* output once, whatever was flushed, rolled back or refreshed between two of
\* them, and are one answer when the node's tip did not move either
\* (nextPageCursor, getOutputsScriptPubKey, addServableConfirmedUtxo).
THEOREM PagesAnswer == Spec => []PagesAreOneAnswer
<1>1. IInv => PagesAreOneAnswer
  <2> SUFFICES ASSUME IInv, NEW r \in Pager, pc[r] = "done", LastPage(r), Steady(r), NEW p, p = paging[r]
               PROVE  /\ ~p.twice /\ p.served \cap p.withheld = {}
                      /\ p.served \cup p.withheld = {"c", IF confirmed \/ pending THEN "b" ELSE "a"}
                      /\ ~tipMoved[r] => p.served = Answer(nodeTip)
    BY DEF PagesAreOneAnswer
  <2>1. r \in Reader
    BY Identities
  <2>2. seen[r].height = confirmed /\ seen[r].rows = RowsFrom(p.after)
    BY <2>1 DEF IInv, Snapshot, SnapshotAt, RowsNow
  <2>3. p.after \in 0 .. 3 /\ confirmed \in BOOLEAN /\ pending \in BOOLEAN
    BY DEF IInv, TypeOK
  <2>4. p.after # 0 /\ p.after # 1
    BY <2>2, <2>3, PageRows DEF LastPage
  <2>5. p.tip = confirmed /\ ~p.moved
    BY <2>2, <2>4 DEF Steady
  <2>6. /\ ~p.twice /\ p.served \cup p.withheld = ServedAll(confirmed)
        /\ p.served \cap p.withheld = {} /\ p.withheld \subseteq Rows(confirmed)
        /\ ~tipMoved[r] => AtTip(p.withheld, p.served, Rows(confirmed))
    BY <2>4, <2>5 DEF IInv, Pages, PageOk
  <2>7. ASSUME ~tipMoved[r]
        PROVE  p.served = Answer(nodeTip)
    <3>1. /\ \A o \in p.withheld : Withheld(o, nodeTip)
          /\ \A o \in p.served \cap Rows(confirmed) : ~Withheld(o, nodeTip)
      BY <2>6, <2>7 DEF AtTip
    <3>2. CASE confirmed
      <4>1. Rows(confirmed) = {"b", "c"} /\ ServedAll(confirmed) = {"b", "c"}
        BY <3>2 DEF Rows, ServedAll
      <4>2. Answer(nodeTip) = {o \in {"b", "c"} : ~Withheld(o, nodeTip)}
        BY <3>2, <4>1 DEF Answer, SpentInMempool
      <4> QED
        BY <2>6, <3>1, <4>1, <4>2
    <3>3. CASE ~confirmed
      <4>1. Rows(confirmed) = {"a", "c"} /\ ServedAll(confirmed) = {"c", IF pending THEN "b" ELSE "a"}
        BY <3>3 DEF Rows, ServedAll
      <4>2. CASE pending
        <5>1. Answer(nodeTip) = {o \in {"c"} : ~Withheld(o, nodeTip)} \cup {"b"}
          BY <3>3, <4>1, <4>2 DEF Answer, SpentInMempool
        <5> QED
          BY <2>6, <3>1, <4>1, <4>2, <5>1
      <4>3. CASE ~pending
        <5>1. Answer(nodeTip) = {o \in {"a", "c"} : ~Withheld(o, nodeTip)}
          BY <3>3, <4>1, <4>3 DEF Answer, SpentInMempool
        <5> QED
          BY <2>6, <3>1, <4>1, <4>3, <5>1
      <4> QED
        BY <4>2, <4>3
    <3> QED
      BY <3>2, <3>3
  <2> QED
    BY <2>6, <2>7 DEF ServedAll
<1> QED
  BY <1>1, SpecIInv, PTL

-----------------------------------------------------------------------------
(***************************************************************************)
(* No wake-up is lost.  A second invariant, over the first: the list of    *)
(* waiters is empty unless a commit holds the write side, whoever is       *)
(* blocked is in one of the two lists, and the commit that drains the      *)
(* reads waits only while there are some.                                  *)
(***************************************************************************)
InList(p, s) == \E i \in DOMAIN s : s[i] = p

WriteSideHeld == writing => \E w \in Writer : pc[w] \in HoldingAt
WaitersBlocked ==
    /\ waiters # <<>> => writing
    /\ \A p \in Process : pc[p] = "drain" /\ InList(p, waiters) => readers > 0
BlockedAreListed ==
    \A p \in Process : pc[p] \in {"enter", "drain"} => InList(p, waiters) \/ InList(p, resumed)

WakeInv == WriteSideHeld /\ WaitersBlocked /\ BlockedAreListed

\* Whenever someone waits for the lock and no continuation is due, a read or a
\* commit is under way that will wake the list when it ends (wakeLockWaiters).
SomeoneWakes ==
    waiters # <<>> /\ resumed = <<>> => \E p \in Process : pc[p] \in ReadingAt \cup WritingAt

LEMMA ListMembers ==
    ASSUME NEW S, NEW s \in Seq(S), NEW t \in Seq(S), NEW e \in S, NEW q
    PROVE  /\ ~InList(q, <<>>)
           /\ InList(q, Append(s, e)) <=> InList(q, s) \/ q = e
           /\ InList(q, s \o t) <=> InList(q, s) \/ InList(q, t)
           /\ s # <<>> /\ q # s[1] /\ InList(q, s) => InList(q, Tail(s))
<1> DEFINE m == Len(s)
           n == Len(t)
<1>1. m \in Nat /\ n \in Nat /\ DOMAIN s = 1 .. m /\ DOMAIN t = 1 .. n
  BY LenProperties
<1>2. ~InList(q, <<>>)
  BY DEF InList
<1>3. InList(q, Append(s, e)) <=> InList(q, s) \/ q = e
  <2> DEFINE a == Append(s, e)
  <2>1. DOMAIN a = 1 .. m + 1 /\ a[m + 1] = e /\ \A i \in 1 .. m : a[i] = s[i]
    BY AppendProperties, LenProperties
  <2> HIDE DEF a, m
  <2>2. \A i \in 1 .. m + 1 : i \in 1 .. m \/ i = m + 1
    BY <1>1
  <2>3. m + 1 \in 1 .. m + 1 /\ \A i \in 1 .. m : i \in 1 .. m + 1
    BY <1>1
  <2>4. InList(q, a) <=> InList(q, s) \/ q = e
    BY <1>1, <2>1, <2>2, <2>3 DEF InList
  <2> QED
    BY <2>4 DEF a
<1>4. InList(q, s \o t) <=> InList(q, s) \/ InList(q, t)
  <2> DEFINE a == s \o t
  <2>1. DOMAIN a = 1 .. m + n /\ \A i \in 1 .. m + n : a[i] = IF i <= m THEN s[i] ELSE t[i - m]
    BY ConcatProperties, LenProperties
  <2> HIDE DEF a, m, n
  <2>2. \A i \in 1 .. m : i \in 1 .. m + n /\ i <= m
    BY <1>1
  <2>3. \A i \in 1 .. n : i + m \in 1 .. m + n /\ ~(i + m <= m) /\ (i + m) - m = i
    BY <1>1
  <2>4. \A i \in 1 .. m + n : IF i <= m THEN i \in 1 .. m ELSE i - m \in 1 .. n
    BY <1>1
  <2>5. InList(q, a) => InList(q, s) \/ InList(q, t)
    BY <1>1, <2>1, <2>4 DEF InList
  <2>6. InList(q, s) => InList(q, a)
    BY <1>1, <2>1, <2>2 DEF InList
  <2>7. InList(q, t) => InList(q, a)
    BY <1>1, <2>1, <2>3 DEF InList
  <2> QED
    BY <2>5, <2>6, <2>7 DEF a
<1>5. ASSUME s # <<>>, q # s[1], InList(q, s)
      PROVE  InList(q, Tail(s))
  <2> DEFINE a == Tail(s)
  <2>1. a \in Seq(S) /\ Len(a) = m - 1 /\ \A i \in 1 .. Len(a) : a[i] = s[i + 1]
    BY <1>5, HeadTailProperties
  <2>2. DOMAIN a = 1 .. m - 1
    BY <2>1, LenProperties
  <2>3. PICK i \in 1 .. m : s[i] = q
    BY <1>1, <1>5 DEF InList
  <2> HIDE DEF a, m
  <2>4. i # 1
    BY <1>5, <2>3
  <2>5. i - 1 \in 1 .. m - 1 /\ (i - 1) + 1 = i
    BY <1>1, <2>3, <2>4
  <2>6. InList(q, a)
    BY <2>1, <2>2, <2>3, <2>5 DEF InList
  <2> QED
    BY <2>6 DEF a
<1> QED
  BY <1>2, <1>3, <1>4, <1>5

LEMMA ListTypes ==
    ASSUME IInv
    PROVE  /\ waiters \in Seq(Process) /\ resumed \in Seq(Process) /\ readers \in Int
           /\ \A p, q \in Process : \A place : [pc EXCEPT ![p] = place][q] = IF q = p THEN place ELSE pc[q]
           /\ Reader \subseteq Process /\ Writer \subseteq Process /\ Reader \cap Writer = {}
BY LockAssumption DEF IInv, TypeOK, Process, Writer

LEMMA PcMoves ==
    ASSUME IInv, NEW p \in Process, NEW place, pc' = [pc EXCEPT ![p] = place]
    PROVE  pc'[p] = place /\ \A q \in Process : q # p => pc'[q] = pc[q]
BY DEF IInv, TypeOK

\* A turn of p takes nobody else off the list of those to continue.
LEMMA TurnKeepsOthers ==
    ASSUME IInv, NEW p \in Process, NEW where, Runs(p, where)
    PROVE  \A q \in Process : q # p /\ InList(q, resumed) => InList(q, resumed')
<1>1. CASE UNCHANGED resumed
  BY <1>1
<1>2. CASE Resumes(p, where) /\ resumed' = Tail(resumed)
  BY <1>2, ListTypes, ListMembers DEF Resumes
<1> QED
  BY <1>1, <1>2 DEF Runs

\* A process whose turn it is waits again, or goes on.
LEMMA WaitsListed ==
    ASSUME IInv, WakeInv, NEW p \in Process, NEW where, Runs(p, where),
           NEW place \in {"enter", "drain"}, WaitForLockChange(p, place)
    PROVE  /\ BlockedAreListed'
           /\ \A q \in Process : InList(q, waiters') => InList(q, waiters) \/ q = p
<1>1. waiters' = Append(waiters, p) /\ pc' = [pc EXCEPT ![p] = place]
  BY DEF WaitForLockChange
<1>2. \A q \in Process : InList(q, waiters') <=> InList(q, waiters) \/ q = p
  BY <1>1, ListTypes, ListMembers
<1> QED
  BY <1>1, <1>2, ListTypes, TurnKeepsOthers DEF WakeInv, BlockedAreListed

LEMMA GoesOnListed ==
    ASSUME IInv, WakeInv, NEW p \in Process, NEW where, Runs(p, where),
           NEW place, place \notin {"enter", "drain"},
           waiters' = waiters, pc' = [pc EXCEPT ![p] = place]
    PROVE  BlockedAreListed'
BY ListTypes, TurnKeepsOthers DEF WakeInv, BlockedAreListed

LEMMA WorkListed ==
    ASSUME IInv, WakeInv, NEW p \in Process, NEW place, place \notin {"enter", "drain"},
           waiters' = waiters, resumed' = resumed, pc' = [pc EXCEPT ![p] = place]
    PROVE  BlockedAreListed'
BY ListTypes DEF WakeInv, BlockedAreListed

LEMMA WakeListed ==
    ASSUME IInv, WakeInv, NEW p \in Process, NEW place, place \notin {"enter", "drain"},
           Wake, pc' = [pc EXCEPT ![p] = place]
    PROVE  BlockedAreListed' /\ WaitersBlocked'
<1>1. waiters' = <<>> /\ resumed' = resumed \o waiters
  BY DEF Wake
<1>2. \A q \in Process : InList(q, resumed') <=> InList(q, resumed) \/ InList(q, waiters)
  BY <1>1, ListTypes, ListMembers
<1>3. \A q : ~InList(q, waiters')
  BY <1>1 DEF InList
<1> QED
  BY <1>1, <1>2, <1>3, ListTypes DEF WakeInv, BlockedAreListed, WaitersBlocked

LEMMA ReadNextWakes ==
    ASSUME IInv, WakeInv, NEW r \in Reader, ReadNext(r)
    PROVE  WakeInv'
<1>0. r \in Process /\ r \notin Writer /\ writing \in BOOLEAN
  BY ListTypes DEF IInv, TypeOK
<1>1. CASE ReadWaits(r)
  <2>1. /\ Runs(r, "enter") /\ writing /\ WaitForLockChange(r, "enter")
        /\ readers' = readers /\ writing' = writing /\ pc' = [pc EXCEPT ![r] = "enter"]
    BY <1>1 DEF ReadWaits, ReadBlocked, WaitForLockChange
  <2>2. BlockedAreListed' /\ \A q \in Process : InList(q, waiters') => InList(q, waiters) \/ q = r
    BY <1>0, <2>1, WaitsListed
  <2>4. pc'[r] = "enter" /\ \A q \in Process : q # r => pc'[q] = pc[q]
    BY <1>0, <2>1, PcMoves
  <2>5. WriteSideHeld'
    BY <1>0, <2>1, <2>4, ListTypes DEF WakeInv, WriteSideHeld
  <2>6. WaitersBlocked'
    BY <2>1, <2>2, <2>4 DEF WakeInv, WaitersBlocked
  <2> QED
    BY <2>2, <2>5, <2>6 DEF WakeInv
<1>2. CASE ReadStarts(r)
  <2>1. /\ Runs(r, "enter") /\ ~writing /\ waiters' = waiters /\ pc' = [pc EXCEPT ![r] = "height"]
        /\ writing' = writing
    BY <1>2 DEF ReadStarts, ReadBlocked
  <2>2. waiters' = <<>> /\ \A q : ~InList(q, waiters')
    BY <2>1 DEF WakeInv, WaitersBlocked, InList
  <2>3. BlockedAreListed'
    BY <1>0, <2>1, GoesOnListed
  <2> QED
    BY <2>1, <2>2, <2>3 DEF WakeInv, WriteSideHeld, WaitersBlocked
<1>3. CASE ReadHeight(r) \/ ReadRows(r) \/ ReadMempool(r) \/ ProbeRow(r) \/ ProbeMempool(r)
  <2>1. PICK place \in ReadingAt : pc' = [pc EXCEPT ![r] = place]
    BY <1>3 DEF ReadHeight, ReadRows, ReadMempool, ProbeRow, ProbeMempool, Step, ReadingAt
  <2>2. readers' = readers /\ writing' = writing /\ waiters' = waiters /\ resumed' = resumed
    BY <1>3 DEF ReadHeight, ReadRows, ReadMempool, ProbeRow, ProbeMempool, Step, lock
  <2>3. place \notin {"enter", "drain"}
    BY DEF ReadingAt
  <2>4. BlockedAreListed'
    BY <1>0, <2>1, <2>2, <2>3, WorkListed
  <2> QED
    BY <1>0, <2>1, <2>2, <2>3, <2>4, ListTypes DEF WakeInv, WriteSideHeld, WaitersBlocked
<1>4. CASE ReadEnds(r)
  <2>1. pc' = [pc EXCEPT ![r] = "idle"] /\ writing' = writing /\ readers' = readers - 1
    BY <1>4 DEF ReadEnds
  <2>2. WriteSideHeld'
    BY <1>0, <2>1, ListTypes DEF WakeInv, WriteSideHeld
  <2>3. CASE Wake
    BY <1>0, <2>1, <2>2, <2>3, WakeListed DEF WakeInv
  <2>4. CASE readers # 1 /\ waiters' = waiters /\ resumed' = resumed
    <3>1. BlockedAreListed'
      BY <1>0, <2>1, <2>4, WorkListed
    <3>2. WaitersBlocked'
      <4>1. readers > 0 /\ readers # 1 => readers - 1 > 0
        BY ListTypes
      <4> QED
        BY <1>0, <2>1, <2>4, <4>1, ListTypes DEF WakeInv, WaitersBlocked
    <3> QED
      BY <2>2, <3>1, <3>2 DEF WakeInv
  <2> QED
    BY <1>4, <2>3, <2>4 DEF ReadEnds, LastReader
<1> QED
  BY <1>1, <1>2, <1>3, <1>4 DEF ReadNext

LEMMA LockNextWakes ==
    ASSUME IInv, WakeInv, NEW w \in Writer, LockNext(w)
    PROVE  WakeInv'
<1>0. w \in Process
  BY ListTypes
<1>1. CASE CommitWaits(w)
  <2>1. /\ Runs(w, "enter") /\ writing /\ WaitForLockChange(w, "enter")
        /\ readers' = readers /\ writing' = writing /\ pc' = [pc EXCEPT ![w] = "enter"]
    BY <1>1 DEF CommitWaits, WaitForLockChange
  <2>2. BlockedAreListed' /\ \A q \in Process : InList(q, waiters') => InList(q, waiters) \/ q = w
    BY <1>0, <2>1, WaitsListed
  <2>4. pc'[w] = "enter" /\ \A q \in Process : q # w => pc'[q] = pc[q]
    BY <1>0, <2>1, PcMoves
  <2>3. pc[w] \notin HoldingAt
    BY <2>1 DEF Runs, Arrives, Resumes, HoldingAt
  <2>5. WriteSideHeld'
    BY <1>0, <2>1, <2>3, <2>4, ListTypes DEF WakeInv, WriteSideHeld
  <2>6. WaitersBlocked'
    BY <2>1, <2>2, <2>4 DEF WakeInv, WaitersBlocked
  <2> QED
    BY <2>2, <2>5, <2>6 DEF WakeInv
<1>2. CASE CommitTakes(w) \/ CommitDrains(w)
  <2>1. PICK where : Runs(w, where)
    BY <1>2 DEF CommitTakes, CommitDrains
  <2>2. writing' /\ readers' = readers
    <3>1. CASE CommitTakes(w)
      BY <3>1 DEF CommitTakes
    <3>2. CASE CommitDrains(w)
      <4>1. pc[w] = "drain"
        BY <3>2 DEF CommitDrains, Runs, Resumes
      <4> QED
        BY <3>2, <4>1 DEF CommitDrains, IInv, Exclusion, HoldingAt
    <3> QED
      BY <1>2, <3>1, <3>2
  <2>3. CASE readers > 0 /\ WaitForLockChange(w, "drain")
    <3>1. pc' = [pc EXCEPT ![w] = "drain"]
      BY <2>3 DEF WaitForLockChange
    <3>2. BlockedAreListed'
      BY <1>0, <2>1, <2>3, WaitsListed
    <3>3. WriteSideHeld'
      BY <1>0, <3>1, PcMoves DEF WriteSideHeld, HoldingAt
    <3> QED
      BY <2>2, <2>3, <3>2, <3>3 DEF WakeInv, WaitersBlocked
  <2>4. CASE pc' = [pc EXCEPT ![w] = "write"] /\ waiters' = waiters
    <3>1. BlockedAreListed'
      BY <1>0, <2>1, <2>4, GoesOnListed
    <3>2. WriteSideHeld'
      BY <1>0, <2>4, PcMoves DEF WriteSideHeld, HoldingAt
    <3> QED
      BY <1>0, <2>2, <2>4, <3>1, <3>2, ListTypes DEF WakeInv, WaitersBlocked
  <2> QED
    BY <1>2, <2>3, <2>4 DEF CommitTakes, CommitDrains
<1> QED
  BY <1>1, <1>2 DEF LockNext

LEMMA NextWakes == IInv /\ WakeInv /\ [Next]_vars => WakeInv'
<1> SUFFICES ASSUME IInv, WakeInv, [Next]_vars PROVE WakeInv'
  OBVIOUS
<1>0. Loop \in Writer /\ Pass \in Writer /\ Loop \in Process /\ Pass \in Process
  BY DEF Writer, Process
<1>1. CASE FlushConfirmed
  <2>1. /\ pc' = [pc EXCEPT ![Loop] = "write2"] /\ pc[Loop] = "write"
        /\ readers' = readers /\ writing' = writing /\ waiters' = waiters /\ resumed' = resumed
    BY <1>1 DEF FlushConfirmed, lock
  <2>2. BlockedAreListed'
    BY <1>0, <2>1, WorkListed
  <2>3. WriteSideHeld'
    BY <1>0, <2>1, ListTypes DEF WriteSideHeld, HoldingAt
  <2> QED
    BY <1>0, <2>1, <2>2, <2>3, ListTypes DEF WakeInv, WaitersBlocked
<1>2. ASSUME NEW w \in Writer, Release(w)
      PROVE  WakeInv'
  <2>1. Wake /\ pc' = [pc EXCEPT ![w] = "idle"] /\ ~writing'
    BY <1>2 DEF Release
  <2>2. BlockedAreListed' /\ WaitersBlocked'
    BY <2>1, ListTypes, WakeListed
  <2> QED
    BY <2>1, <2>2 DEF WakeInv, WriteSideHeld
<1>3. CASE FlushMempool \/ Rollback
  BY <1>0, <1>2, <1>3 DEF FlushMempool, Rollback
<1>4. CASE Refresh
  BY <1>0, <1>2, <1>4 DEF Refresh
<1>5. CASE UNCHANGED vars \/ RefreshNodeTip
  <2>1. UNCHANGED <<lock, pc>>
    BY <1>5 DEF vars, RefreshNodeTip
  <2> QED
    BY <2>1 DEF lock, WakeInv, WriteSideHeld, WaitersBlocked, BlockedAreListed
<1> QED
  BY <1>1, <1>3, <1>4, <1>5, ReadNextWakes, LockNextWakes DEF Next, LoopNext

(***************************************************************************)
(* No wake-up of the lock is lost: whenever a read or a commit waits and   *)
(* no continuation is due, some read or commit is under way, and it wakes  *)
(* the list when it ends.  This is what withStoreRead and withStoreCommit  *)
(* need not to block each other for ever, whatever the number of readers.  *)
(***************************************************************************)
THEOREM NoLostWakeup == Spec => []SomeoneWakes
<1>1. Init => WakeInv
  <2> SUFFICES ASSUME Init PROVE WakeInv
    OBVIOUS
  <2>1. ~writing /\ waiters = <<>> /\ \A p \in Process : pc[p] = "idle"
    BY DEF Init
  <2>2. \A q : ~InList(q, waiters)
    BY <2>1 DEF InList
  <2> QED
    BY <2>1, <2>2 DEF WakeInv, WriteSideHeld, WaitersBlocked, BlockedAreListed
<1>2. ASSUME IInv, WakeInv, waiters # <<>>, resumed = <<>>
      PROVE  \E p \in Process : pc[p] \in ReadingAt \cup WritingAt
  <2>1. PICK w \in Writer : pc[w] \in HoldingAt
    BY <1>2 DEF WakeInv, WriteSideHeld, WaitersBlocked
  <2>2. w \in Process
    BY <1>2, ListTypes
  <2>3. CASE pc[w] \in WritingAt
    BY <2>2, <2>3
  <2>4. CASE pc[w] = "drain"
    <3>1. ~InList(w, resumed)
      BY <1>2 DEF InList
    <3>2. readers > 0
      BY <1>2, <2>2, <2>4, <3>1 DEF WakeInv, WaitersBlocked, BlockedAreListed
    <3>3. Readings # {}
      <4>1. readers = Cardinality(Readings)
        BY <1>2 DEF IInv, Exclusion
      <4>2. Cardinality({}) = 0
        BY FS_EmptySet
      <4> QED
        BY <3>2, <4>1, <4>2
    <3> QED
      BY <3>3 DEF Readings, Process
  <2> QED
    BY <2>1, <2>3, <2>4 DEF HoldingAt, WritingAt
<1>3. IInv /\ WakeInv => SomeoneWakes
  BY <1>2 DEF SomeoneWakes
<1> QED
  BY <1>1, <1>3, NextWakes, SpecIInv, PTL DEF Spec
=============================================================================
