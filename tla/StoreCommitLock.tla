--------------------------- MODULE StoreCommitLock ---------------------------
(***************************************************************************)
(* withStoreRead and withStoreCommit, and the address reads and commits    *)
(* that run under them.  A read is several awaits long and looks at two    *)
(* stores; a block flush changes both, one after the other.  A paged       *)
(* request is a read per page, and anything may be committed between two.  *)
(*                                                                         *)
(* The data is one transaction x that spends output a and creates output b *)
(* of the address read, which also owns c: `confirmed' says whether a      *)
(* block with x has been committed (the store then holds b, else a),       *)
(* `pending' whether the mempool store holds x's records (its input a and  *)
(* its output b).  c is a coinbase of height 1, like a; b is of height 2.  *)
(* An output is served with its depth below the node's tip, as far as the  *)
(* tracker knows it, and withheld when that is negative or, for c, below   *)
(* the coin's maturity.                                                    *)
(***************************************************************************)
EXTENDS Integers, Sequences, FiniteSets

CONSTANTS
    Reader,  \* concurrent address reads
    Pager,   \* those that ask with ?limit=, one row to a page
    Loop,    \* the sync loop: flushes and rollbacks
    Pass,    \* the mempool pass: prunes and batches
    CoinbaseMaturity,
    NodeTips \* heights the node's tip is learnt at, or lost at a relaunch (-1)

Writer  == {Loop, Pass}
Process == Reader \cup Writer

ASSUME TipAssumption == CoinbaseMaturity \in Nat /\ NodeTips \subseteq Int

ASSUME LockAssumption == IsFiniteSet(Reader) /\ Pager \subseteq Reader /\ Loop \notin Reader /\ Pass \notin Reader /\ Loop # Pass

VARIABLES
    readers, writing,  \* lock.readers, lock.writing
    waiters,           \* lock.waiters: promises not resolved yet
    resumed,           \* resolved promises whose continuation has not run
    pc,                \* where each process is
    confirmed, pending,
    nodeTip,           \* blockchainInfoLastBlock, -1 when nothing is known
    seen,              \* what each read has collected
    paging,            \* what each pager keeps between its pages
    tipMoved           \* history: nodeTip has changed since the first page began

lock   == <<readers, writing, waiters, resumed>>
stores == <<confirmed, pending>>
tips   == <<nodeTip, tipMoved>>
vars   == <<lock, pc, stores, seen, paging, tips>>

(***************************************************************************)
(* rows, unconfirmed            the outputs scanned in the two stores      *)
(* spent, withheld, results     what became of those looked at so far      *)
(***************************************************************************)
Nothing == [height |-> FALSE, rows |-> {}, unconfirmed |-> {}, spent |-> {}, withheld |-> {}, results |-> {}]

(***************************************************************************)
(* after   the cursor, the key of the last row scanned, 0 on a first page  *)
(* served  the outputs of the pages so far; `twice', one was served again; *)
(*         `withheld', those that were not (history)                       *)
(* tip     the committed tip the first page reports                        *)
(* moved   mempool_epoch has grown since: it never goes back, so that is   *)
(*         all that a pager can tell by comparing two of its values        *)
(***************************************************************************)
FirstPage ==
    [after |-> 0, served |-> {}, withheld |-> {}, twice |-> FALSE, tip |-> FALSE, moved |-> FALSE]

Key    == [c |-> 1, a |-> 2, b |-> 3]
Height == [c |-> 1, a |-> 1, b |-> 2]
Rows(isConfirmed) == IF isConfirmed THEN {"b", "c"} ELSE {"a", "c"}

Init ==
    /\ readers = 0 /\ writing = FALSE /\ waiters = <<>> /\ resumed = <<>>
    /\ pc = [p \in Process |-> "idle"]
    /\ confirmed = FALSE /\ pending = FALSE /\ nodeTip = -1
    /\ tipMoved = [r \in Pager |-> FALSE]
    /\ seen = [r \in Reader |-> Nothing]
    /\ paging = [r \in Pager |-> FirstPage]

-----------------------------------------------------------------------------
(***************************************************************************)
(* What a request is answered with.                                        *)
(***************************************************************************)

\* addServableConfirmedUtxo withholds what would be served with a negative count
\* of confirmations, and an immature coinbase.
Confirmations(o, tip) == tip - Height[o] + 1
Withheld(o, tip) ==
    Confirmations(o, tip) < 0 \/ (o = "c" /\ Confirmations(o, tip) < CoinbaseMaturity)

\* A mempool input spends it.
SpentInMempool(o) == o = "a" /\ pending

\* Mutant: the confirmed outputs are not probed against the mempool.
ProbedUnspent(s, o) ==
    IF Withheld(o, nodeTip) THEN [s EXCEPT !.withheld = @ \cup {o}] ELSE [s EXCEPT !.results = @ \cup {o}]

\* One turn of readUtxosAddress's loop over the confirmed outputs.
Probed(s, o) ==
    IF SpentInMempool(o) THEN [s EXCEPT !.spent = @ \cup {o}]
    ELSE IF Withheld(o, nodeTip) THEN [s EXCEPT !.withheld = @ \cup {o}]
    ELSE [s EXCEPT !.results = @ \cup {o}]

\* What one read answers at this tip of the node: the confirmed outputs that are neither spent nor
\* withheld, and the mempool's unless the confirmed store has it as well.
Answer(tip) ==
    {o \in Rows(confirmed) : ~SpentInMempool(o) /\ ~Withheld(o, tip)}
        \cup (IF pending /\ ~confirmed THEN {"b"} ELSE {})

\* readBalanceInfo makes the same reads, here with every amount 1: it counts
\* confirmed outputs whether or not they are being spent, and withholds none.
ConfirmedBalance(s) == Cardinality(s.rows)
PendingBalance(s)   == Cardinality(s.unconfirmed \ s.rows) - Cardinality(s.spent)

\* nextPageCursor: a page that is not full is the last.
LastPage(r) == seen[r].rows = {}

\* The tip and the epoch that the pages report have not changed.
Steady(r) == paging[r].after = 0 \/ (seen[r].height = paging[r].tip /\ ~paging[r].moved)

\* The key of the page's row.
Cursor(r) == CHOOSE k \in {Key[o] : o \in seen[r].rows} : TRUE

\* A pager starts over when they have changed, as nextPageCursor asks of it.
NextPage(r) ==
    IF LastPage(r) \/ ~Steady(r) THEN FirstPage
    ELSE [after |-> Cursor(r), served |-> paging[r].served \cup seen[r].results,
          withheld |-> paging[r].withheld \cup seen[r].withheld,
          twice |-> paging[r].twice \/ paging[r].served \cap seen[r].results # {},
          tip |-> seen[r].height, moved |-> paging[r].moved]

-----------------------------------------------------------------------------
(***************************************************************************)
(* The event loop runs the continuations of resolved promises, in order,   *)
(* before it takes a new request or the completion of a store operation.   *)
(***************************************************************************)
QueueDrained == resumed = <<>>

Arrives(p) == pc[p] = "idle" /\ QueueDrained
Resumes(p, where) == pc[p] = where /\ resumed # <<>> /\ resumed[1] = p

\* A process runs its loop test; `turn' says how it came to do so.
Runs(p, where) ==
    \/ (where = "enter" /\ Arrives(p) /\ UNCHANGED resumed)
    \/ (Resumes(p, where) /\ resumed' = Tail(resumed))

WaitForLockChange(p, where) ==
    /\ waiters' = Append(waiters, p)
    /\ pc' = [pc EXCEPT ![p] = where]

\* Mutant: the list of waiters is emptied from its end.
WakeLastFirst ==
    /\ waiters' = <<>>
    /\ resumed' = resumed \o [i \in DOMAIN waiters |-> waiters[Len(waiters) + 1 - i]]

\* wakeLockWaiters.
Wake == waiters' = <<>> /\ resumed' = resumed \o waiters

ReadBlocked == writing

\* withStoreRead.
ReadWaits(r) ==
    /\ Runs(r, "enter")
    /\ ReadBlocked
    /\ WaitForLockChange(r, "enter")
    /\ UNCHANGED <<readers, writing, stores, seen, paging, tips>>

ReadStarts(r) ==
    /\ Runs(r, "enter")
    /\ ~ReadBlocked
    /\ readers' = readers + 1
    /\ pc' = [pc EXCEPT ![r] = "height"]
    /\ UNCHANGED <<writing, waiters, stores, seen, paging, tips>>

LastReader == readers = 1

PageEnds(r) ==
    /\ paging' = [paging EXCEPT ![r] = NextPage(r)]
    /\ tipMoved' = [tipMoved EXCEPT ![r] = @ /\ NextPage(r).after # 0]

ReadEnds(r) ==
    /\ pc[r] = "done" /\ QueueDrained
    /\ readers' = readers - 1
    /\ IF LastReader THEN Wake ELSE UNCHANGED <<waiters, resumed>>
    /\ pc' = [pc EXCEPT ![r] = "idle"]
    /\ seen' = [seen EXCEPT ![r] = Nothing]
    /\ IF r \in Pager THEN PageEnds(r) ELSE UNCHANGED <<paging, tipMoved>>
    /\ UNCHANGED <<writing, stores, nodeTip>>

\* withStoreCommit: take the write side, then wait for the reads to drain.
CommitWaits(w) ==
    /\ Runs(w, "enter")
    /\ writing
    /\ WaitForLockChange(w, "enter")
    /\ UNCHANGED <<readers, writing, stores, seen, paging, tips>>

\* Mutant: the reads drain first, and new ones may start meanwhile.
CommitTakesLast(w) ==
    /\ Runs(w, "enter")
    /\ ~writing
    /\ IF readers > 0 THEN WaitForLockChange(w, "enter") /\ UNCHANGED writing
       ELSE pc' = [pc EXCEPT ![w] = "write"] /\ writing' = TRUE /\ UNCHANGED waiters
    /\ UNCHANGED <<readers, stores, seen, paging, tips>>

CommitTakes(w) ==
    /\ Runs(w, "enter")
    /\ ~writing
    /\ writing' = TRUE
    /\ IF readers > 0 THEN WaitForLockChange(w, "drain")
       ELSE pc' = [pc EXCEPT ![w] = "write"] /\ UNCHANGED waiters
    /\ UNCHANGED <<readers, stores, seen, paging, tips>>

CommitDrains(w) ==
    /\ Runs(w, "drain")
    /\ IF readers > 0 THEN WaitForLockChange(w, "drain")
       ELSE pc' = [pc EXCEPT ![w] = "write"] /\ UNCHANGED waiters
    /\ UNCHANGED <<readers, writing, stores, seen, paging, tips>>

Release(w) ==
    /\ writing' = FALSE
    /\ Wake
    /\ pc' = [pc EXCEPT ![w] = "idle"]

-----------------------------------------------------------------------------
(***************************************************************************)
(* readUtxosAddress: the committed height and hash, the confirmed outputs, *)
(* the mempool outputs, then one probe of the mempool for each confirmed   *)
(* output, at whatever tip the node has by then, and for the mempool's.    *)
(***************************************************************************)
Step(r, from, to, value) ==
    /\ pc[r] = from /\ QueueDrained
    /\ pc' = [pc EXCEPT ![r] = to]
    /\ seen' = [seen EXCEPT ![r] = value]
    /\ UNCHANGED <<lock, stores, paging, tips>>

\* getOutputsScriptPubKey: every row, or the one after the cursor.
RowsFrom(after) ==
    LET rest == {o \in Rows(confirmed) : Key[o] > after}
    IN  {o \in rest : \A p \in rest : Key[o] <= Key[p]}

\* Mutant: only the rows of the page itself are known to be confirmed.
TwinOnPage(r) == "b" \in seen[r].rows

\* An output of both stores, whose block the node has left: paged reads ask the
\* confirmed store, the others their own rows.
Twin(r) == IF r \in Pager THEN confirmed ELSE "b" \in seen[r].rows

ReadHeight(r)  == Step(r, "height", "rows", [seen[r] EXCEPT !.height = confirmed])
ReadRows(r)    == Step(r, "rows", "mempool", [seen[r] EXCEPT !.rows =
                       IF r \in Pager THEN RowsFrom(paging[r].after) ELSE Rows(confirmed)])
ReadMempool(r) == Step(r, "mempool", "probe", [seen[r] EXCEPT !.unconfirmed =
                       IF pending /\ (r \in Pager => paging[r].after = 0) THEN {"b"} ELSE {}])

\* The confirmed outputs not looked at yet, and the next of them.
Unprobed(r) == seen[r].rows \ (seen[r].spent \cup seen[r].withheld \cup seen[r].results)
NextRow(r)  == CHOOSE o \in Unprobed(r) : \A p \in Unprobed(r) : Key[o] <= Key[p]

ProbeRow(r) ==
    /\ Unprobed(r) # {}
    /\ Step(r, "probe", "probe", Probed(seen[r], NextRow(r)))
ProbeMempool(r) ==
    /\ Unprobed(r) = {}
    /\ Step(r, "probe", "done", [seen[r] EXCEPT !.results =
              @ \cup (IF Twin(r) THEN {} ELSE seen[r].unconfirmed)])

-----------------------------------------------------------------------------
(***************************************************************************)
(* The commits.                                                            *)
(***************************************************************************)

\* mempoolEpoch++, in the section that commits to the mempool store.
\* The pages read before it are void: their pager will start over.
EpochMoves ==
    paging' = [r \in Pager |-> IF paging[r].after = 0 THEN FirstPage
                               ELSE [FirstPage EXCEPT !.after = paging[r].after, !.moved = TRUE]]

\* commitWithMempoolCleanup: the confirmed batch, then the mempool's cleanup.
FlushConfirmed ==
    /\ pc[Loop] = "write" /\ ~confirmed /\ QueueDrained
    /\ confirmed' = TRUE
    /\ pc' = [pc EXCEPT ![Loop] = "write2"]
    /\ UNCHANGED <<lock, pending, seen, paging, tips>>

FlushMempool ==
    /\ pc[Loop] = "write2" /\ QueueDrained
    /\ pending' = FALSE
    /\ EpochMoves
    /\ Release(Loop)
    /\ UNCHANGED <<readers, confirmed, seen, tips>>

\* rollBackTipBlock's commit.
Rollback ==
    /\ pc[Loop] = "write" /\ confirmed /\ QueueDrained
    /\ confirmed' = FALSE
    /\ Release(Loop)
    /\ UNCHANGED <<readers, pending, seen, paging, tips>>

\* A mempool batch or prune.  A node that has left the committed branch lists a
\* transaction that is confirmed here.
Refresh ==
    /\ pc[Pass] = "write" /\ QueueDrained
    /\ pending' \in BOOLEAN
    /\ EpochMoves
    /\ Release(Pass)
    /\ UNCHANGED <<readers, confirmed, seen, tips>>

\* A page is being read, or others are still to come.
Midway(r) == pc[r] \notin {"idle", "enter"} \/ paging[r].after # 0

\* refreshNodeTip, settleNodeTipBelow, or newSyncLoopState at a relaunch: the loop
\* learns of the node's tip between two commits, and no read waits for it.
RefreshNodeTip ==
    /\ pc[Loop] = "idle" /\ QueueDrained
    /\ nodeTip' \in NodeTips
    /\ tipMoved' = [r \in Pager |-> tipMoved[r] \/ (nodeTip' # nodeTip /\ Midway(r))]
    /\ UNCHANGED <<lock, pc, stores, seen, paging>>

-----------------------------------------------------------------------------
ReadNext(r) ==
    \/ ReadWaits(r) \/ ReadStarts(r) \/ ReadHeight(r) \/ ReadRows(r) \/ ReadMempool(r)
    \/ ProbeRow(r) \/ ProbeMempool(r) \/ ReadEnds(r)
LoopNext == FlushConfirmed \/ FlushMempool \/ Rollback
LockNext(w) == CommitWaits(w) \/ CommitTakes(w) \/ CommitDrains(w)

Next ==
    \/ \E r \in Reader : ReadNext(r)
    \/ \E w \in Writer : LockNext(w)
    \/ LoopNext \/ Refresh \/ RefreshNodeTip

(***************************************************************************)
(* A promise that is resolved continues, and a store operation that has    *)
(* been started completes and is served, whatever else the event loop has  *)
(* to do; that anyone begins one is not assumed.                           *)
(***************************************************************************)
Goes(p) == pc[p] # "idle"

Spec ==
    /\ Init /\ [][Next]_vars
    /\ \A r \in Reader : SF_vars(Goes(r) /\ ReadNext(r))
    /\ SF_vars(Goes(Loop) /\ (LockNext(Loop) \/ LoopNext))
    /\ SF_vars(Goes(Pass) /\ (LockNext(Pass) \/ Refresh))

-----------------------------------------------------------------------------
\* Types; a process waits or is resumed at most once.
TypeOK ==
    /\ readers \in 0 .. Cardinality(Reader) /\ writing \in BOOLEAN
    /\ waiters \in Seq(Process) /\ resumed \in Seq(Process)
    /\ Len(waiters) + Len(resumed) <= Cardinality(Process)
    /\ pc \in [Process -> {"idle", "enter", "drain", "height", "rows", "mempool", "probe",
                           "done", "write", "write2"}]
    /\ confirmed \in BOOLEAN /\ pending \in BOOLEAN
    /\ nodeTip \in {-1} \cup NodeTips /\ tipMoved \in [Pager -> BOOLEAN]
    /\ seen \in [Reader -> [height : BOOLEAN, rows : SUBSET {"a", "b", "c"}, unconfirmed : SUBSET {"b"},
                            spent : SUBSET {"a"}, withheld : SUBSET {"a", "b", "c"},
                            results : SUBSET {"a", "b", "c"}]]
    /\ paging \in [Pager -> [after : 0 .. 3, served : SUBSET {"a", "b", "c"},
                              withheld : SUBSET {"a", "b", "c"}, twice : BOOLEAN, tip : BOOLEAN,
                              moved : BOOLEAN]]

(***************************************************************************)
(* A finished read accounts for the spent output or for the one that       *)
(* replaced it, never for both and never for neither, and its rows are     *)
(* those of the height it reports: "A commit landing mid-read shows it a   *)
(* mix".  It serves the one it accounts for unless addServableConfirmed-   *)
(* Utxo withheld it, whose node tip may move from one output to the next.  *)
(* The two balances add up to what is served or withheld: x moves money,   *)
(* it makes and loses none.                                                *)
(***************************************************************************)
ReadsAreConsistent ==
    \A r \in Reader \ Pager : pc[r] = "done" =>
        LET s == seen[r] IN
        /\ s.height = ("b" \in s.rows)
        /\ s.results \cap s.withheld = {}
        /\ Cardinality((s.results \cup s.withheld) \cap {"a", "b"}) = 1
        /\ ConfirmedBalance(s) + PendingBalance(s) = Cardinality(s.results \cup s.withheld)

(***************************************************************************)
(* Pages that report one tip and one mempool epoch account together for    *)
(* each output once, whatever was committed between them, and are what one *)
(* read would have answered unless the node's tip moved between two        *)
(* outputs: what nextPageCursor tells pagers to rely on.                   *)
(***************************************************************************)
PagesAreOneAnswer ==
    \A r \in Pager : (pc[r] = "done" /\ LastPage(r) /\ Steady(r)) =>
        /\ ~paging[r].twice
        /\ paging[r].served \cap paging[r].withheld = {}
        /\ paging[r].served \cup paging[r].withheld = {"c", IF confirmed \/ pending THEN "b" ELSE "a"}
        /\ ~tipMoved[r] => paging[r].served = Answer(nodeTip)

\* And without that exception, as nextPageCursor has it: the pages are the answer
\* at some tip of the node.  TLC refutes it, as no label that a page carries moves
\* with blockchainInfoLastBlock.
LabelsTellPagers ==
    \A r \in Pager : (pc[r] = "done" /\ LastPage(r) /\ Steady(r)) =>
        \E tip \in {-1} \cup NodeTips : paging[r].served = Answer(tip)

\* Writer preference: a commit is not starved by reads that keep arriving, and
\* whoever leaves the lock wakes it (withStoreCommit, withStoreRead).
CommitsHappen == \A w \in Writer : pc[w] \in {"enter", "drain"} ~> pc[w] = "idle"

\* And a read is not starved by the two writers.
ReadsHappen == \A r \in Reader : pc[r] = "enter" ~> pc[r] = "idle"
=============================================================================
