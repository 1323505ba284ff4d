-------------------------- MODULE BlockFetchProofs --------------------------
(***************************************************************************)
(* Proofs about BlockFetch for every window, every number of endpoints and *)
(* retries, and every node.                                                *)
(***************************************************************************)
EXTENDS BlockFetch, FiniteSetTheorems, SequenceTheorems, TLAPS

(***************************************************************************)
(* The strengthening.                                                      *)
(***************************************************************************)

\* A block the strip cannot read lies in the prefetch window that begins at h.
Malformed(n, h) == InWindow(n.malformed, h)

\* A call that failed on what it read had a malformed block among its
\* heights; one the node answered with an error, a missing block or no txindex.
RejectedForCause(n, c) ==
    /\ c.res = "tagged" => /\ AuxPow /\ c.kind # "rebuild"
                           /\ \E m \in n.malformed : c.lo <= m /\ m <= c.hi
    /\ c.res = "missing" => \/ c.kind = "rebuild" /\ ~n.txindex
                            \/ \E m \in n.missing : c.lo <= m /\ m <= c.hi

\* The batches are in order, each of them begun and within one window.
BatchOK(n, b) ==
    /\ b.kind = "batch" /\ 1 <= b.lo /\ b.lo <= b.hi /\ b.hi < b.lo + PrefetchSize
    /\ b.res # "none" /\ RejectedForCause(n, b)
QueueOK(n, q) ==
    /\ \A i \in DOMAIN q : BatchOK(n, q[i])
    /\ \A i, j \in DOMAIN q : i < j => q[i].hi < q[j].lo
QueueOrdered == QueueOK(node, queue)

\* What the loop awaits is the block the cursor asks for.
AwaitedIsNext ==
    /\ waiting = "queue" => queue # <<>> /\ queue[1].lo = next
    /\ waiting = "call" => /\ call.kind \in {"direct", "rebuild"} /\ call.lo = next /\ call.hi = next
                           /\ queue = <<>>
    /\ waiting # "call" => call = NoCall
    /\ RejectedForCause(node, call)
    /\ desync => waiting = "no"

(***************************************************************************)
(* The two streaks are kept together, so that the failures at a height are *)
(* those the parse streak counts and those it does not.                    *)
(***************************************************************************)
StreaksTogether ==
    /\ blockFetch.height = parse.height /\ parse.count <= blockFetch.count
    /\ parse.count <= ReassembleAfter
    /\ parse.count > 0 => Malformed(node, parse.height)
    /\ call.kind = "rebuild" => Malformed(node, next)
    /\ waiting # "no" /\ call.kind # "rebuild" => ~ShouldReassemble
    /\ desync => blockFetch.height = next /\ blockFetch.count >= MaxFetchRetries

(***************************************************************************)
(* At a height that is not hopeless, each failure the parse streak does    *)
(* not count was an outage since the cursor came there: a streak left by a *)
(* rollback is of a height above the cursor.                               *)
(***************************************************************************)
OutagesCounted ==
    /\ blockFetch.height = NoHeight \/ blockFetch.height >= next
    /\ ~Hopeless(next) /\ blockFetch.height = next => blockFetch.count <= parse.count + lost

IInv == TypeOK /\ QueueOrdered /\ AwaitedIsNext /\ StreaksTogether /\ OutagesCounted
-----------------------------------------------------------------------------
Faults == {"refused", "timeout", "dropped"}

LEMMA ConstantFacts ==
    /\ Tip \in Nat /\ Tip >= 1 /\ PrefetchSize \in Nat /\ PrefetchSize >= 1
    /\ MaxTries \in Nat /\ MaxTries >= 1 /\ ReassembleAfter \in Nat /\ ReassembleAfter >= 1
    /\ FailoverThreshold \in Nat /\ FailoverThreshold >= 1 /\ Endpoints \in Nat /\ Endpoints >= 1
    /\ MaxFetchRetries \in Nat /\ MaxFaults \in Nat /\ MaxRewinds \in Nat
    /\ MaxOutages \in Nat
BY FetchAssumption

LEMMA NodeFacts ==
    ASSUME node \in Nodes
    PROVE  node.malformed \subseteq Int /\ node.missing \subseteq Int /\ node.txindex \in BOOLEAN
BY FetchAssumption, ConstantFacts

LEMMA NoCallFacts ==
    /\ NoCall \in Calls /\ NoCall.kind = "none" /\ NoCall.res = "none" /\ NoCall.lo = 0
    /\ ~InFlight(NoCall) /\ \A n : RejectedForCause(n, NoCall)
BY ConstantFacts DEF NoCall, Calls, RejectedForCause, InFlight

LEMMA BeginFacts ==
    ASSUME active \in 0 .. Endpoints - 1, NEW k \in {"batch", "direct", "rebuild"},
           NEW lo \in 0 .. Tip, NEW hi \in 0 .. Tip
    PROVE  /\ Begin(k, lo, hi) \in Calls /\ Begin(k, lo, hi).kind = k
           /\ Begin(k, lo, hi).lo = lo /\ Begin(k, lo, hi).hi = hi
           /\ Begin(k, lo, hi).res = "sent" /\ \A n : RejectedForCause(n, Begin(k, lo, hi))
BY ConstantFacts DEF Begin, Calls, RejectedForCause

LEMMA PlanFacts ==
    ASSUME NEW k
    PROVE  Len(Plan(k)) \in 1 .. 4
BY DEF Plan

Results == {"none", "sent", "asleep", "ok", "tagged", "missing", "failed"}

LEMMA CallFields ==
    ASSUME NEW c \in Calls
    PROVE  /\ c.kind \in {"none", "batch", "direct", "rebuild"}
           /\ c.lo \in 0 .. Tip /\ c.hi \in 0 .. Tip /\ c.leg \in 0 .. 4 /\ c.tries \in 0 .. MaxTries
           /\ c.at \in 0 .. Endpoints - 1
           /\ c.res \in Results
           /\ c = [kind |-> c.kind, lo |-> c.lo, hi |-> c.hi, leg |-> c.leg, tries |-> c.tries,
                   at |-> c.at, res |-> c.res]
BY DEF Calls, Rejected, Results

\* A step of a call changes its leg, tries, endpoint and result only.
SameCall(d, c) == d \in Calls /\ d.kind = c.kind /\ d.lo = c.lo /\ d.hi = c.hi

LEMMA SameAt ==
    ASSUME NEW c \in Calls, NEW a \in 0 .. Endpoints - 1, NEW r \in Results
    PROVE  SameCall([c EXCEPT !.at = a, !.res = r], c) /\ [c EXCEPT !.at = a, !.res = r].res = r
BY DEF SameCall, Calls, Rejected, Results

LEMMA SameLeg ==
    ASSUME NEW c \in Calls, NEW l \in 0 .. 4, NEW t \in 0 .. MaxTries
    PROVE  SameCall([c EXCEPT !.leg = l, !.tries = t], c) /\ [c EXCEPT !.leg = l, !.tries = t].res = c.res
BY DEF SameCall, Calls

\* Settling a call keeps what it was asked for.
LEMMA SettleFacts ==
    ASSUME NEW c \in Calls, NEW r \in {"ok", "tagged", "missing", "failed"}
    PROVE  SameCall(SettleAs(c, r), c) /\ SettleAs(c, r).res = r
  <1> DEFINE b == [c EXCEPT !.leg = 0, !.tries = 0]
  <1>1. 0 \in 0 .. 4 /\ 0 \in 0 .. MaxTries /\ 0 \in 0 .. Endpoints - 1 /\ r \in Results
    BY ConstantFacts DEF Results
  <1>2. SameCall(b, c)
    BY <1>1, SameLeg
  <1>3. SameCall([b EXCEPT !.at = 0, !.res = r], b) /\ [b EXCEPT !.at = 0, !.res = r].res = r
    BY <1>1, <1>2, SameAt DEF SameCall
  <1>4. SettleAs(c, r) = [b EXCEPT !.at = 0, !.res = r]
    BY DEF SettleAs, Calls
  <1> HIDE DEF b
  <1> QED
    BY <1>2, <1>3, <1>4 DEF SameCall

(***************************************************************************)
(* What one step of a call in flight makes of it: it stays the same call,  *)
(* and is rejected for its blocks only with cause.                         *)
(***************************************************************************)
LEMMA AfterFacts ==
    ASSUME node \in Nodes, active \in 0 .. Endpoints - 1,
           NEW c \in Calls, InFlight(c), NEW o \in Outcomes(c)
    PROVE  /\ SameCall(After(c, o), c)
           /\ Settled(After(c, o)) \/ InFlight(After(c, o))
           /\ RejectedForCause(node, After(c, o))
  <1> DEFINE d == After(c, o)
  <1>a. PICK a \in 0 .. Endpoints - 1 : a = active
    OBVIOUS
  <1>0. o \in {"resend", "answer"} \cup Faults
    BY DEF Outcomes, Faults
  <1>1. CASE o = "resend"
    <2>1. d = [c EXCEPT !.at = a, !.res = "sent"]
      BY <1>1, <1>a DEF After
    <2>2. "sent" \in Results
      BY DEF Results
    <2>3. \A r \in Results : SameCall([c EXCEPT !.at = a, !.res = r], c) /\ [c EXCEPT !.at = a, !.res = r].res = r
      BY SameAt
    <2>4. SameCall([c EXCEPT !.at = a, !.res = "sent"], c) /\ [c EXCEPT !.at = a, !.res = "sent"].res = "sent"
      BY <2>2, <2>3
    <2>5. SameCall(d, c) /\ d.res = "sent"
      BY <2>1, <2>4
    <2> QED
      BY <2>5 DEF RejectedForCause, InFlight
  <1>2. CASE o = "answer" /\ ~Unserved(c) /\ c.leg < Len(Plan(c.kind))
    <2> DEFINE b == [c EXCEPT !.leg = c.leg + 1, !.tries = MaxTries]
    <2>1. c.leg + 1 \in 0 .. 4 /\ MaxTries \in 0 .. MaxTries
      <3>1. PICK n \in 1 .. 4 : n = Len(Plan(c.kind))
        BY PlanFacts
      <3>2. c.leg \in 0 .. 4
        BY CallFields
      <3>3. c.leg < n
        BY <1>2, <3>1
      <3> QED
        BY <3>2, <3>3, ConstantFacts
    <2>2. SameCall(b, c) /\ b.res = c.res
      BY <2>1, SameLeg
    <2>3. SameCall([b EXCEPT !.at = a, !.res = c.res], b) /\ [b EXCEPT !.at = a, !.res = c.res].res = c.res
      <3>1. c.res \in Results /\ b \in Calls
        BY <2>2, CallFields DEF SameCall, Results
      <3>2. \A x \in Calls : SameCall([x EXCEPT !.at = a, !.res = c.res], x) /\ [x EXCEPT !.at = a, !.res = c.res].res = c.res
        BY <3>1, SameAt
      <3> HIDE DEF b
      <3> QED
        BY <3>1, <3>2
    <2>4. d = [b EXCEPT !.at = a, !.res = c.res]
      <3>1. d = [c EXCEPT !.leg = c.leg + 1, !.tries = MaxTries, !.at = a]
        BY <1>2, <1>a DEF After, Answered
      <3> QED
        BY <3>1 DEF Calls
    <2> HIDE DEF b
    <2> QED
      BY <2>2, <2>3, <2>4 DEF SameCall, RejectedForCause, InFlight
  <1>3. CASE o = "answer" /\ ~Unserved(c) /\ ~(c.leg < Len(Plan(c.kind)))
    <2>1. d = SettleAs(c, Yield(c))
      BY <1>3 DEF After, Answered
    <2>2. Yield(c) \in {"ok", "tagged"}
      BY DEF Yield
    <2>3. ASSUME Yield(c) = "tagged"
          PROVE  AuxPow /\ c.kind # "rebuild" /\ \E m \in node.malformed : c.lo <= m /\ m <= c.hi
      <3>1. c.kind # "rebuild" /\ \E h \in c.lo .. c.hi : StripThrows(h)
        BY <2>3 DEF Yield
      <3> QED
        BY <3>1, ConstantFacts DEF StripThrows, Calls
    <2> QED
      BY <2>1, <2>2, <2>3, SettleFacts DEF SameCall, RejectedForCause, Settled, Rejected
  <1>5. CASE o = "answer" /\ Unserved(c)
    <2>1. d = SettleAs(c, "missing")
      BY <1>5 DEF After, Answered
    <2>2. (c.kind = "rebuild" /\ ~node.txindex) \/ \E m \in node.missing : c.lo <= m /\ m <= c.hi
      <3>1. CASE \E h \in c.lo .. c.hi : h \in node.missing
        BY <3>1, CallFields, ConstantFacts
      <3>2. CASE ~\E h \in c.lo .. c.hi : h \in node.missing
        BY <1>5, <3>2 DEF Unserved
      <3> QED
        BY <3>1, <3>2
    <2> QED
      BY <2>1, <2>2, SettleFacts DEF SameCall, RejectedForCause, Settled, Rejected
  <1>4. CASE o \in Faults
    <2>1. d = Faulted(c, o)
      BY <1>4 DEF After, Faults
    <2>2. CASE Retries(c, o) /\ c.tries > 1
      <3> DEFINE b == [c EXCEPT !.leg = c.leg, !.tries = c.tries - 1]
      <3>1. c.tries - 1 \in 0 .. MaxTries /\ 0 \in 0 .. Endpoints - 1 /\ c.leg \in 0 .. 4
        <4>1. c.tries \in 0 .. MaxTries /\ c.leg \in 0 .. 4
          BY CallFields
        <4> QED
          BY <2>2, <4>1, ConstantFacts
      <3>2. SameCall(b, c)
        BY <3>1, SameLeg
      <3>3. SameCall([b EXCEPT !.at = 0, !.res = "asleep"], b) /\ [b EXCEPT !.at = 0, !.res = "asleep"].res = "asleep"
        BY <3>1, <3>2, SameAt DEF SameCall, Results
      <3>4. d = [b EXCEPT !.at = 0, !.res = "asleep"]
        <4>1. d = [c EXCEPT !.tries = c.tries - 1, !.at = 0, !.res = "asleep"]
          BY <2>1, <2>2 DEF Faulted
        <4> QED
          BY <4>1 DEF Calls
      <3> HIDE DEF b
      <3> QED
        BY <3>2, <3>3, <3>4 DEF SameCall, RejectedForCause, InFlight
    <2>3. CASE ~(Retries(c, o) /\ c.tries > 1)
      <3>1. d = SettleAs(c, "failed")
        BY <2>1, <2>3 DEF Faulted
      <3> QED
        BY <1>4, <3>1, SettleFacts DEF RejectedForCause, Settled, Rejected
    <2> QED
      BY <2>2, <2>3
  <1> QED
    BY <1>0, <1>1, <1>2, <1>3, <1>4, <1>5

\* What it does to the connector.
LEMMA ReachesFacts ==
    ASSUME active \in 0 .. Endpoints - 1, connectionFailures \in 0 .. FailoverThreshold - 1,
           faults \in 0 .. MaxFaults,
           NEW e, NEW o \in {"resend", "answer"} \cup Faults, Reaches(e, o)
    PROVE  /\ active' \in 0 .. Endpoints - 1 /\ connectionFailures' \in 0 .. FailoverThreshold - 1
           /\ faults' \in 0 .. MaxFaults
  <1>1. active' \in 0 .. Endpoints - 1 /\ connectionFailures' \in 0 .. FailoverThreshold - 1
    <2>1. UNCHANGED netVars \/ NodeAnswered \/ ConnectionFailed
      BY DEF Reaches
    <2>2. CASE UNCHANGED netVars
      BY <2>2 DEF netVars
    <2>3. CASE NodeAnswered
      BY <2>3, ConstantFacts DEF NodeAnswered
    <2>4. CASE ConnectionFailed
      <3>1. (active + 1) % Endpoints \in 0 .. Endpoints - 1
        BY ConstantFacts
      <3> QED
        BY <2>4, <3>1, ConstantFacts DEF ConnectionFailed, netVars
    <2> QED
      BY <2>1, <2>2, <2>3, <2>4
  <1>2. faults' = faults \/ (faults < MaxFaults /\ faults' = faults + 1)
    BY DEF Reaches
  <1> QED
    BY <1>1, <1>2, ConstantFacts

LEMMA OutcomesAre == \A c : Outcomes(c) \subseteq {"resend", "answer"} \cup Faults
BY DEF Outcomes, Faults
-----------------------------------------------------------------------------
(***************************************************************************)
(* The bag of calls nobody awaits.                                         *)
(***************************************************************************)
OrphansOK(B) == IsABag(B) /\ \A c \in BagToSet(B) : c \in Calls /\ InFlight(c)

LEMMA EmptyOrphans == OrphansOK(EmptyBag)
BY DEF OrphansOK, EmptyBag, SetToBag, IsABag, BagToSet

LEMMA OneOrphan ==
    ASSUME NEW c \in Calls, InFlight(c)
    PROVE  OrphansOK(SetToBag({c}))
BY DEF OrphansOK, SetToBag, IsABag, BagToSet

LEMMA MoreOrphans ==
    ASSUME NEW A, NEW B, OrphansOK(A), OrphansOK(B)
    PROVE  OrphansOK(A (+) B)
  <1> DEFINE C == A (+) B
  <1>1. DOMAIN C = DOMAIN A \cup DOMAIN B
    BY DEF (+)
  <1>2. \A e \in DOMAIN A : A[e] \in Nat /\ A[e] > 0
    BY DEF OrphansOK, IsABag
  <1>3. \A e \in DOMAIN B : B[e] \in Nat /\ B[e] > 0
    BY DEF OrphansOK, IsABag
  <1>4. ASSUME NEW e \in DOMAIN C
        PROVE  C[e] \in {n \in Nat : n > 0}
    <2>1. C[e] = (IF e \in DOMAIN A THEN A[e] ELSE 0) + (IF e \in DOMAIN B THEN B[e] ELSE 0)
      BY <1>1 DEF (+)
    <2> QED
      BY <1>1, <1>2, <1>3, <2>1
  <1>5. IsABag(C)
    <2>1. C = [e \in DOMAIN C |-> C[e]]
      BY DEF (+)
    <2> QED
      BY <1>4, <2>1 DEF IsABag
  <1> QED
    BY <1>1, <1>5 DEF OrphansOK, BagToSet

LEMMA FewerOrphans ==
    ASSUME NEW A, NEW B, OrphansOK(A), \A e \in DOMAIN B : B[e] = 1
    PROVE  OrphansOK(A (-) B)
  <1> DEFINE D == [e \in DOMAIN A |-> IF e \in DOMAIN B THEN A[e] - B[e] ELSE A[e]]
             S == {d \in DOMAIN D : D[d] > 0}
  <1>1. A (-) B = [e \in S |-> D[e]]
    BY DEF (-)
  <1>2. \A e \in S : e \in DOMAIN A /\ D[e] > 0 /\ D[e] \in Nat
    <2>1. \A e \in DOMAIN A : A[e] \in Nat /\ A[e] > 0
      BY DEF OrphansOK, IsABag
    <2> QED
      BY <2>1
  <1> HIDE DEF D, S
  <1> QED
    BY <1>1, <1>2 DEF OrphansOK, IsABag, BagToSet

\* What a dropped queue leaves behind is in flight.
LEMMA AbandonedFacts ==
    ASSUME NEW n, NEW q \in Seq(Calls), QueueOK(n, q)
    PROVE  OrphansOK(Abandoned(q))
  <1> DEFINE A == Abandoned(q)
             At(c) == {i \in Unsettled(q) : q[i] = c}
  <1>1. DOMAIN A = {q[i] : i \in Unsettled(q)} /\ \A c \in DOMAIN A : A[c] = Cardinality(At(c))
    BY DEF Abandoned
  <1>2. A = [c \in DOMAIN A |-> A[c]]
    BY DEF Abandoned
  <1>3. IsFiniteSet(DOMAIN q)
    <2>1. DOMAIN q = 1 .. Len(q) /\ Len(q) \in Nat
      BY LenProperties
    <2> QED
      BY <2>1, FS_Interval
  <1>4. ASSUME NEW c \in DOMAIN A
        PROVE  c \in Calls /\ InFlight(c) /\ A[c] \in Nat /\ A[c] > 0
    <2>1. PICK i \in Unsettled(q) : c = q[i]
      BY <1>1
    <2>2. i \in DOMAIN q /\ ~Settled(c) /\ c.res # "none"
      BY <2>1 DEF Unsettled, QueueOK, BatchOK
    <2>3. c \in Calls
      BY <2>1, <2>2, ElementOfSeq, LenProperties
    <2>4. IsFiniteSet(At(c))
      BY <1>3, FS_Subset DEF Unsettled
    <2>5. i \in At(c)
      BY <2>1
    <2>6. Cardinality(At(c)) \in Nat /\ Cardinality(At(c)) # 0
      <3> HIDE DEF At
      <3> QED
        BY <2>4, <2>5, FS_CardinalityType, FS_EmptySet
    <2>7. A[c] = Cardinality(At(c))
      BY <1>1
    <2>8. InFlight(c)
      BY <2>2, <2>3, CallFields DEF Settled, Rejected, Results, InFlight
    <2> HIDE DEF At, A
    <2> QED
      BY <2>3, <2>6, <2>7, <2>8
  <1> HIDE DEF A, At
  <1>5. OrphansOK(A)
    BY <1>2, <1>4 DEF OrphansOK, IsABag, BagToSet
  <1> QED
    BY <1>5 DEF A
-----------------------------------------------------------------------------
(***************************************************************************)
(* The prefetch queue.                                                     *)
(***************************************************************************)
LEMMA EmptyQueue == <<>> \in Seq(Calls) /\ \A n : QueueOK(n, <<>>)
BY DEF QueueOK

LEMMA QueueElement ==
    ASSUME NEW n, NEW q \in Seq(Calls), QueueOK(n, q), NEW i \in DOMAIN q
    PROVE  /\ DOMAIN q = 1 .. Len(q) /\ Len(q) \in Nat /\ q[i] \in Calls /\ BatchOK(n, q[i])
           /\ q[i].lo \in 1 .. Tip /\ q[i].hi \in 1 .. Tip
  <1>1. DOMAIN q = 1 .. Len(q) /\ Len(q) \in Nat /\ q[i] \in Calls /\ BatchOK(n, q[i])
    BY ElementOfSeq, LenProperties DEF QueueOK
  <1> QED
    BY <1>1, CallFields, ConstantFacts DEF BatchOK

LEMMA NonemptyQueue ==
    ASSUME NEW q \in Seq(Calls), q # <<>>
    PROVE  Len(q) \in Nat /\ Len(q) >= 1 /\ 1 \in DOMAIN q /\ Len(q) \in DOMAIN q
BY EmptySeq, LenProperties

\* fillPrefetchQueue keeps what is queued and begins at most one batch after it.
LEMMA FilledFacts ==
    ASSUME TypeOK, QueueOrdered
    PROVE  FilledQueue \in Seq(Calls) /\ QueueOK(node, FilledQueue)
  <1>0. queue \in Seq(Calls) /\ QueueOK(node, queue) /\ next \in 1 .. Tip + 1 /\ active \in 0 .. Endpoints - 1
    BY DEF TypeOK, QueueOrdered
  <1>1. CASE ~(BatchEnd > LastQueued)
    BY <1>0, <1>1 DEF FilledQueue
  <1>2. CASE BatchEnd > LastQueued
    <2>1. /\ LastQueued \in 0 .. Tip /\ Entries(queue) \in Nat
          /\ \A i \in DOMAIN queue : queue[i].hi <= LastQueued
      <3>1. CASE queue = <<>>
        BY <1>0, <3>1, ConstantFacts DEF LastQueued, Entries
      <3>2. CASE queue # <<>>
        <4> DEFINE k == Len(queue)
        <4>1. k \in Nat /\ k >= 1 /\ 1 \in DOMAIN queue /\ k \in DOMAIN queue /\ DOMAIN queue = 1 .. k
          BY <1>0, <3>2, NonemptyQueue, LenProperties
        <4>2. LastQueued = queue[k].hi /\ Entries(queue) = queue[k].hi - queue[1].lo + 1
          BY <3>2 DEF LastQueued, Entries
        <4>3. queue[1].lo \in 1 .. Tip /\ queue[1].hi \in 1 .. Tip /\ queue[1].lo <= queue[1].hi
          BY <1>0, <4>1, QueueElement DEF BatchOK
        <4>4. queue[k].lo \in 1 .. Tip /\ queue[k].hi \in 1 .. Tip /\ queue[k].lo <= queue[k].hi
          BY <1>0, <4>1, QueueElement DEF BatchOK
        <4>5. ASSUME NEW i \in DOMAIN queue
              PROVE  queue[i].hi <= queue[k].hi
          <5>1. CASE i = k
            BY <4>4, <5>1
          <5>2. CASE i # k
            <6>1. i < k
              BY <4>1, <5>2
            <6>2. queue[i].hi < queue[k].lo
              BY <1>0, <4>1, <6>1 DEF QueueOK
            <6>3. queue[i].hi \in 1 .. Tip
              BY <1>0, QueueElement
            <6> QED
              BY <4>4, <6>2, <6>3
          <5> QED
            BY <5>1, <5>2
        <4>6. queue[1].hi <= queue[k].hi
          BY <4>1, <4>5
        <4> HIDE DEF k
        <4> QED
          BY <4>2, <4>3, <4>4, <4>5, <4>6
      <3> QED
        BY <3>1, <3>2
    <2>2. BatchEnd \in 1 .. Tip /\ BatchEnd < LastQueued + 1 + PrefetchSize
      <3>1. PICK l \in 0 .. Tip : l = LastQueued
        BY <2>1
      <3>2. PICK e \in Nat : e = Entries(queue)
        BY <2>1
      <3>3. BatchEnd = IF l + PrefetchSize - e < Tip THEN l + PrefetchSize - e ELSE Tip
        BY <3>1, <3>2 DEF BatchEnd
      <3> QED
        BY <1>2, <3>1, <3>2, <3>3, ConstantFacts
    <2> DEFINE b == Begin("batch", LastQueued + 1, BatchEnd)
               m == Len(queue)
    <2>3. LastQueued + 1 \in 0 .. Tip /\ BatchEnd \in 0 .. Tip /\ 1 <= LastQueued + 1 /\ LastQueued + 1 <= BatchEnd
      <3>1. PICK l \in 0 .. Tip : l = LastQueued
        BY <2>1
      <3>2. PICK e \in 1 .. Tip : e = BatchEnd
        BY <2>2
      <3>3. l < e
        BY <1>2, <3>1, <3>2
      <3>4. l + 1 \in 0 .. Tip /\ e \in 0 .. Tip /\ 1 <= l + 1 /\ l + 1 <= e
        BY <3>3, ConstantFacts
      <3> QED
        BY <3>1, <3>2, <3>4
    <2>4. /\ b \in Calls /\ b.kind = "batch" /\ b.lo = LastQueued + 1 /\ b.hi = BatchEnd /\ b.res = "sent"
          /\ RejectedForCause(node, b)
      BY <1>0, <2>3, BeginFacts
    <2>5. BatchOK(node, b)
      <3> HIDE DEF b
      <3> QED
        BY <2>2, <2>3, <2>4 DEF BatchOK
    <2>6. FilledQueue = Append(queue, b)
      BY <1>2 DEF FilledQueue
    <2> HIDE DEF b
    <2>7. /\ FilledQueue \in Seq(Calls) /\ m \in Nat /\ DOMAIN queue = 1 .. m /\ DOMAIN FilledQueue = 1 .. m + 1
          /\ FilledQueue[m + 1] = b /\ \A i \in 1 .. m : FilledQueue[i] = queue[i]
      BY <1>0, <2>4, <2>6, AppendProperties, LenProperties
    <2> HIDE DEF m
    <2>8. \A i \in 1 .. m + 1 : i \in 1 .. m \/ i = m + 1
      BY <2>7
    <2>9. \A i \in DOMAIN FilledQueue : BatchOK(node, FilledQueue[i])
      BY <1>0, <2>5, <2>7, <2>8 DEF QueueOK
    <2>10. ASSUME NEW i \in DOMAIN FilledQueue, NEW j \in DOMAIN FilledQueue, i < j
           PROVE  FilledQueue[i].hi < FilledQueue[j].lo
      <3>1. i \in 1 .. m
        BY <2>7, <2>10
      <3>2. CASE j \in 1 .. m
        BY <1>0, <2>7, <2>10, <3>1, <3>2 DEF QueueOK
      <3>3. CASE j = m + 1
        <4>1. queue[i].hi <= LastQueued /\ queue[i].hi \in 1 .. Tip
          BY <1>0, <2>1, <2>7, <3>1, QueueElement
        <4>2. LastQueued \in 0 .. Tip
          BY <2>1
        <4>3. queue[i].hi < LastQueued + 1
          BY <4>1, <4>2
        <4> QED
          BY <2>4, <2>7, <3>1, <3>3, <4>3
      <3> QED
        BY <2>7, <2>8, <3>2, <3>3
    <2> QED
      BY <2>7, <2>9, <2>10 DEF QueueOK
  <1> QED
    BY <1>1, <1>2

LEMMA Replaced ==
    ASSUME NEW q \in Seq(Calls), NEW i \in DOMAIN q, NEW d \in Calls
    PROVE  /\ [q EXCEPT ![i] = d] \in Seq(Calls) /\ DOMAIN [q EXCEPT ![i] = d] = DOMAIN q
           /\ [q EXCEPT ![i] = d][i] = d /\ \A j \in DOMAIN q : j # i => [q EXCEPT ![i] = d][j] = q[j]
BY ExceptSeq

\* Taking the first entry leaves the rest of its batch, or the other batches.
TakenFirst(q) == IF q[1].lo = q[1].hi THEN Tail(q) ELSE [q EXCEPT ![1].lo = @ + 1]

LEMMA TakenFacts ==
    ASSUME NEW n, NEW q \in Seq(Calls), QueueOK(n, q), q # <<>>, q[1].res = "ok"
    PROVE  TakenFirst(q) \in Seq(Calls) /\ QueueOK(n, TakenFirst(q))
  <1> DEFINE k == Len(q)
  <1>1. k \in Nat /\ k >= 1 /\ DOMAIN q = 1 .. k /\ 1 \in DOMAIN q
    BY NonemptyQueue, LenProperties
  <1>2. /\ q[1] \in Calls /\ BatchOK(n, q[1]) /\ q[1].lo \in 1 .. Tip /\ q[1].hi \in 1 .. Tip
    BY <1>1, QueueElement
  <1>3. CASE q[1].lo = q[1].hi
    <2> DEFINE t == Tail(q)
    <2>1. t \in Seq(Calls) /\ Len(t) = k - 1 /\ \A i \in 1 .. Len(t) : t[i] = q[i + 1]
      BY HeadTailProperties
    <2>2. DOMAIN t = 1 .. k - 1
      BY <2>1, LenProperties
    <2>3. TakenFirst(q) = t
      BY <1>3 DEF TakenFirst
    <2> HIDE DEF t, k
    <2>4. \A i \in DOMAIN t : i + 1 \in DOMAIN q /\ t[i] = q[i + 1]
      BY <1>1, <2>1, <2>2
    <2>5. \A i, j \in DOMAIN t : i < j => i + 1 < j + 1
      BY <2>2
    <2>6. QueueOK(n, t)
      BY <2>4, <2>5 DEF QueueOK
    <2> QED
      BY <2>1, <2>3, <2>6
  <1>4. CASE q[1].lo # q[1].hi
    <2> DEFINE b == [q[1] EXCEPT !.lo = q[1].lo + 1]
               t == [q EXCEPT ![1] = b]
    <2>1. q[1].lo + 1 \in 0 .. Tip /\ q[1].lo < q[1].hi
      <3>1. q[1].lo <= q[1].hi
        BY <1>2 DEF BatchOK
      <3>2. \A l, h \in 1 .. Tip : l <= h /\ l # h => l + 1 \in 0 .. Tip /\ l < h
        BY ConstantFacts
      <3> QED
        BY <1>2, <1>4, <3>1, <3>2
    <2>2. b \in Calls
      BY <1>2, <2>1 DEF Calls
    <2>3. b.lo = q[1].lo + 1 /\ b.hi = q[1].hi /\ b.kind = q[1].kind /\ b.res = "ok"
      BY <1>2 DEF Calls
    <2>4. TakenFirst(q) = t
      BY <1>4 DEF TakenFirst
    <2> HIDE DEF b
    <2>5. BatchOK(n, b)
      BY <1>2, <2>1, <2>3, ConstantFacts DEF BatchOK, RejectedForCause
    <2>6. t \in Seq(Calls) /\ DOMAIN t = DOMAIN q /\ t[1] = b /\ \A i \in DOMAIN q : i # 1 => t[i] = q[i]
      BY <1>1, <2>2, Replaced
    <2> HIDE DEF t
    <2>7. \A i \in DOMAIN t : BatchOK(n, t[i])
      BY <2>5, <2>6 DEF QueueOK
    <2>8. ASSUME NEW i \in DOMAIN t, NEW j \in DOMAIN t, i < j
          PROVE  t[i].hi < t[j].lo
      <3>1. j # 1
        BY <1>1, <2>6, <2>8
      <3>2. t[i].hi = q[i].hi
        BY <2>3, <2>6
      <3> QED
        BY <2>6, <2>8, <3>1, <3>2 DEF QueueOK
    <2> QED
      BY <2>4, <2>6, <2>7, <2>8 DEF QueueOK
  <1> QED
    BY <1>3, <1>4

\* A step of one batch keeps the order of the queue.
LEMMA SteppedFacts ==
    ASSUME NEW n, NEW q \in Seq(Calls), QueueOK(n, q), NEW i \in DOMAIN q, NEW d,
           SameCall(d, q[i]), RejectedForCause(n, d), d.res # "none"
    PROVE  /\ [q EXCEPT ![i] = d] \in Seq(Calls) /\ QueueOK(n, [q EXCEPT ![i] = d])
           /\ DOMAIN [q EXCEPT ![i] = d] = DOMAIN q
           /\ \A j \in DOMAIN q : [q EXCEPT ![i] = d][j].lo = q[j].lo
  <1> DEFINE t == [q EXCEPT ![i] = d]
  <1>1. t \in Seq(Calls) /\ DOMAIN t = DOMAIN q /\ t[i] = d /\ \A j \in DOMAIN q : j # i => t[j] = q[j]
    BY Replaced DEF SameCall
  <1> HIDE DEF t
  <1>2. \A j \in DOMAIN q : t[j].lo = q[j].lo /\ t[j].hi = q[j].hi /\ t[j].kind = q[j].kind
    BY <1>1 DEF SameCall
  <1>3. \A j \in DOMAIN q : t[j].res # "none" /\ RejectedForCause(n, t[j])
    BY <1>1 DEF QueueOK, BatchOK
  <1>4. QueueOK(n, t)
    BY <1>1, <1>2, <1>3 DEF QueueOK, BatchOK
  <1> QED
    BY <1>1, <1>2, <1>4 DEF t
-----------------------------------------------------------------------------
(***************************************************************************)
(* The invariant.                                                          *)
(***************************************************************************)
LEMMA InitIInv == Init => IInv
  <1> SUFFICES ASSUME Init
               PROVE  IInv
    OBVIOUS
  <1> USE DEF Init
  <1>1. TypeOK
    <2>1. OrphansOK(orphans)
      BY EmptyOrphans
    <2>2. NoStreak \in [height : 0 .. Tip, count : Nat]
      BY ConstantFacts DEF NoStreak, NoHeight
    <2>3. {blockFetch, parse} \subseteq [height : 0 .. Tip, count : Nat]
      BY <2>2
    <2>4. next \in 1 .. Tip + 1 /\ got \in 0 .. Tip /\ active \in 0 .. Endpoints - 1
      BY ConstantFacts DEF NoHeight
    <2>5. connectionFailures \in 0 .. FailoverThreshold - 1 /\ faults \in 0 .. MaxFaults /\ rewinds \in 0 .. MaxRewinds
      BY ConstantFacts
    <2>9. outages \in 0 .. MaxOutages /\ lost \in Nat
      BY ConstantFacts
    <2>6. waiting \in {"no", "queue", "call"} /\ node \in Nodes
      OBVIOUS
    <2>7. desync \in BOOLEAN
      OBVIOUS
    <2>8. queue \in Seq(Calls) /\ call \in Calls
      BY NoCallFacts, EmptyQueue
    <2> QED
      BY <2>1, <2>3, <2>4, <2>5, <2>6, <2>7, <2>8, <2>9 DEF TypeOK, OrphansOK
  <1>2. QueueOrdered
    BY EmptyQueue DEF QueueOrdered
  <1>3. AwaitedIsNext
    BY NoCallFacts DEF AwaitedIsNext
  <1>4. StreaksTogether
    BY NoCallFacts, ConstantFacts DEF StreaksTogether, NoStreak
  <1>5. OutagesCounted
    BY DEF OutagesCounted, NoStreak, NoHeight
  <1> QED
    BY <1>1, <1>2, <1>3, <1>4, <1>5 DEF IInv

(***************************************************************************)
(* A step of the connector: the loop stands still, and a call keeps what   *)
(* it is for.                                                              *)
(***************************************************************************)
LEMMA ConnectorStep ==
    ASSUME IInv, UNCHANGED <<node, outages, loopVars>>,
           NEW e, NEW o \in {"resend", "answer"} \cup Faults, Reaches(e, o),
           queue' \in Seq(Calls), QueueOK(node, queue'), OrphansOK(orphans'),
           queue = <<>> => queue' = <<>>,
           queue # <<>> => queue' # <<>> /\ queue'[1].lo = queue[1].lo,
           SameCall(call', call), call = NoCall => call' = NoCall, RejectedForCause(node, call')
    PROVE  IInv'
  <1>0. /\ node' = node /\ next' = next /\ waiting' = waiting /\ got' = got /\ blockFetch' = blockFetch
        /\ parse' = parse /\ desync' = desync /\ rewinds' = rewinds /\ lost' = lost /\ outages' = outages
    BY DEF loopVars
  <1>1. /\ active' \in 0 .. Endpoints - 1 /\ connectionFailures' \in 0 .. FailoverThreshold - 1
        /\ faults' \in 0 .. MaxFaults
    BY ReachesFacts DEF IInv, TypeOK
  <1>2. TypeOK'
    <2>1. call' \in Calls
      BY DEF SameCall
    <2> QED
      BY <1>0, <1>1, <2>1 DEF IInv, TypeOK, OrphansOK
  <1>3. QueueOrdered'
    BY <1>0 DEF QueueOrdered
  <1>4. AwaitedIsNext'
    BY <1>0 DEF IInv, AwaitedIsNext, SameCall
  <1>5. StreaksTogether'
    <2>1. ShouldReassemble' <=> ShouldReassemble
      BY <1>0 DEF ShouldReassemble
    <2> QED
      BY <1>0, <2>1 DEF IInv, StreaksTogether, SameCall
  <1>6. OutagesCounted'
    BY <1>0 DEF IInv, OutagesCounted, Hopeless
  <1> QED
    BY <1>2, <1>3, <1>4, <1>5, <1>6 DEF IInv

LEMMA TypeFacts ==
    ASSUME IInv
    PROVE  /\ node \in Nodes /\ active \in 0 .. Endpoints - 1 /\ queue \in Seq(Calls) /\ call \in Calls
           /\ QueueOK(node, queue) /\ OrphansOK(orphans) /\ RejectedForCause(node, call)
BY DEF IInv, TypeOK, OrphansOK, QueueOrdered, AwaitedIsNext

LEMMA CallStepsIInv == IInv /\ CallSteps => IInv'
  <1> SUFFICES ASSUME IInv, CallSteps
               PROVE  IInv'
    OBVIOUS
  <1>1. PICK o \in Outcomes(call) : Reaches(call.at, o) /\ call' = After(call, o)
    BY DEF CallSteps
  <1>2. /\ InFlight(call) /\ UNCHANGED <<node, outages, loopVars>> /\ queue' = queue /\ orphans' = orphans
    BY DEF CallSteps
  <1>3. SameCall(call', call) /\ RejectedForCause(node, call')
    BY <1>1, <1>2, TypeFacts, AfterFacts
  <1>4. call # NoCall
    BY <1>2, NoCallFacts
  <1>6. o \in {"resend", "answer"} \cup Faults
    BY OutcomesAre
  <1> QED
    BY <1>1, <1>2, <1>3, <1>4, <1>6, TypeFacts, ConnectorStep

LEMMA SameCallIsSame == \A c \in Calls : SameCall(c, c)
BY DEF SameCall

LEMMA BatchStepsIInv == ASSUME NEW i \in DOMAIN queue PROVE IInv /\ BatchSteps(i) => IInv'
  <1> SUFFICES ASSUME IInv, BatchSteps(i)
               PROVE  IInv'
    OBVIOUS
  <1> DEFINE c == queue[i]
  <1>1. PICK o \in Outcomes(c) : Reaches(c.at, o) /\ queue' = [queue EXCEPT ![i] = After(c, o)]
    BY DEF BatchSteps
  <1>2. /\ InFlight(c) /\ UNCHANGED <<node, outages, loopVars>> /\ call' = call /\ orphans' = orphans
    BY DEF BatchSteps
  <1>3. c \in Calls /\ c.kind = "batch"
    BY TypeFacts, QueueElement DEF BatchOK
  <1> DEFINE d == After(c, o)
  <1> HIDE DEF c
  <1>4. SameCall(d, c) /\ RejectedForCause(node, d) /\ (Settled(d) \/ InFlight(d))
    BY <1>2, <1>3, TypeFacts, AfterFacts
  <1>5. d.res # "none" /\ queue' = [queue EXCEPT ![i] = d]
    BY <1>1, <1>4 DEF Settled, Rejected, InFlight
  <1> HIDE DEF d
  <1>6. /\ queue' \in Seq(Calls) /\ QueueOK(node, queue') /\ DOMAIN queue' = DOMAIN queue
        /\ \A j \in DOMAIN queue : queue'[j].lo = queue[j].lo
    <2>1. SameCall(d, queue[i]) /\ queue \in Seq(Calls) /\ QueueOK(node, queue)
      BY <1>4, TypeFacts DEF c
    <2> DEFINE t == [queue EXCEPT ![i] = d]
    <2>2. /\ t \in Seq(Calls) /\ QueueOK(node, t) /\ DOMAIN t = DOMAIN queue
          /\ \A j \in DOMAIN queue : t[j].lo = queue[j].lo
      <3>1. PICK q \in Seq(Calls) : q = queue
        BY <2>1
      <3>2. PICK n : n = node
        OBVIOUS
      <3>3. PICK b : b = d
        OBVIOUS
      <3>4. QueueOK(n, q) /\ i \in DOMAIN q /\ SameCall(b, q[i]) /\ RejectedForCause(n, b) /\ b.res # "none"
        BY <1>4, <1>5, <2>1, <3>1, <3>2, <3>3
      <3>5. /\ [q EXCEPT ![i] = b] \in Seq(Calls) /\ QueueOK(n, [q EXCEPT ![i] = b])
            /\ DOMAIN [q EXCEPT ![i] = b] = DOMAIN q
            /\ \A j \in DOMAIN q : [q EXCEPT ![i] = b][j].lo = q[j].lo
        BY <3>4, SteppedFacts
      <3> QED
        BY <3>1, <3>2, <3>3, <3>5
    <2>3. queue' = t
      BY <1>5
    <2> HIDE DEF t
    <2> QED
      BY <2>2, <2>3
  <1>7. queue # <<>> /\ queue' # <<>> /\ queue'[1].lo = queue[1].lo
    <2>1. queue # <<>>
      BY EmptySeq
    <2>2. 1 \in DOMAIN queue
      BY <2>1, TypeFacts, NonemptyQueue
    <2> QED
      BY <1>6, <2>1, <2>2
  <1>8. o \in {"resend", "answer"} \cup Faults
    BY OutcomesAre
  <1> QED
    BY <1>1, <1>2, <1>4, <1>6, <1>7, <1>8, TypeFacts, SameCallIsSame, ConnectorStep

LEMMA OrphanStepsIInv == IInv /\ OrphanSteps => IInv'
  <1> SUFFICES ASSUME IInv, OrphanSteps
               PROVE  IInv'
    OBVIOUS
  <1>0. PICK c \in BagToSet(orphans) : \E o \in Outcomes(c) :
           /\ Reaches(c.at, o)
           /\ orphans' = (orphans (-) SetToBag({c}))
                            (+) (IF Settled(After(c, o)) THEN EmptyBag ELSE SetToBag({After(c, o)}))
    BY DEF OrphanSteps
  <1>1. PICK o \in Outcomes(c) :
           /\ Reaches(c.at, o)
           /\ orphans' = (orphans (-) SetToBag({c}))
                            (+) (IF Settled(After(c, o)) THEN EmptyBag ELSE SetToBag({After(c, o)}))
    BY <1>0
  <1>2. UNCHANGED <<node, outages, loopVars>> /\ call' = call /\ queue' = queue
    BY DEF OrphanSteps
  <1>3. c \in Calls /\ InFlight(c)
    BY TypeFacts DEF OrphansOK
  <1>4. After(c, o) \in Calls /\ (Settled(After(c, o)) \/ InFlight(After(c, o)))
    BY <1>3, TypeFacts, AfterFacts DEF SameCall
  <1>5. OrphansOK(IF Settled(After(c, o)) THEN EmptyBag ELSE SetToBag({After(c, o)}))
    BY <1>4, EmptyOrphans, OneOrphan
  <1>6. OrphansOK(orphans (-) SetToBag({c}))
    <2>1. \A e \in DOMAIN SetToBag({c}) : SetToBag({c})[e] = 1
      BY DEF SetToBag
    <2> QED
      BY <2>1, TypeFacts, FewerOrphans
  <1>7. OrphansOK(orphans')
    BY <1>1, <1>5, <1>6, MoreOrphans
  <1>8. o \in {"resend", "answer"} \cup Faults
    BY OutcomesAre
  <1> QED
    BY <1>1, <1>2, <1>7, <1>8, TypeFacts, SameCallIsSame, ConnectorStep

LEMMA OtherRequestIInv == IInv /\ OtherRequest => IInv'
  <1> SUFFICES ASSUME IInv, OtherRequest
               PROVE  IInv'
    OBVIOUS
  <1>1. PICK o \in Outcomes([NoCall EXCEPT !.at = active, !.res = "sent"]) : Reaches(active, o)
    BY DEF OtherRequest
  <1>2. UNCHANGED <<node, outages, loopVars>> /\ call' = call /\ queue' = queue /\ orphans' = orphans
    BY DEF OtherRequest
  <1>3. o \in {"resend", "answer"} \cup Faults
    BY OutcomesAre
  <1> QED
    BY <1>1, <1>2, <1>3, TypeFacts, SameCallIsSame, ConnectorStep

\* What the loop awaits, once it awaits something.
LEMMA AwaitedFacts ==
    ASSUME IInv, waiting # "no"
    PROVE  /\ Awaited \in Calls /\ Awaited.lo = next /\ next \in 1 .. Tip
           /\ Awaited.res = "tagged" => AuxPow /\ call.kind # "rebuild" /\ Malformed(node, next)
           /\ Awaited.res = "missing" => Hopeless(next)
  <1>0. next \in 1 .. Tip + 1 /\ waiting \in {"no", "queue", "call"} /\ node.malformed \subseteq Int /\ node.missing \subseteq Int
    BY TypeFacts, NodeFacts DEF IInv, TypeOK
  <1>1. CASE waiting = "queue"
    <2>1. Awaited = queue[1] /\ queue # <<>> /\ queue[1].lo = next /\ call = NoCall
      BY <1>1 DEF Awaited, IInv, AwaitedIsNext
    <2>2. 1 \in DOMAIN queue
      BY <2>1, TypeFacts, NonemptyQueue
    <2>3. queue[1] \in Calls /\ BatchOK(node, queue[1]) /\ queue[1].lo \in 1 .. Tip /\ queue[1].hi \in 1 .. Tip
      BY <2>2, TypeFacts, QueueElement
    <2>4. ASSUME Awaited.res = "tagged"
          PROVE  AuxPow /\ call.kind # "rebuild" /\ Malformed(node, next)
      <3>1. AuxPow /\ \E m \in node.malformed : queue[1].lo <= m /\ m <= queue[1].hi
        BY <2>1, <2>3, <2>4 DEF BatchOK, RejectedForCause
      <3>2. PICK m \in node.malformed : queue[1].lo <= m /\ m <= queue[1].hi
        BY <3>1
      <3>3. m \in Int /\ queue[1].hi < queue[1].lo + PrefetchSize
        BY <1>0, <2>3 DEF BatchOK
      <3>4. queue[1].lo <= m /\ m < queue[1].lo + PrefetchSize
        BY <2>3, <3>2, <3>3, ConstantFacts
      <3> QED
        BY <2>1, <3>1, <3>4, NoCallFacts DEF Malformed, InWindow
    <2>5. ASSUME Awaited.res = "missing"
          PROVE  Hopeless(next)
      <3>1. \E m \in node.missing : queue[1].lo <= m /\ m <= queue[1].hi
        BY <2>1, <2>3, <2>5 DEF BatchOK, RejectedForCause
      <3>2. PICK m \in node.missing : queue[1].lo <= m /\ m <= queue[1].hi
        BY <3>1
      <3>3. m \in Int /\ queue[1].hi < queue[1].lo + PrefetchSize
        BY <1>0, <2>3 DEF BatchOK
      <3>4. queue[1].lo <= m /\ m < queue[1].lo + PrefetchSize
        BY <2>3, <3>2, <3>3, ConstantFacts
      <3> QED
        BY <2>1, <3>4 DEF Hopeless, InWindow
    <2> QED
      BY <2>1, <2>3, <2>4, <2>5
  <1>2. CASE waiting = "call"
    <2>1. Awaited = call /\ call \in Calls /\ call.kind \in {"direct", "rebuild"} /\ call.lo = next /\ call.hi = next
      BY <1>2, TypeFacts DEF Awaited, IInv, AwaitedIsNext
    <2>2. next \in 1 .. Tip
      <3>1. call.lo \in 0 .. Tip
        BY <2>1, CallFields
      <3> QED
        BY <1>0, <2>1, <3>1, ConstantFacts
    <2>3. ASSUME Awaited.res = "tagged"
          PROVE  AuxPow /\ call.kind # "rebuild" /\ Malformed(node, next)
      <3>1. AuxPow /\ call.kind # "rebuild" /\ \E m \in node.malformed : next <= m /\ m <= next
        BY <2>1, <2>3, TypeFacts DEF RejectedForCause
      <3>2. PICK m \in node.malformed : next <= m /\ m <= next
        BY <3>1
      <3>3. next <= m /\ m < next + PrefetchSize
        BY <1>0, <3>2, ConstantFacts
      <3> QED
        BY <3>1, <3>3 DEF Malformed, InWindow
    <2>4. ASSUME Awaited.res = "missing"
          PROVE  Hopeless(next)
      <3>1. CASE call.kind = "rebuild" /\ ~node.txindex
        BY <1>2, <3>1 DEF IInv, StreaksTogether, Malformed, Hopeless
      <3>2. CASE ~(call.kind = "rebuild" /\ ~node.txindex)
        <4>1. \E m \in node.missing : next <= m /\ m <= next
          BY <2>1, <2>4, <3>2, TypeFacts DEF RejectedForCause
        <4>2. PICK m \in node.missing : next <= m /\ m <= next
          BY <4>1
        <4>3. next <= m /\ m < next + PrefetchSize
          BY <1>0, <4>2, ConstantFacts
        <4> QED
          BY <4>3 DEF Hopeless, InWindow
      <3> QED
        BY <3>1, <3>2
    <2> QED
      BY <2>1, <2>2, <2>3, <2>4
  <1> QED
    BY <1>0, <1>1, <1>2

\* The loop's own steps leave the node, the endpoints and the faults alone.
LEMMA StreakTypes ==
    ASSUME IInv
    PROVE  /\ blockFetch.height \in 0 .. Tip /\ blockFetch.count \in Nat
           /\ parse.height \in 0 .. Tip /\ parse.count \in Nat /\ lost \in Nat /\ next \in Nat
BY ConstantFacts DEF IInv, TypeOK

\* A reassembly starts only above a malformed block.
LEMMA ReassemblyFacts ==
    ASSUME IInv, ShouldReassemble
    PROVE  Malformed(node, next)
BY StreakTypes, ConstantFacts DEF IInv, StreaksTogether, ShouldReassemble

LEMMA FetchFromQueueIInv ==
    ASSUME IInv, FetchNextBlock, ~ShouldReassemble, QueueServes(FilledQueue),
           queue' = FilledQueue, waiting' = "queue", UNCHANGED <<call, orphans>>
    PROVE  IInv'
  <1>0. /\ waiting = "no" /\ ~desync
        /\ UNCHANGED <<node, next, got, blockFetch, parse, desync, active, connectionFailures>>
        /\ UNCHANGED <<faults, outages, rewinds, lost>>
    BY DEF FetchNextBlock, netVars
  <1>1. queue' \in Seq(Calls) /\ QueueOK(node, queue')
    BY FilledFacts DEF IInv
  <1>2. TypeOK'
    BY <1>0, <1>1 DEF IInv, TypeOK
  <1>3. QueueOrdered'
    BY <1>0, <1>1 DEF QueueOrdered
  <1>4. AwaitedIsNext'
    BY <1>0 DEF IInv, AwaitedIsNext, QueueServes
  <1>5. StreaksTogether'
    <2>1. ShouldReassemble' <=> ShouldReassemble
      BY <1>0 DEF ShouldReassemble
    <2> QED
      BY <1>0, <2>1 DEF IInv, StreaksTogether
  <1>6. OutagesCounted'
    BY <1>0 DEF IInv, OutagesCounted, Hopeless
  <1> QED
    BY <1>2, <1>3, <1>4, <1>5, <1>6 DEF IInv

LEMMA FetchDirectIInv ==
    ASSUME IInv, FetchNextBlock,
           queue' = <<>>, orphans' = orphans (+) Abandoned(FilledQueue),
           call' = Begin(IF ShouldReassemble THEN "rebuild" ELSE "direct", next, next), waiting' = "call"
    PROVE  IInv'
  <1> DEFINE k == IF ShouldReassemble THEN "rebuild" ELSE "direct"
  <1>0. /\ waiting = "no" /\ ~desync /\ next <= Tip
        /\ UNCHANGED <<node, next, got, blockFetch, parse, desync, active, connectionFailures>>
        /\ UNCHANGED <<faults, outages, rewinds, lost>>
    BY DEF FetchNextBlock, netVars
  <1>1. k \in {"batch", "direct", "rebuild"} /\ next \in 0 .. Tip
    BY <1>0, ConstantFacts DEF IInv, TypeOK
  <1>2. /\ call' \in Calls /\ call'.kind = k /\ call'.lo = next /\ call'.hi = next /\ call'.res = "sent"
        /\ RejectedForCause(node, call')
    <2> HIDE DEF k
    <2>1. call' = Begin(k, next, next)
      BY DEF k
    <2> QED
      BY <1>1, <2>1, TypeFacts, BeginFacts
  <1>3. OrphansOK(orphans')
    BY FilledFacts, AbandonedFacts, TypeFacts, MoreOrphans DEF IInv
  <1>4. TypeOK'
    BY <1>0, <1>2, <1>3, EmptyQueue DEF IInv, TypeOK, OrphansOK
  <1>5. QueueOrdered'
    BY EmptyQueue DEF QueueOrdered
  <1>6. AwaitedIsNext'
    BY <1>0, <1>2 DEF AwaitedIsNext
  <1>7. StreaksTogether'
    <2>1. ShouldReassemble' <=> ShouldReassemble
      BY <1>0 DEF ShouldReassemble
    <2>2. call'.kind = "rebuild" <=> ShouldReassemble
      BY <1>2
    <2> QED
      BY <1>0, <2>1, <2>2, ReassemblyFacts DEF IInv, StreaksTogether
  <1>8. OutagesCounted'
    BY <1>0 DEF IInv, OutagesCounted, Hopeless
  <1> QED
    BY <1>4, <1>5, <1>6, <1>7, <1>8 DEF IInv

LEMMA FetchNextBlockIInv == IInv /\ FetchNextBlock => IInv'
  <1> SUFFICES ASSUME IInv, FetchNextBlock
               PROVE  IInv'
    OBVIOUS
  <1>1. \/ /\ ~ShouldReassemble /\ QueueServes(FilledQueue)
           /\ queue' = FilledQueue /\ waiting' = "queue" /\ UNCHANGED <<call, orphans>>
        \/ /\ queue' = <<>> /\ orphans' = orphans (+) Abandoned(FilledQueue)
           /\ call' = Begin(IF ShouldReassemble THEN "rebuild" ELSE "direct", next, next)
           /\ waiting' = "call"
    BY DEF FetchNextBlock
  <1> QED
    BY <1>1, FetchFromQueueIInv, FetchDirectIInv

LEMMA NoStreakFacts ==
    NoStreak \in [height : 0 .. Tip, count : Nat] /\ NoStreak.height = 0 /\ NoStreak.count = 0
BY ConstantFacts DEF NoStreak, NoHeight

LEMMA BlockArrivesIInv == IInv /\ BlockArrives => IInv'
  <1> SUFFICES ASSUME IInv, BlockArrives
               PROVE  IInv'
    OBVIOUS
  <1>0. /\ waiting # "no" /\ Awaited.res = "ok" /\ got' = Awaited.lo /\ next' = next + 1 /\ waiting' = "no"
        /\ call' = NoCall /\ blockFetch' = NoStreak /\ parse' = NoStreak /\ lost' = 0
        /\ queue' = IF waiting = "call" THEN queue ELSE TakenFirst(queue)
        /\ UNCHANGED <<node, orphans, desync, active, connectionFailures, faults, outages, rewinds>>
    BY DEF BlockArrives, netVars, TakenFirst
  <1>1. Awaited.lo = next /\ next \in 1 .. Tip
    BY <1>0, AwaitedFacts
  <1>2. queue' \in Seq(Calls) /\ QueueOK(node, queue')
    <2>1. CASE waiting = "call"
      BY <1>0, <2>1, TypeFacts
    <2>2. CASE waiting # "call"
      <3>1. queue # <<>> /\ queue[1].res = "ok" /\ queue' = TakenFirst(queue)
        BY <1>0, <2>2 DEF IInv, TypeOK, AwaitedIsNext, Awaited
      <3> QED
        BY <3>1, TypeFacts, TakenFacts
    <2> QED
      BY <2>1, <2>2
  <1>3. TypeOK'
    <2>1. next' \in 1 .. Tip + 1 /\ got' \in 0 .. Tip
      BY <1>0, <1>1, ConstantFacts
    <2> QED
      BY <1>0, <1>2, <2>1, NoCallFacts, NoStreakFacts DEF IInv, TypeOK
  <1>4. QueueOrdered'
    BY <1>0, <1>2 DEF QueueOrdered
  <1>5. ~desync'
    BY <1>0 DEF IInv, AwaitedIsNext
  <1>6. AwaitedIsNext'
    BY <1>0, <1>5, NoCallFacts DEF AwaitedIsNext
  <1>7. StreaksTogether'
    BY <1>0, <1>5, NoCallFacts, NoStreakFacts, ConstantFacts DEF StreaksTogether
  <1>8. OutagesCounted'
    BY <1>0, <1>1, NoStreakFacts DEF OutagesCounted, NoHeight
  <1> QED
    BY <1>3, <1>4, <1>6, <1>7, <1>8 DEF IInv

LEMMA RelaunchIInv == IInv /\ Relaunch => IInv'
  <1> SUFFICES ASSUME IInv, Relaunch
               PROVE  IInv'
    OBVIOUS
  <1>0. /\ next' \in 1 .. next /\ queue' = <<>> /\ call' = NoCall /\ orphans' = EmptyBag /\ waiting' = "no"
        /\ blockFetch' = NoStreak /\ parse' = NoStreak /\ ~desync' /\ active' = 0 /\ connectionFailures' = 0
        /\ lost' = 0 /\ UNCHANGED <<node, got, faults, outages, rewinds>>
    BY DEF Relaunch
  <1>1. desync' \in BOOLEAN
    BY DEF Relaunch
  <1>2. TypeOK'
    <2>1. next' \in 1 .. Tip + 1 /\ active' \in 0 .. Endpoints - 1 /\ connectionFailures' \in 0 .. FailoverThreshold - 1
      BY <1>0, ConstantFacts DEF IInv, TypeOK
    <2>2. OrphansOK(orphans')
      BY <1>0, EmptyOrphans
    <2> QED
      BY <1>0, <1>1, <2>1, <2>2, NoCallFacts, NoStreakFacts, EmptyQueue DEF IInv, TypeOK, OrphansOK
  <1>3. QueueOrdered'
    BY <1>0, EmptyQueue DEF QueueOrdered
  <1>4. AwaitedIsNext'
    BY <1>0, NoCallFacts DEF AwaitedIsNext
  <1>5. StreaksTogether'
    BY <1>0, NoCallFacts, NoStreakFacts, ConstantFacts DEF StreaksTogether
  <1>6. OutagesCounted'
    BY <1>0, StreakTypes, NoStreakFacts DEF OutagesCounted, NoHeight
  <1> QED
    BY <1>2, <1>3, <1>4, <1>5, <1>6 DEF IInv

LEMMA RollBackIInv == IInv /\ RollBack => IInv'
  <1> SUFFICES ASSUME IInv, RollBack
               PROVE  IInv'
    OBVIOUS
  <1>0. /\ waiting = "no" /\ ~desync /\ rewinds < MaxRewinds /\ rewinds' = rewinds + 1 /\ next' \in 1 .. next - 1
        /\ lost' = 0 /\ UNCHANGED <<node, call, waiting, got, blockFetch, parse, desync>>
        /\ UNCHANGED <<active, connectionFailures, faults, outages>>
    BY DEF RollBack, netVars
  <1>1. /\ queue' \in Seq(Calls) /\ QueueOK(node, queue') /\ OrphansOK(orphans')
    <2>1. CASE queue' = <<>> /\ orphans' = orphans (+) Abandoned(queue)
      BY <2>1, TypeFacts, EmptyQueue, AbandonedFacts, MoreOrphans
    <2>2. CASE UNCHANGED <<queue, orphans>>
      BY <2>2, TypeFacts
    <2> QED
      BY <2>1, <2>2 DEF RollBack
  <1>2. TypeOK'
    <2>1. next' \in 1 .. Tip + 1 /\ rewinds' \in 0 .. MaxRewinds
      BY <1>0, ConstantFacts DEF IInv, TypeOK
    <2> QED
      BY <1>0, <1>1, <2>1 DEF IInv, TypeOK, OrphansOK
  <1>3. QueueOrdered'
    BY <1>0, <1>1 DEF QueueOrdered
  <1>4. AwaitedIsNext'
    BY <1>0 DEF IInv, AwaitedIsNext
  <1>5. StreaksTogether'
    <2>1. call.kind # "rebuild"
      BY <1>0, NoCallFacts DEF IInv, AwaitedIsNext
    <2> QED
      BY <1>0, <2>1 DEF IInv, StreaksTogether
  <1>6. OutagesCounted'
    <2>1. blockFetch.height = NoHeight \/ blockFetch.height >= next
      BY DEF IInv, OutagesCounted
    <2> QED
      BY <1>0, <2>1, StreakTypes DEF OutagesCounted, NoHeight
  <1> QED
    BY <1>2, <1>3, <1>4, <1>5, <1>6 DEF IInv

\* What one more failure at the cursor makes of the two streaks.
LEMMA NotedFacts ==
    ASSUME IInv, next \in 1 .. Tip, NEW t \in BOOLEAN
    PROVE  /\ {NoteFetch, NoteParse(t)} \subseteq [height : 0 .. Tip, count : Nat]
           /\ NoteFetch.height = next /\ NoteParse(t).height = next
           /\ NoteFetch.count = IF blockFetch.height = next THEN blockFetch.count + 1 ELSE 1
           /\ NoteParse(t).count = (IF parse.height = next THEN parse.count ELSE 0) + (IF t THEN 1 ELSE 0)
  <1>1. parse \in [height : 0 .. Tip, count : Nat] /\ blockFetch.count \in Nat
    BY DEF IInv, TypeOK
  <1>2. /\ NoteFetch \in [height : 0 .. Tip, count : Nat] /\ NoteFetch.height = next
        /\ NoteFetch.count = IF blockFetch.height = next THEN blockFetch.count + 1 ELSE 1
    BY <1>1, ConstantFacts DEF NoteFetch
  <1>3. /\ NoteParse(t) \in [height : 0 .. Tip, count : Nat] /\ NoteParse(t).height = next
        /\ NoteParse(t).count = (IF parse.height = next THEN parse.count ELSE 0) + (IF t THEN 1 ELSE 0)
    <2>1. CASE parse.height # next
      BY <1>1, <2>1, ConstantFacts DEF NoteParse
    <2>2. CASE parse.height = next /\ t
      BY <1>1, <2>2 DEF NoteParse
    <2>3. CASE parse.height = next /\ ~t
      BY <1>1, <2>3 DEF NoteParse
    <2> QED
      BY <2>1, <2>2, <2>3
  <1> QED
    BY <1>2, <1>3

LEMMA BlockFailsIInv == IInv /\ BlockFails => IInv'
  <1> SUFFICES ASSUME IInv, BlockFails
               PROVE  IInv'
    OBVIOUS
  <1> DEFINE t == (Awaited.res = "tagged")
  <1>0. /\ waiting # "no" /\ Awaited.res \in {"tagged", "missing", "failed"}
        /\ queue' = <<>> /\ orphans' = orphans (+) Abandoned(queue) /\ call' = NoCall /\ waiting' = "no"
        /\ parse' = NoteParse(t) /\ blockFetch' = NoteFetch
        /\ UNCHANGED <<node, next, got, active, connectionFailures, faults, outages, rewinds>>
    BY DEF BlockFails, netVars, Rejected
  <1>a. lost' = IF Awaited.res = "failed" THEN lost + 1 ELSE lost
    BY DEF BlockFails
  <1>1. desync' = (NoteFetch.count >= MaxFetchRetries)
    BY DEF BlockFails
  <1>2. t \in BOOLEAN
    OBVIOUS
  <1>3. /\ next \in 1 .. Tip
        /\ t => AuxPow /\ call.kind # "rebuild" /\ Malformed(node, next)
        /\ Awaited.res = "missing" => Hopeless(next)
    BY <1>0, AwaitedFacts
  <1> HIDE DEF t
  <1>4. /\ {blockFetch', parse'} \subseteq [height : 0 .. Tip, count : Nat]
        /\ blockFetch'.height = next /\ parse'.height = next
        /\ blockFetch'.count = IF blockFetch.height = next THEN blockFetch.count + 1 ELSE 1
        /\ parse'.count = (IF parse.height = next THEN parse.count ELSE 0) + (IF t THEN 1 ELSE 0)
    BY <1>0, <1>2, <1>3, NotedFacts
  <1>5. /\ blockFetch.height = parse.height /\ parse.count <= blockFetch.count
        /\ parse.count <= ReassembleAfter
        /\ parse.count > 0 => Malformed(node, parse.height)
        /\ call.kind = "rebuild" => Malformed(node, next)
        /\ call.kind # "rebuild" => ~ShouldReassemble
    BY <1>0 DEF IInv, StreaksTogether
  <1>6. TypeOK'
    <2>1. OrphansOK(orphans')
      BY <1>0, TypeFacts, AbandonedFacts, MoreOrphans
    <2>2. desync' \in BOOLEAN
      BY <1>1
    <2>3. lost' \in Nat
      BY <1>a, StreakTypes
    <2> QED
      BY <1>0, <1>4, <2>1, <2>2, <2>3, EmptyQueue, NoCallFacts DEF IInv, TypeOK, OrphansOK
  <1>7. QueueOrdered'
    BY <1>0, EmptyQueue DEF QueueOrdered
  <1>8. AwaitedIsNext'
    BY <1>0, NoCallFacts DEF AwaitedIsNext
  <1>9. StreaksTogether'
    <2>1. parse'.count <= blockFetch'.count
      BY <1>4, <1>5, StreakTypes
    <2>2. parse'.count <= ReassembleAfter
      <3>1. t => ~(parse.height = next /\ parse.count >= ReassembleAfter)
        BY <1>3, <1>5 DEF ShouldReassemble
      <3> QED
        BY <1>4, <1>5, <3>1, StreakTypes, ConstantFacts
    <2>3. parse'.count > 0 => Malformed(node, next)
      <3>1. CASE t
        BY <1>3, <3>1
      <3>2. CASE ~t
        <4>1. parse'.count > 0 => parse.height = next /\ parse.count > 0
          BY <1>4, <3>2, StreakTypes
        <4> QED
          BY <1>5, <4>1
      <3> QED
        BY <3>1, <3>2
    <2>4. desync' => blockFetch'.count >= MaxFetchRetries
      BY <1>0, <1>1
    <2> QED
      BY <1>0, <1>4, <2>1, <2>2, <2>3, <2>4, NoCallFacts DEF StreaksTogether
  <1>10. OutagesCounted'
    <2>1. Hopeless(next)' <=> Hopeless(next)
      BY <1>0 DEF Hopeless
    <2>2. SUFFICES ASSUME ~Hopeless(next)
                   PROVE  blockFetch'.count <= parse'.count + lost'
      BY <1>0, <1>3, <1>4, <2>1 DEF OutagesCounted
    <2>3. ~t => lost' = lost + 1
      BY <1>0, <1>3, <1>a, <2>2 DEF t
    <2>4. lost' = lost \/ lost' = lost + 1
      BY <1>a
    <2>5. CASE blockFetch.height # next
      BY <1>4, <1>5, <2>3, <2>4, <2>5, StreakTypes
    <2>6. CASE blockFetch.height = next
      <3>1. blockFetch.count <= parse.count + lost
        BY <2>2, <2>6 DEF IInv, OutagesCounted
      <3> QED
        BY <1>4, <1>5, <2>3, <2>4, <2>6, <3>1, StreakTypes
    <2> QED
      BY <2>5, <2>6
  <1> QED
    BY <1>6, <1>7, <1>8, <1>9, <1>10 DEF IInv

\* Which endpoints are up is no matter of the invariant.
LEMMA EndpointsChangeIInv == IInv /\ EndpointsChange => IInv'
  <1> SUFFICES ASSUME IInv, EndpointsChange
               PROVE  IInv'
    OBVIOUS
  <1>0. /\ UNCHANGED <<next, waiting, got, blockFetch, parse, desync, rewinds, lost>>
        /\ UNCHANGED <<active, connectionFailures, queue, call, orphans, faults>>
        /\ outages < MaxOutages /\ outages' = outages + 1
    BY DEF EndpointsChange, loopVars, netVars
  <1>1. PICK n \in Nodes : n = [node EXCEPT !.dead = n.dead] /\ node' = n
    BY DEF EndpointsChange
  <1>2. node' \in Nodes /\ node'.missing = node.missing /\ node'.malformed = node.malformed
        /\ node'.txindex = node.txindex
    <2>1. node \in [dead : SUBSET (0 .. Endpoints - 1), missing : SUBSET (1 .. Tip),
                    malformed : SUBSET (1 .. Tip), txindex : BOOLEAN]
      BY TypeFacts, FetchAssumption
    <2> QED
      BY <1>1, <2>1
  <1>3. TypeOK'
    <2>1. outages' \in 0 .. MaxOutages
      BY <1>0, ConstantFacts DEF IInv, TypeOK
    <2> QED
      BY <1>0, <1>2, <2>1 DEF IInv, TypeOK
  <1>4. QueueOrdered'
    BY <1>0, <1>2 DEF IInv, QueueOrdered, QueueOK, BatchOK, RejectedForCause
  <1>5. AwaitedIsNext'
    BY <1>0, <1>2 DEF IInv, AwaitedIsNext, RejectedForCause
  <1>6. StreaksTogether'
    <2>1. ShouldReassemble' <=> ShouldReassemble
      BY <1>0 DEF ShouldReassemble
    <2> QED
      BY <1>0, <1>2, <2>1 DEF IInv, StreaksTogether, Malformed, InWindow
  <1>7. OutagesCounted'
    BY <1>0, <1>2 DEF IInv, OutagesCounted, Hopeless, InWindow
  <1> QED
    BY <1>3, <1>4, <1>5, <1>6, <1>7 DEF IInv

LEMMA NextIInv == IInv /\ [Next]_vars => IInv'
  <1> SUFFICES ASSUME IInv, [Next]_vars
               PROVE  IInv'
    OBVIOUS
  <1>1. CASE \E i \in DOMAIN queue : BatchSteps(i)
    BY <1>1, BatchStepsIInv
  <1>2. CASE UNCHANGED vars
    <2>1. /\ UNCHANGED <<node, next, waiting, got, blockFetch, parse, desync, rewinds>>
          /\ UNCHANGED <<active, connectionFailures, queue, call, orphans, faults, outages, lost>>
      BY <1>2 DEF vars, loopVars, netVars
    <2>2. TypeOK' /\ QueueOrdered' /\ AwaitedIsNext'
      BY <2>1 DEF IInv, TypeOK, QueueOrdered, AwaitedIsNext
    <2>3. StreaksTogether' /\ OutagesCounted'
      <3>1. ShouldReassemble' <=> ShouldReassemble
        BY <2>1 DEF ShouldReassemble
      <3> QED
        BY <2>1, <3>1 DEF IInv, StreaksTogether, OutagesCounted, Hopeless
    <2> QED
      BY <2>2, <2>3 DEF IInv
  <1> QED
    BY <1>1, <1>2, FetchNextBlockIInv, BlockArrivesIInv, BlockFailsIInv, RelaunchIInv, RollBackIInv,
       CallStepsIInv, OrphanStepsIInv, OtherRequestIInv, EndpointsChangeIInv DEF Next

LEMMA SpecIInv == Spec => []IInv
BY InitIInv, NextIInv, PTL DEF Spec
-----------------------------------------------------------------------------
(***************************************************************************)
(* Theorems.                                                               *)
(***************************************************************************)

(***************************************************************************)
(* Every variable keeps its type: the connector's counters stay below      *)
(* their bounds and the abandoned calls are calls in flight.               *)
(***************************************************************************)
THEOREM TypeCorrect == Spec => []TypeOK
  <1>1. IInv => TypeOK
    BY DEF IInv
  <1> QED
    BY <1>1, SpecIInv, PTL

(***************************************************************************)
(* Whatever the retries, the rollbacks, the failovers and the answers that *)
(* come late, a reassembly is under way only with a block the strip cannot *)
(* read in the prefetch window (shouldReassembleBlock,                     *)
(* noteAuxPowParseFailure).                                                *)
(***************************************************************************)
THEOREM ReassemblyCaused == Spec => []ReassemblyHasCause
  <1>1. IInv => ReassemblyHasCause
    BY DEF IInv, StreaksTogether, Malformed, ReassemblyHasCause
  <1> QED
    BY <1>1, SpecIInv, PTL

(***************************************************************************)
(* The block handed to the decoder is the one the cursor asked for,        *)
(* whatever rollbacks left in the prefetch queue and for every window      *)
(* (fetchNextBlock).                                                       *)
(***************************************************************************)
THEOREM NextBlockFetched == Spec => FetchesTheNextBlock
  <1>1. ASSUME IInv, [Next]_vars
        PROVE  [next' = next + 1 => got' = next]_vars
    <2>1. SUFFICES ASSUME Next, next' = next + 1
                   PROVE  got' = next
      BY <1>1
    <2>2. next \in Nat
      BY <1>1, ConstantFacts DEF IInv, TypeOK
    <2>3. CASE BlockArrives
      BY <1>1, <2>3, AwaitedFacts DEF BlockArrives
    <2>4. CASE ~BlockArrives
      <3>1. next' = next \/ next' \in 1 .. next
        BY <2>1, <2>2, <2>4 DEF Next, FetchNextBlock, BlockFails, Relaunch, RollBack, CallSteps, OrphanSteps,
                               OtherRequest, BatchSteps, EndpointsChange, loopVars
      <3> QED
        BY <2>1, <2>2, <3>1
    <2> QED
      BY <2>3, <2>4
  <1> QED
    BY <1>1, SpecIInv, PTL DEF Spec, FetchesTheNextBlock

(***************************************************************************)
(* However endpoints go down and come back, whatever the retries, the      *)
(* failovers and the rollbacks, the desync error is thrown only at a       *)
(* height no retry gets past, or after outages that make up the bound but  *)
(* for the failures a reassembly waits for (noteBlockFetchFailure).        *)
(***************************************************************************)
THEOREM DesyncJustified == Spec => []DesyncHasCause
  <1>1. ASSUME IInv, desync, ~Hopeless(next)
        PROVE  lost + (IF InWindow(node.malformed, next) THEN ReassembleAfter ELSE 0) >= MaxFetchRetries
    <2>1. /\ blockFetch.height = next /\ blockFetch.count >= MaxFetchRetries /\ parse.count <= ReassembleAfter
          /\ parse.height = next /\ (parse.count > 0 => InWindow(node.malformed, next))
      BY <1>1 DEF IInv, StreaksTogether, Malformed
    <2>2. blockFetch.count <= parse.count + lost
      BY <1>1, <2>1 DEF IInv, OutagesCounted
    <2>3. parse.count \in Nat /\ blockFetch.count \in Nat /\ lost \in Nat
      BY <1>1, StreakTypes
    <2>4. CASE InWindow(node.malformed, next)
      BY <2>1, <2>2, <2>3, <2>4, ConstantFacts
    <2>5. CASE ~InWindow(node.malformed, next)
      <3>1. parse.count = 0
        BY <2>1, <2>3, <2>5
      <3> QED
        BY <2>1, <2>2, <2>3, <2>5, <3>1, ConstantFacts
    <2> QED
      BY <2>4, <2>5
  <1>2. IInv => DesyncHasCause
    BY <1>1 DEF DesyncHasCause
  <1> QED
    BY <1>2, SpecIInv, PTL
=============================================================================
