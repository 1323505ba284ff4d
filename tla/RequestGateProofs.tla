-------------------------- MODULE RequestGateProofs --------------------------
(***************************************************************************)
(* The concurrency gate's cap, for any number of requests, any two caps    *)
(* and any batch limit.                                                    *)
(*                                                                         *)
(* RunningWithinCap is not inductive: it speaks of the work, while the     *)
(* middleware counts slots.  The invariant ties the two together: a gate's *)
(* counter is the number of requests that hold one of its slots, and a     *)
(* request with work under way holds the slot it was admitted on.          *)
(***************************************************************************)
EXTENDS RequestGate, FiniteSetTheorems, TLAPS

States == {"idle", "handler", "node", "drain", "answered", "finished"}

RequestType ==
    [kind : Kinds \cup {"none"}, at : States, open : BOOLEAN, slot : BOOLEAN, claimed : BOOLEAN,
     awaited : 0 .. MaxBatch, tracked : 0 .. MaxBatch]

Typed ==
    /\ req \in [Request -> RequestType]
    /\ inFlight \in [Gates -> Nat]
    /\ nodeReads \in Nat /\ shared \in BOOLEAN

\* What a request still runs at each stage, and that its slot outlives it.
WorkIsHeld(r) ==
    /\ r.at \in {"handler", "node", "drain"} => r.slot /\ r.claimed
    /\ r.at = "drain" => r.awaited = 0
    /\ r.at \in {"idle", "node", "answered", "finished"} => r.awaited = 0 /\ r.tracked = 0
    /\ r.kind = "status" => r.awaited = 0 /\ r.tracked = 0

Holders(g) == {q \in Request : req[q].slot /\ GateOf(req[q].kind) = g}

SlotsCounted ==
    \A g \in Gates : inFlight[g] = Cardinality(Holders(g)) /\ inFlight[g] <= Limit[g]

IInv == Typed /\ (\A q \in Request : WorkIsHeld(req[q])) /\ SlotsCounted

-----------------------------------------------------------------------------
LEMMA HoldersFinite ==
    ASSUME NEW S \in SUBSET Request
    PROVE  IsFiniteSet(S) /\ Cardinality(S) \in Nat
BY FS_Subset, FS_CardinalityType, GateAssumption

LEMMA InitIInv == Init => IInv
<1> SUFFICES ASSUME Init PROVE IInv
  OBVIOUS
<1>1. Idle \in RequestType /\ WorkIsHeld(Idle) /\ ~Idle.slot
  BY GateAssumption DEF Idle, RequestType, WorkIsHeld, States
<1>2. Typed
  BY <1>1 DEF Init, Typed
<1>3. SlotsCounted
  <2> SUFFICES ASSUME NEW g \in Gates
               PROVE  inFlight[g] = Cardinality(Holders(g)) /\ inFlight[g] <= Limit[g]
    BY DEF SlotsCounted
  <2>1. Holders(g) = {}
    BY <1>1 DEF Init, Holders
  <2>2. Limit[g] \in Nat
    BY GateAssumption
  <2> QED
    BY <2>1, <2>2, FS_EmptySet DEF Init
<1> QED
  BY <1>1, <1>2, <1>3 DEF Init, IInv

\* A step of one request that leaves its slot and its gate alone.
LEMMA WorkStepIInv ==
    ASSUME IInv, NEW q \in Request, NEW r \in RequestType, WorkIsHeld(r),
           r.slot = req[q].slot, r.slot => r.kind = req[q].kind,
           req' = [req EXCEPT ![q] = r], inFlight' = inFlight,
           nodeReads' \in Nat, shared' \in BOOLEAN
    PROVE  IInv'
<1>1. \A p \in Request : req'[p] = IF p = q THEN r ELSE req[p]
  BY DEF IInv, Typed
<1>2. Typed'
  BY DEF IInv, Typed
<1>3. \A g \in Gates : Holders(g)' = Holders(g)
  BY <1>1 DEF Holders
<1>4. SlotsCounted'
  BY <1>3 DEF IInv, SlotsCounted
<1> QED
  BY <1>1, <1>2, <1>4 DEF IInv

LEMMA AdmitIInv ==
    ASSUME IInv, NEW q \in Request, NEW kind \in Kinds,
           NEW awaited \in 0 .. MaxBatch, NEW tracked \in 0 .. MaxBatch,
           kind \in {"status", "guarded"} => awaited = 0 /\ tracked = 0,
           Admit(q, kind, awaited, tracked)
    PROVE  IInv'
<1> DEFINE gate == GateOf(kind)
           r == [kind |-> kind, open |-> TRUE, slot |-> TRUE, claimed |-> kind # "guarded",
                 at |-> IF kind = "guarded" THEN "answered" ELSE "handler",
                 awaited |-> awaited, tracked |-> tracked]
<1>1. /\ req[q] = Idle /\ inFlight[gate] < Limit[gate]
      /\ inFlight' = [inFlight EXCEPT ![gate] = @ + 1] /\ req' = [req EXCEPT ![q] = r]
      /\ shared' = shared /\ nodeReads' = nodeReads
  BY DEF Admit
<1>2. gate \in Gates
  BY DEF GateOf, Gates
<1>3. r \in RequestType /\ WorkIsHeld(r) /\ r.slot /\ r.kind = kind
  BY DEF RequestType, WorkIsHeld, States
<1> HIDE DEF r, gate
<1>4. \A p \in Request : req'[p] = IF p = q THEN r ELSE req[p]
  BY <1>1 DEF IInv, Typed
<1>5. Typed'
  BY <1>1, <1>2, <1>3 DEF IInv, Typed
<1>6. SlotsCounted'
  <2> SUFFICES ASSUME NEW g \in Gates
               PROVE  inFlight'[g] = Cardinality(Holders(g)') /\ inFlight'[g] <= Limit[g]
    BY DEF SlotsCounted
  <2>1. inFlight[g] = Cardinality(Holders(g)) /\ inFlight[g] <= Limit[g] /\ inFlight[g] \in Nat /\ Limit[g] \in Nat
    BY GateAssumption DEF IInv, SlotsCounted, Typed
  <2>2. CASE g = gate
    <3>1. q \notin Holders(g) /\ Holders(g)' = Holders(g) \cup {q}
      BY <1>1, <1>3, <1>4, <2>2 DEF Holders, Idle, gate
    <3>2. IsFiniteSet(Holders(g))
      BY HoldersFinite DEF Holders
    <3>3. Cardinality(Holders(g)') = Cardinality(Holders(g)) + 1
      BY <3>1, <3>2, FS_AddElement
    <3>4. inFlight'[g] = inFlight[g] + 1
      BY <1>1, <2>2 DEF IInv, Typed
    <3> QED
      BY <1>1, <2>1, <2>2, <3>3, <3>4
  <2>3. CASE g # gate
    <3>1. Holders(g)' = Holders(g)
      BY <1>1, <1>3, <1>4, <2>3 DEF Holders, Idle, gate
    <3>2. inFlight'[g] = inFlight[g]
      BY <1>1, <1>2, <2>3 DEF IInv, Typed
    <3> QED
      BY <2>1, <3>1, <3>2
  <2> QED
    BY <2>2, <2>3
<1> QED
  BY <1>3, <1>4, <1>5, <1>6 DEF IInv

\* release(): the slot goes, with no work left to hold it for.
LEMMA ReleaseIInv ==
    ASSUME IInv, NEW q \in Request, NEW r \in RequestType,
           r.slot = req[q].slot, r.kind = req[q].kind,
           WorkIsHeld([r EXCEPT !.slot = FALSE]),
           Release(q, r), UNCHANGED <<shared, nodeReads>>
    PROVE  IInv'
<1> DEFINE s == [r EXCEPT !.slot = FALSE]
           gate == GateOf(r.kind)
<1>1. s \in RequestType /\ s.slot = FALSE /\ s.kind = r.kind /\ WorkIsHeld(s)
  BY DEF RequestType
<1>2. /\ req' = [req EXCEPT ![q] = s]
      /\ inFlight' = IF r.slot THEN [inFlight EXCEPT ![gate] = @ - 1] ELSE inFlight
  BY DEF Release
<1>3. gate \in Gates
  BY DEF GateOf, Gates
<1> HIDE DEF s
<1>4. \A p \in Request : req'[p] = IF p = q THEN s ELSE req[p]
  BY <1>2 DEF IInv, Typed
<1>5. CASE ~r.slot
  <2>1. req[q].slot = FALSE
    BY <1>5 DEF IInv, Typed, RequestType
  <2>2. s.slot = req[q].slot /\ s.kind = req[q].kind
    BY <1>1, <2>1
  <2> QED
    BY <1>1, <1>2, <1>5, <2>2, WorkStepIInv DEF IInv, Typed
<1>6. CASE r.slot
  <2> HIDE DEF gate
  <2>1. ASSUME NEW g \in Gates
        PROVE  inFlight'[g] = Cardinality(Holders(g)') /\ inFlight'[g] <= Limit[g] /\ inFlight'[g] \in Nat
    <3>1. inFlight[g] = Cardinality(Holders(g)) /\ inFlight[g] <= Limit[g] /\ inFlight[g] \in Nat /\ Limit[g] \in Nat
      BY GateAssumption DEF IInv, SlotsCounted, Typed
    <3>2. CASE g = gate
      <4>1. q \in Holders(g) /\ Holders(g)' = Holders(g) \ {q}
        BY <1>1, <1>4, <1>6, <3>2 DEF Holders, gate
      <4>2. IsFiniteSet(Holders(g)) /\ Cardinality(Holders(g) \ {q}) \in Nat
        BY HoldersFinite DEF Holders
      <4>3. Cardinality(Holders(g)') = Cardinality(Holders(g)) - 1
        BY <4>1, <4>2, FS_RemoveElement
      <4>4. inFlight'[g] = inFlight[g] - 1
        BY <1>2, <1>6, <3>2 DEF IInv, Typed
      <4> QED
        BY <3>1, <4>1, <4>2, <4>3, <4>4
    <3>3. CASE g # gate
      <4>1. Holders(g)' = Holders(g)
        BY <1>1, <1>4, <3>3 DEF Holders, gate
      <4>2. inFlight'[g] = inFlight[g]
        BY <1>2, <1>3, <3>3 DEF IInv, Typed
      <4> QED
        BY <3>1, <4>1, <4>2
    <3> QED
      BY <3>2, <3>3
  <2>2. Typed'
    BY <1>1, <1>2, <1>6, <2>1 DEF IInv, Typed
  <2> QED
    BY <1>1, <1>4, <2>1, <2>2 DEF IInv, SlotsCounted
<1>7. r.slot \in BOOLEAN
  BY DEF RequestType
<1> QED
  BY <1>5, <1>6, <1>7

\* releaseIfUnclaimed: a socket event frees a slot no handler has claimed.
LEMMA SocketEventIInv ==
    ASSUME IInv, NEW q \in Request, NEW r \in RequestType,
           WorkIsHeld(r), r.slot = req[q].slot, r.kind = req[q].kind,
           ReleaseIfUnclaimed(q, r), UNCHANGED <<shared, nodeReads>>
    PROVE  IInv'
<1>1. CASE r.claimed
  <2>1. req' = [req EXCEPT ![q] = r] /\ inFlight' = inFlight
    BY <1>1 DEF ReleaseIfUnclaimed
  <2> QED
    BY <2>1, WorkStepIInv DEF IInv, Typed
<1>2. CASE ~r.claimed
  <2>1. WorkIsHeld([r EXCEPT !.slot = FALSE])
    BY <1>2 DEF WorkIsHeld, RequestType
  <2>2. Release(q, r)
    BY <1>2 DEF ReleaseIfUnclaimed
  <2> QED
    BY <2>1, <2>2, ReleaseIInv
<1> QED
  BY <1>1, <1>2

LEMMA ArriveIInv ==
    ASSUME IInv, NEW q \in Request,
           ArriveRead(q) \/ ArriveProbe(q) \/ ArriveBatch(q) \/ ArriveStatus(q) \/ ArriveGuarded(q)
    PROVE  IInv'
<1>1. 0 \in 0 .. MaxBatch /\ 1 \in 0 .. MaxBatch /\ MaxBatch \in Nat
  BY GateAssumption
<1>2. CASE ArriveRead(q)
  BY <1>1, <1>2, AdmitIInv DEF ArriveRead, Kinds
<1>3. CASE ArriveProbe(q)
  BY <1>1, <1>3, AdmitIInv DEF ArriveProbe, Kinds
<1>4. CASE ArriveBatch(q)
  <2>1. PICK n \in 1 .. MaxBatch : \E calls \in 0 .. n : Admit(q, "batch", calls, n - calls)
    BY <1>4 DEF ArriveBatch
  <2>2. PICK calls \in 0 .. n : Admit(q, "batch", calls, n - calls)
    BY <2>1
  <2>3. calls \in 0 .. MaxBatch /\ n - calls \in 0 .. MaxBatch
    BY <1>1
  <2> QED
    BY <2>2, <2>3, AdmitIInv DEF Kinds
<1>5. CASE ArriveStatus(q)
  BY <1>1, <1>5, AdmitIInv DEF ArriveStatus, Kinds
<1>6. CASE ArriveGuarded(q)
  BY <1>1, <1>6, AdmitIInv DEF ArriveGuarded, Kinds
<1> QED
  BY <1>2, <1>3, <1>4, <1>5, <1>6

LEMMA ServedIInv ==
    ASSUME IInv, NEW q \in Request,
           \/ Finish(q) \/ Close(q) \/ Gone(q) \/ AwaitedEnds(q) \/ TrackedEnds(q)
           \/ HandlerEnds(q) \/ HoldEnds(q) \/ StatusReadsNode(q) \/ Deadline(q)
    PROVE  IInv'
<1>1. req[q] \in RequestType /\ WorkIsHeld(req[q]) /\ nodeReads \in Nat /\ shared \in BOOLEAN
  BY DEF IInv, Typed
<1>2. ASSUME NEW r \in RequestType, WorkIsHeld(r), r.slot = req[q].slot, r.kind = req[q].kind,
             req' = [req EXCEPT ![q] = r], inFlight' = inFlight, nodeReads' \in Nat, shared' \in BOOLEAN
      PROVE  IInv'
  BY <1>2, WorkStepIInv
<1>3. CASE Finish(q)
  <2> DEFINE r == [req[q] EXCEPT !.at = "finished"]
  <2>1. r \in RequestType /\ WorkIsHeld(r) /\ r.slot = req[q].slot /\ r.kind = req[q].kind
    BY <1>1, <1>3 DEF Finish, RequestType, WorkIsHeld, States
  <2> QED
    BY <1>3, <2>1, SocketEventIInv DEF Finish
<1>4. CASE Close(q)
  <2> DEFINE r == [req[q] EXCEPT !.open = FALSE]
  <2>1. r \in RequestType /\ WorkIsHeld(r) /\ r.slot = req[q].slot /\ r.kind = req[q].kind
    BY <1>1 DEF RequestType, WorkIsHeld
  <2> QED
    BY <1>4, <2>1, SocketEventIInv DEF Close
<1>5. CASE Gone(q)
  <2>1. Idle \in RequestType /\ WorkIsHeld(Idle) /\ Idle.slot = FALSE
    BY GateAssumption DEF Idle, RequestType, WorkIsHeld, States
  <2>2. req[q].slot = FALSE
    BY <1>1, <1>5 DEF Gone, RequestType
  <2> QED
    BY <1>1, <1>5, <2>1, <2>2, WorkStepIInv DEF Gone
<1>6. CASE AwaitedEnds(q)
  <2> DEFINE r == [req[q] EXCEPT !.awaited = @ - 1]
  <2>1. r \in RequestType /\ WorkIsHeld(r) /\ r.slot = req[q].slot /\ r.kind = req[q].kind
    BY <1>1, <1>6, GateAssumption DEF AwaitedEnds, RequestType, WorkIsHeld
  <2> QED
    BY <1>1, <1>2, <1>6, <2>1 DEF AwaitedEnds
<1>7. CASE TrackedEnds(q)
  <2> DEFINE r == [req[q] EXCEPT !.tracked = @ - 1]
  <2>1. r \in RequestType /\ WorkIsHeld(r) /\ r.slot = req[q].slot /\ r.kind = req[q].kind
    BY <1>1, <1>7, GateAssumption DEF TrackedEnds, RequestType, WorkIsHeld
  <2> QED
    BY <1>1, <1>2, <1>7, <2>1 DEF TrackedEnds
<1>8. CASE HandlerEnds(q)
  <2> DEFINE r == [req[q] EXCEPT !.at = "drain"]
  <2>1. r \in RequestType /\ WorkIsHeld(r) /\ r.slot = req[q].slot /\ r.kind = req[q].kind
    BY <1>1, <1>8 DEF HandlerEnds, RequestType, WorkIsHeld, States
  <2> QED
    BY <1>1, <1>2, <1>8, <2>1 DEF HandlerEnds
<1>9. CASE HoldEnds(q)
  <2> DEFINE r == [req[q] EXCEPT !.at = "answered"]
  <2>1. /\ r \in RequestType /\ r.slot = req[q].slot /\ r.kind = req[q].kind
        /\ WorkIsHeld([r EXCEPT !.slot = FALSE])
    BY <1>1, <1>9 DEF HoldEnds, Drained, RequestType, WorkIsHeld, States
  <2> QED
    BY <1>9, <2>1, ReleaseIInv DEF HoldEnds
<1>10. CASE StatusReadsNode(q)
  <2> DEFINE r == [req[q] EXCEPT !.at = "node"]
  <2>1. r \in RequestType /\ WorkIsHeld(r) /\ r.slot = req[q].slot /\ r.kind = req[q].kind
    BY <1>1, <1>10 DEF StatusReadsNode, RequestType, WorkIsHeld, States
  <2>2. nodeReads' \in Nat /\ shared' \in BOOLEAN
    BY <1>1, <1>10 DEF StatusReadsNode
  <2> QED
    BY <1>2, <1>10, <2>1, <2>2 DEF StatusReadsNode
<1>11. CASE Deadline(q)
  <2> DEFINE r == [req[q] EXCEPT !.at = "drain"]
  <2>1. r \in RequestType /\ WorkIsHeld(r) /\ r.slot = req[q].slot /\ r.kind = req[q].kind
    BY <1>1, <1>11 DEF Deadline, DeadlineRuns, RequestType, WorkIsHeld, States
  <2> QED
    BY <1>1, <1>2, <1>11, <2>1 DEF Deadline
<1> QED
  BY <1>3, <1>4, <1>5, <1>6, <1>7, <1>8, <1>9, <1>10, <1>11

LEMMA NodeSettlesIInv == IInv /\ NodeSettles => IInv'
<1> SUFFICES ASSUME IInv, NodeSettles PROVE IInv'
  OBVIOUS
<1>1. ASSUME NEW q \in Request
      PROVE  /\ req'[q] \in RequestType /\ WorkIsHeld(req'[q])
             /\ req'[q].slot = req[q].slot /\ req'[q].kind = req[q].kind
  <2>1. req[q] \in RequestType /\ WorkIsHeld(req[q])
    BY DEF IInv, Typed
  <2>2. req'[q] = IF req[q].at = "node" THEN [req[q] EXCEPT !.at = "drain"] ELSE req[q]
    BY DEF NodeSettles
  <2> QED
    BY <2>1, <2>2 DEF RequestType, WorkIsHeld, States
<1>2. Typed'
  <2>1. req' \in [Request -> RequestType]
    BY <1>1 DEF NodeSettles
  <2>2. nodeReads > 0 /\ nodeReads' = nodeReads - 1 /\ shared' = FALSE /\ inFlight' = inFlight
    BY DEF NodeSettles
  <2>3. nodeReads' \in Nat
    BY <2>2 DEF IInv, Typed
  <2> QED
    BY <2>1, <2>2, <2>3 DEF IInv, Typed
<1>3. \A g \in Gates : Holders(g)' = Holders(g)
  BY <1>1 DEF Holders
<1>4. SlotsCounted'
  BY <1>3 DEF NodeSettles, IInv, SlotsCounted
<1> QED
  BY <1>1, <1>2, <1>4 DEF IInv

LEMMA SpecIInv == Spec => []IInv
<1>1. Init => IInv
  BY InitIInv
<1>2. IInv /\ [Next]_vars => IInv'
  <2> SUFFICES ASSUME IInv, [Next]_vars PROVE IInv'
    OBVIOUS
  <2>1. CASE Next
    BY <2>1, ArriveIInv, ServedIInv, NodeSettlesIInv DEF Next
  <2>2. CASE UNCHANGED vars
    BY <2>2 DEF vars, IInv, Typed, SlotsCounted, Holders
  <2> QED
    BY <2>1, <2>2
<1> QED
  BY <1>1, <1>2, PTL DEF Spec

-----------------------------------------------------------------------------
\* Whoever hangs up, whatever a batch started and did not await, and whether or
\* not the node answers: no more requests have work running on a gate than its
\* cap (hold, releaseIfUnclaimed, sharedBlockchainInfo).
THEOREM CapHolds == Spec => []RunningWithinCap
<1>1. IInv => RunningWithinCap
  <2> SUFFICES ASSUME IInv, NEW g \in Gates
               PROVE  Cardinality({q \in Request : Running(q) /\ GateOf(req[q].kind) = g}) <= Limit[g]
    BY DEF RunningWithinCap
  <2> DEFINE R == {q \in Request : Running(q) /\ GateOf(req[q].kind) = g}
  <2>1. ASSUME NEW q \in Request, Running(q)
        PROVE  req[q].slot
    <3>1. req[q] \in RequestType /\ WorkIsHeld(req[q])
      BY DEF IInv, Typed
    <3>2. req[q].at \in {"handler", "node", "drain"} \/ (req[q].awaited = 0 /\ req[q].tracked = 0)
      BY <3>1 DEF RequestType, WorkIsHeld, States
    <3>3. req[q].at \in {"handler", "node", "drain"}
      BY <2>1, <3>2 DEF Running
    <3> QED
      BY <3>1, <3>3 DEF WorkIsHeld
  <2>2. R \subseteq Holders(g) /\ Holders(g) \subseteq Request
    BY <2>1 DEF Holders
  <2>3. Cardinality(R) <= Cardinality(Holders(g)) /\ Cardinality(R) \in Nat /\ Cardinality(Holders(g)) \in Nat
    BY <2>2, HoldersFinite, FS_Subset
  <2>4. Cardinality(Holders(g)) <= Limit[g] /\ Limit[g] \in Nat
    BY GateAssumption DEF IInv, SlotsCounted
  <2> QED
    BY <2>3, <2>4
<1> QED
  BY <1>1, SpecIInv, PTL

-----------------------------------------------------------------------------
(***************************************************************************)
(* No slot leaks, and one node read serves all status requests.  A second  *)
(* invariant, over the first: a request holds its slot exactly while its   *)
(* held handler or the handler's reads run or, where no handler claimed    *)
(* it, until the response is out or the socket closed; and a status        *)
(* request races the node only while the shared entry holds its read.      *)
(***************************************************************************)
Owner(r) == \/ r.at \in {"handler", "node", "drain"}
            \/ r.at = "answered" /\ r.open /\ ~r.claimed

SlotIffOwner == \A q \in Request : req[q].slot <=> Owner(req[q])

ReadIsShared ==
    /\ nodeReads = IF shared THEN 1 ELSE 0
    /\ \A q \in Request : req[q].at = "node" => shared

\* A gate's counter is the number of requests with work under way or a socket
\* still to be answered: with none left it is back at zero, whoever hung up
\* and whatever the node answered.
SlotsAreOwned ==
    \A g \in Gates : inFlight[g] = Cardinality({q \in Request : Owner(req[q]) /\ GateOf(req[q].kind) = g})

\* However many status requests race the node, and however often their
\* deadlines leave a read behind, at most one read is pending; each of those
\* requests races that one.
OneNodeRead == nodeReads <= 1 /\ \A q \in Request : req[q].at = "node" => nodeReads = 1

\* A step of one request that keeps the equivalence for it keeps it for all.
LEMMA OwnerStep ==
    ASSUME IInv, SlotIffOwner, NEW q \in Request, NEW r, r.slot <=> Owner(r),
           req' = [req EXCEPT ![q] = r]
    PROVE  SlotIffOwner'
<1>1. \A p \in Request : req'[p] = IF p = q THEN r ELSE req[p]
  BY DEF IInv, Typed
<1> QED
  BY <1>1 DEF SlotIffOwner, Owner

LEMMA ArriveOwner ==
    ASSUME IInv, SlotIffOwner, NEW q \in Request, NEW kind, NEW awaited, NEW tracked,
           Admit(q, kind, awaited, tracked)
    PROVE  SlotIffOwner'
<1> DEFINE r == [kind |-> kind, open |-> TRUE, slot |-> TRUE, claimed |-> kind # "guarded",
                 at |-> IF kind = "guarded" THEN "answered" ELSE "handler",
                 awaited |-> awaited, tracked |-> tracked]
<1>1. r.slot <=> Owner(r)
  BY DEF Owner
<1>2. req' = [req EXCEPT ![q] = r]
  BY DEF Admit
<1> HIDE DEF r
<1> QED
  BY <1>1, <1>2, OwnerStep

\* The record a socket event or the end of a hold leaves behind.
LEMMA ReleasedOwner ==
    ASSUME IInv, SlotIffOwner, NEW q \in Request, NEW r \in RequestType, Release(q, r),
           ~Owner([r EXCEPT !.slot = FALSE])
    PROVE  SlotIffOwner'
<1> DEFINE s == [r EXCEPT !.slot = FALSE]
<1>1. s.slot <=> Owner(s)
  BY DEF RequestType
<1>2. req' = [req EXCEPT ![q] = s]
  BY DEF Release
<1> HIDE DEF s
<1> QED
  BY <1>1, <1>2, OwnerStep

LEMMA ServedOwner ==
    ASSUME IInv, SlotIffOwner, NEW q \in Request,
           \/ Finish(q) \/ Close(q) \/ Gone(q) \/ AwaitedEnds(q) \/ TrackedEnds(q)
           \/ HandlerEnds(q) \/ HoldEnds(q) \/ StatusReadsNode(q) \/ Deadline(q)
    PROVE  SlotIffOwner'
<1>1. req[q] \in RequestType /\ WorkIsHeld(req[q]) /\ (req[q].slot <=> Owner(req[q]))
  BY DEF IInv, Typed, SlotIffOwner
<1>2. CASE Finish(q)
  <2> DEFINE r == [req[q] EXCEPT !.at = "finished"]
  <2>1. /\ r \in RequestType /\ r.claimed = req[q].claimed /\ r.slot = req[q].slot /\ ~Owner(r)
        /\ ~Owner([r EXCEPT !.slot = FALSE]) /\ req[q].at = "answered"
    BY <1>1, <1>2 DEF Finish, RequestType, States, Owner
  <2>2. CASE r.claimed
    <3>1. req' = [req EXCEPT ![q] = r]
      BY <1>2, <2>2 DEF Finish, ReleaseIfUnclaimed
    <3>2. ~r.slot
      BY <1>1, <2>1, <2>2 DEF Owner
    <3> QED
      BY <2>1, <3>1, <3>2, OwnerStep
  <2>3. CASE ~r.claimed
    BY <1>2, <2>1, <2>3, ReleasedOwner DEF Finish, ReleaseIfUnclaimed
  <2> QED
    BY <2>2, <2>3
<1>3. CASE Close(q)
  <2> DEFINE r == [req[q] EXCEPT !.open = FALSE]
  <2>1. /\ r \in RequestType /\ r.claimed = req[q].claimed /\ r.slot = req[q].slot /\ r.at = req[q].at
        /\ r.open = FALSE
    BY <1>1 DEF RequestType
  <2>2. CASE r.claimed
    <3>1. req' = [req EXCEPT ![q] = r]
      BY <1>3, <2>2 DEF Close, ReleaseIfUnclaimed
    <3>2. r.slot <=> Owner(r)
      BY <1>1, <2>1, <2>2 DEF Owner
    <3> QED
      BY <3>1, <3>2, OwnerStep
  <2>3. CASE ~r.claimed
    <3>1. ~Owner([r EXCEPT !.slot = FALSE])
      BY <1>1, <2>1, <2>3 DEF Owner, WorkIsHeld, RequestType
    <3> QED
      BY <1>3, <2>1, <2>3, <3>1, ReleasedOwner DEF Close, ReleaseIfUnclaimed
  <2> QED
    BY <2>2, <2>3
<1>4. CASE Gone(q)
  <2>1. req' = [req EXCEPT ![q] = Idle]
    BY <1>4 DEF Gone
  <2>2. Idle.slot <=> Owner(Idle)
    BY DEF Idle, Owner
  <2> QED
    BY <2>1, <2>2, OwnerStep
<1>5. CASE AwaitedEnds(q)
  <2> DEFINE r == [req[q] EXCEPT !.awaited = @ - 1]
  <2>1. r.slot <=> Owner(r)
    BY <1>1 DEF RequestType, Owner
  <2> QED
    BY <1>5, <2>1, OwnerStep DEF AwaitedEnds
<1>6. CASE TrackedEnds(q)
  <2> DEFINE r == [req[q] EXCEPT !.tracked = @ - 1]
  <2>1. r.slot <=> Owner(r)
    BY <1>1 DEF RequestType, Owner
  <2> QED
    BY <1>6, <2>1, OwnerStep DEF TrackedEnds
<1>7. CASE HandlerEnds(q) \/ Deadline(q)
  <2> DEFINE r == [req[q] EXCEPT !.at = "drain"]
  <2>1. r.slot <=> Owner(r)
    BY <1>1, <1>7 DEF HandlerEnds, Deadline, DeadlineRuns, RequestType, Owner
  <2>2. req' = [req EXCEPT ![q] = r]
    BY <1>7 DEF HandlerEnds, Deadline
  <2> QED
    BY <2>1, <2>2, OwnerStep
<1>8. CASE HoldEnds(q)
  <2> DEFINE r == [req[q] EXCEPT !.at = "answered"]
  <2>1. r \in RequestType /\ ~Owner([r EXCEPT !.slot = FALSE])
    BY <1>1, <1>8 DEF HoldEnds, RequestType, States, WorkIsHeld, Owner
  <2> QED
    BY <1>8, <2>1, ReleasedOwner DEF HoldEnds
<1>9. CASE StatusReadsNode(q)
  <2> DEFINE r == [req[q] EXCEPT !.at = "node"]
  <2>1. r.slot <=> Owner(r)
    BY <1>1, <1>9 DEF StatusReadsNode, RequestType, Owner
  <2>2. req' = [req EXCEPT ![q] = r]
    BY <1>9 DEF StatusReadsNode
  <2> QED
    BY <2>1, <2>2, OwnerStep
<1> QED
  BY <1>2, <1>3, <1>4, <1>5, <1>6, <1>7, <1>8, <1>9

LEMMA NodeSettlesOwner == IInv /\ SlotIffOwner /\ NodeSettles => SlotIffOwner'
<1> SUFFICES ASSUME IInv, SlotIffOwner, NodeSettles, NEW q \in Request
             PROVE  req'[q].slot <=> Owner(req'[q])
  BY DEF SlotIffOwner, Owner
<1>1. req[q] \in RequestType /\ (req[q].slot <=> Owner(req[q]))
  BY DEF IInv, Typed, SlotIffOwner
<1>2. req'[q] = IF req[q].at = "node" THEN [req[q] EXCEPT !.at = "drain"] ELSE req[q]
  BY DEF NodeSettles
<1> QED
  BY <1>1, <1>2 DEF RequestType, Owner

(***************************************************************************)
(* The gate cannot ratchet shut: each of its slots is held for a request   *)
(* that still has work under way or a response to send, for every order of *)
(* hang-ups, answers and deadlines (hold, release, releaseIfUnclaimed).    *)
(***************************************************************************)
THEOREM NoSlotLeaks == Spec => []SlotsAreOwned
<1>1. Init => SlotIffOwner
  BY DEF Init, Idle, SlotIffOwner, Owner
<1>2. IInv /\ SlotIffOwner /\ [Next]_vars => SlotIffOwner'
  <2> SUFFICES ASSUME IInv, SlotIffOwner, [Next]_vars PROVE SlotIffOwner'
    OBVIOUS
  <2>1. ASSUME NEW q \in Request,
               ArriveRead(q) \/ ArriveProbe(q) \/ ArriveBatch(q) \/ ArriveStatus(q) \/ ArriveGuarded(q)
        PROVE  SlotIffOwner'
    BY <2>1, ArriveOwner DEF ArriveRead, ArriveProbe, ArriveBatch, ArriveStatus, ArriveGuarded
  <2>2. CASE UNCHANGED vars
    BY <2>2 DEF vars, SlotIffOwner, Owner
  <2> QED
    BY <2>1, <2>2, ServedOwner, NodeSettlesOwner DEF Next
<1>3. IInv /\ SlotIffOwner => SlotsAreOwned
  <2> SUFFICES ASSUME IInv, SlotIffOwner, NEW g \in Gates
               PROVE  inFlight[g] = Cardinality({q \in Request : Owner(req[q]) /\ GateOf(req[q].kind) = g})
    BY DEF SlotsAreOwned
  <2>1. Holders(g) = {q \in Request : Owner(req[q]) /\ GateOf(req[q].kind) = g}
    BY DEF SlotIffOwner, Holders
  <2> QED
    BY <2>1 DEF IInv, SlotsCounted
<1> QED
  BY <1>1, <1>2, <1>3, SpecIInv, PTL DEF Spec

(***************************************************************************)
(* A node that does not answer is asked once: the deadline of a status     *)
(* request leaves the shared read pending and the next request joins it    *)
(* (sharedBlockchainInfo, blockchainInfoWithDeadline).                     *)
(***************************************************************************)
THEOREM StatusSharesARead == Spec => []OneNodeRead
<1>1. Init => ReadIsShared
  BY DEF Init, Idle, ReadIsShared
<1>2. IInv /\ ReadIsShared /\ [Next]_vars => ReadIsShared'
  <2> SUFFICES ASSUME IInv, ReadIsShared, [Next]_vars PROVE ReadIsShared'
    OBVIOUS
  <2>0. nodeReads = (IF shared THEN 1 ELSE 0) /\ shared \in BOOLEAN /\ \A q \in Request : req[q].at = "node" => shared
    BY DEF ReadIsShared, IInv, Typed
  <2>1. CASE NodeSettles
    <3>1. nodeReads > 0 /\ nodeReads' = nodeReads - 1 /\ shared' = FALSE
      BY <2>1 DEF NodeSettles
    <3>2. nodeReads' = 0
      BY <2>0, <3>1
    <3>3. ASSUME NEW q \in Request PROVE req'[q].at # "node"
      <4>1. req[q] \in RequestType
        BY DEF IInv, Typed
      <4>2. req'[q] = IF req[q].at = "node" THEN [req[q] EXCEPT !.at = "drain"] ELSE req[q]
        BY <2>1 DEF NodeSettles
      <4> QED
        BY <4>1, <4>2 DEF RequestType
    <3> QED
      BY <3>1, <3>2, <3>3 DEF ReadIsShared
  <2>2. ASSUME NEW q \in Request, StatusReadsNode(q)
        PROVE  ReadIsShared'
    <3>1. shared' = TRUE /\ nodeReads' = IF ~shared THEN nodeReads + 1 ELSE nodeReads
      BY <2>2 DEF StatusReadsNode, StartsRead
    <3>2. nodeReads' = 1
      BY <2>0, <3>1
    <3> QED
      BY <3>1, <3>2 DEF ReadIsShared
  <2>3. ASSUME NEW q \in Request, NEW r, req' = [req EXCEPT ![q] = r], r.at # "node" \/ r.at = req[q].at,
               UNCHANGED <<shared, nodeReads>>
        PROVE  ReadIsShared'
    <3>1. \A p \in Request : req'[p] = IF p = q THEN r ELSE req[p]
      BY <2>3 DEF IInv, Typed
    <3> QED
      BY <2>0, <2>3, <3>1 DEF ReadIsShared
  <2>4. ASSUME NEW q \in Request,
               ArriveRead(q) \/ ArriveProbe(q) \/ ArriveBatch(q) \/ ArriveStatus(q) \/ ArriveGuarded(q)
        PROVE  ReadIsShared'
    <3>1. PICK kind, awaited, tracked : Admit(q, kind, awaited, tracked)
      BY <2>4 DEF ArriveRead, ArriveProbe, ArriveBatch, ArriveStatus, ArriveGuarded
    <3> DEFINE r == [kind |-> kind, open |-> TRUE, slot |-> TRUE, claimed |-> kind # "guarded",
                     at |-> IF kind = "guarded" THEN "answered" ELSE "handler",
                     awaited |-> awaited, tracked |-> tracked]
    <3>2. req' = [req EXCEPT ![q] = r] /\ r.at # "node" /\ UNCHANGED <<shared, nodeReads>>
      BY <3>1 DEF Admit
    <3> HIDE DEF r
    <3> QED
      BY <2>3, <3>2
  <2>5. ASSUME NEW q \in Request, NEW r \in RequestType, Release(q, r) \/ ReleaseIfUnclaimed(q, r),
               r.at # "node" \/ r.at = req[q].at, UNCHANGED <<shared, nodeReads>>
        PROVE  ReadIsShared'
    <3>1. req' = [req EXCEPT ![q] = r] \/ req' = [req EXCEPT ![q] = [r EXCEPT !.slot = FALSE]]
      BY <2>5 DEF Release, ReleaseIfUnclaimed
    <3>2. [r EXCEPT !.slot = FALSE].at = r.at
      BY DEF RequestType
    <3> QED
      BY <2>3, <2>5, <3>1, <3>2
  <2>6. ASSUME NEW q \in Request, Finish(q) \/ Close(q) \/ HoldEnds(q)
        PROVE  ReadIsShared'
    <3>1. req[q] \in RequestType
      BY DEF IInv, Typed
    <3>2. CASE Finish(q)
      <4> DEFINE r == [req[q] EXCEPT !.at = "finished"]
      <4>1. r \in RequestType /\ r.at # "node"
        BY <3>1 DEF RequestType, States
      <4> QED
        BY <2>5, <3>2, <4>1 DEF Finish
    <3>3. CASE Close(q)
      <4> DEFINE r == [req[q] EXCEPT !.open = FALSE]
      <4>1. r \in RequestType /\ r.at = req[q].at
        BY <3>1 DEF RequestType
      <4> QED
        BY <2>5, <3>3, <4>1 DEF Close
    <3>4. CASE HoldEnds(q)
      <4> DEFINE r == [req[q] EXCEPT !.at = "answered"]
      <4>1. r \in RequestType /\ r.at # "node"
        BY <3>1 DEF RequestType, States
      <4> QED
        BY <2>5, <3>4, <4>1 DEF HoldEnds
    <3> QED
      BY <2>6, <3>2, <3>3, <3>4
  <2>7. ASSUME NEW q \in Request, Gone(q) \/ AwaitedEnds(q) \/ TrackedEnds(q) \/ HandlerEnds(q) \/ Deadline(q)
        PROVE  ReadIsShared'
    <3>1. req[q] \in RequestType
      BY DEF IInv, Typed
    <3>2. UNCHANGED <<shared, nodeReads>>
      BY <2>7 DEF Gone, AwaitedEnds, TrackedEnds, HandlerEnds, Deadline
    <3>3. PICK r : req' = [req EXCEPT ![q] = r] /\ (r.at # "node" \/ r.at = req[q].at)
      <4>1. CASE Gone(q)
        <5>1. Idle.at # "node"
          BY DEF Idle
        <5>2. req' = [req EXCEPT ![q] = Idle]
          BY <4>1 DEF Gone
        <5> QED
          BY <5>1, <5>2
      <4>2. CASE AwaitedEnds(q)
        <5>1. [req[q] EXCEPT !.awaited = @ - 1].at = req[q].at
          BY <3>1 DEF RequestType
        <5> QED
          BY <4>2, <5>1 DEF AwaitedEnds
      <4>3. CASE TrackedEnds(q)
        <5>1. [req[q] EXCEPT !.tracked = @ - 1].at = req[q].at
          BY <3>1 DEF RequestType
        <5> QED
          BY <4>3, <5>1 DEF TrackedEnds
      <4>4. CASE HandlerEnds(q) \/ Deadline(q)
        <5>1. [req[q] EXCEPT !.at = "drain"].at # "node"
          BY <3>1 DEF RequestType
        <5> QED
          BY <4>4, <5>1 DEF HandlerEnds, Deadline
      <4> QED
        BY <2>7, <4>1, <4>2, <4>3, <4>4
    <3> QED
      BY <2>3, <3>2, <3>3
  <2>8. CASE UNCHANGED vars
    BY <2>8 DEF vars, ReadIsShared
  <2> QED
    BY <2>1, <2>2, <2>4, <2>6, <2>7, <2>8 DEF Next
<1>3. ReadIsShared => OneNodeRead
  BY DEF ReadIsShared, OneNodeRead
<1> QED
  BY <1>1, <1>2, <1>3, SpecIInv, PTL DEF Spec
=============================================================================
