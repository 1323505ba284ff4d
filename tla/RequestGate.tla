----------------------------- MODULE RequestGate -----------------------------
(***************************************************************************)
(* The global concurrency gates (server/concurrency_gate.js), the routes   *)
(* held on them, and the one node read the status requests share           *)
(* (api/sync_status.js).                                                   *)
(*                                                                         *)
(* A request is served on one of two gates.  Its slot belongs to the       *)
(* socket until a handler wrapped in hold() claims it; then to the work:   *)
(* the handler and every read the JSON-RPC router started for it, awaited  *)
(* or not.  Clients hang up whenever they like, the node need not answer.  *)
(* That a store read ends is what StoreCommitLock shows of it.             *)
(***************************************************************************)
EXTENDS Integers, FiniteSets

CONSTANTS
    Request,     \* concurrent requests
    Limit,       \* Limit.main, Limit.probe: the caps of the two gates
    MaxBatch     \* MAX_JSONRPC_BATCH

Gates == {"main", "probe"}

ASSUME GateAssumption == /\ IsFiniteSet(Request) /\ MaxBatch \in Nat \ {0}
                         /\ Limit \in [Gates -> Nat \ {0}]

VARIABLES
    req,         \* each request: its kind, its socket, its slot, its work
    inFlight,    \* state.inFlight of each gate
    shared,      \* nodeReadInFlight holds a pending read
    nodeReads    \* getBlockchainInfo calls of status requests not settled

vars == <<req, inFlight, shared, nodeReads>>

(***************************************************************************)
(* Kinds: a REST address read, a JSON-RPC batch whose entries may be calls *)
(* or notifications, a sync status call, a request the admin guard turns   *)
(* away, and GET /status.  awaited and tracked count reads still running:  *)
(* those the handler awaits and those it only started.                     *)
(***************************************************************************)
Kinds == {"rest", "batch", "status", "guarded", "probe"}
Idle  == [kind |-> "none", at |-> "idle", open |-> FALSE, slot |-> FALSE, claimed |-> FALSE,
          awaited |-> 0, tracked |-> 0]

\* isProbe and the two skips: each request meets one gate.
GateOf(kind) == IF kind = "probe" THEN "probe" ELSE "main"

Init == /\ req = [q \in Request |-> Idle] /\ inFlight = [g \in Gates |-> 0]
        /\ shared = FALSE /\ nodeReads = 0
-----------------------------------------------------------------------------
\* The gate's middleware: at the cap the request is answered 429 and leaves
\* no trace; below it takes a slot, and a held handler claims it in that turn.
Admit(q, kind, awaited, tracked) ==
    /\ req[q] = Idle
    /\ inFlight[GateOf(kind)] < Limit[GateOf(kind)]
    /\ inFlight' = [inFlight EXCEPT ![GateOf(kind)] = @ + 1]
    /\ req' = [req EXCEPT ![q] = [kind |-> kind, open |-> TRUE, slot |-> TRUE,
                                  claimed |-> kind # "guarded",
                                  at |-> IF kind = "guarded" THEN "answered" ELSE "handler",
                                  awaited |-> awaited, tracked |-> tracked]]
    /\ UNCHANGED <<shared, nodeReads>>

\* A read is one of the address or index reads, or is_quiescent's node reads,
\* which the RPC client's own timeout ends; GET /status reads the height alone.
\* A batch over MAX_JSONRPC_BATCH, or an admin method without the key, is
\* answered by the guard before any held handler.
ArriveRead(q)    == Admit(q, "rest", 1, 0)
ArriveProbe(q)   == Admit(q, "probe", 1, 0)
ArriveBatch(q)   == \E n \in 1 .. MaxBatch : \E calls \in 0 .. n : Admit(q, "batch", calls, n - calls)
ArriveStatus(q)  == Admit(q, "status", 0, 0)
ArriveGuarded(q) == Admit(q, "guarded", 0, 0)

\* release(), idempotent; r is the request after the event that calls it.
Release(q, r) ==
    /\ inFlight' = IF r.slot THEN [inFlight EXCEPT ![GateOf(r.kind)] = @ - 1] ELSE inFlight
    /\ req' = [req EXCEPT ![q] = [r EXCEPT !.slot = FALSE]]

\* releaseIfUnclaimed: the legs of the two socket events.
ReleaseIfUnclaimed(q, r) ==
    IF r.claimed THEN req' = [req EXCEPT ![q] = r] /\ UNCHANGED inFlight
    ELSE Release(q, r)

Finish(q) ==
    /\ req[q].at = "answered"
    /\ ReleaseIfUnclaimed(q, [req[q] EXCEPT !.at = "finished"])
    /\ UNCHANGED <<shared, nodeReads>>

\* The client hung up, or the exchange is over.
Close(q) ==
    /\ req[q].open
    /\ ReleaseIfUnclaimed(q, [req[q] EXCEPT !.open = FALSE])
    /\ UNCHANGED <<shared, nodeReads>>

\* Nothing of the request is left.
Gone(q) ==
    /\ req[q].at \in {"answered", "finished"} /\ ~req[q].open /\ ~req[q].slot
    /\ req' = [req EXCEPT ![q] = Idle]
    /\ UNCHANGED <<inFlight, shared, nodeReads>>
-----------------------------------------------------------------------------
\* A read the handler awaits ends, or one it only started.
AwaitedEnds(q) ==
    /\ req[q].awaited > 0
    /\ req' = [req EXCEPT ![q].awaited = @ - 1]
    /\ UNCHANGED <<inFlight, shared, nodeReads>>

TrackedEnds(q) ==
    /\ req[q].tracked > 0
    /\ req' = [req EXCEPT ![q].tracked = @ - 1]
    /\ UNCHANGED <<inFlight, shared, nodeReads>>

\* The handler's promise settles: the response goes out.
HandlerEnds(q) ==
    /\ req[q].at = "handler" /\ req[q].kind # "status" /\ req[q].awaited = 0
    /\ req' = [req EXCEPT ![q].at = "drain"]
    /\ UNCHANGED <<inFlight, shared, nodeReads>>

\* The finally of heldHandler waits for the tracked work; in the slip for none.
DrainedAtOnce(q) == TRUE
Drained(q)       == req[q].tracked = 0

HoldEnds(q) ==
    /\ req[q].at = "drain" /\ Drained(q)
    /\ Release(q, [req[q] EXCEPT !.at = "answered"])
    /\ UNCHANGED <<shared, nodeReads>>
-----------------------------------------------------------------------------
\* sharedBlockchainInfo starts a read when none is pending.
StartsRead == ~shared

StatusReadsNode(q) ==
    /\ req[q].kind = "status" /\ req[q].at = "handler"
    /\ req' = [req EXCEPT ![q].at = "node"]
    /\ nodeReads' = IF StartsRead THEN nodeReads + 1 ELSE nodeReads
    /\ shared' = TRUE
    /\ UNCHANGED inFlight

\* It settles, either way: the entry clears and every racing request goes on.
NodeSettles ==
    /\ nodeReads > 0
    /\ nodeReads' = nodeReads - 1 /\ shared' = FALSE
    /\ req' = [q \in Request |-> IF req[q].at = "node" THEN [req[q] EXCEPT !.at = "drain"] ELSE req[q]]
    /\ UNCHANGED inFlight

\* blockchainInfoWithDeadline: the cached tip is served, reported stale, and
\* the read stays pending for the next caller.  In the slip nothing races it.
NoDeadline(q)   == FALSE
DeadlineRuns(q) == req[q].at = "node"

Deadline(q) ==
    /\ DeadlineRuns(q)
    /\ req' = [req EXCEPT ![q].at = "drain"]
    /\ UNCHANGED <<inFlight, shared, nodeReads>>
-----------------------------------------------------------------------------
Served(q) == Finish(q) \/ AwaitedEnds(q) \/ TrackedEnds(q) \/ HandlerEnds(q) \/ HoldEnds(q)
             \/ StatusReadsNode(q) \/ Deadline(q)

Next == \/ \E q \in Request : \/ ArriveRead(q) \/ ArriveProbe(q) \/ ArriveBatch(q) \/ ArriveStatus(q) \/ ArriveGuarded(q)
                              \/ Finish(q) \/ Close(q) \/ Gone(q)
                              \/ AwaitedEnds(q) \/ TrackedEnds(q) \/ HandlerEnds(q) \/ HoldEnds(q)
                              \/ StatusReadsNode(q) \/ Deadline(q)
        \/ NodeSettles

\* Reads end, timers fire and promises continue.  Neither the node nor a
\* client owes anything: no fairness for NodeSettles or Close.
Spec == Init /\ [][Next]_vars /\ \A q \in Request : WF_vars(Served(q))
-----------------------------------------------------------------------------
Running(q) == req[q].at \in {"handler", "node"} \/ req[q].awaited + req[q].tracked > 0

\* No more requests have work running than their gate's cap, whoever hangs up
\* and whatever was started and not awaited: "a client that hangs up mid-scan
\* cannot free capacity for the next request" (hold, registerRoutes).
RunningWithinCap ==
    \A g \in Gates : Cardinality({q \in Request : Running(q) /\ GateOf(req[q].kind) = g}) <= Limit[g]

\* Every slot comes back though the node never answers and the client never
\* hangs up, so the gate cannot ratchet shut (hold, blockchainInfoWithDeadline).
SlotsComeBack == \A q \in Request : req[q].slot ~> ~req[q].slot
=============================================================================
