----------------------------- MODULE BlockFetch -----------------------------
(***************************************************************************)
(* How the sync loop gets the bytes of the next block: the prefetch queue  *)
(* (sync_loop_block_fetch.js), the two failure streaks                     *)
(* (fetch_failures_and_halt.js) and the connector under them with its      *)
(* retries and its endpoint failover (chain/blockchain_connector).         *)
(*                                                                         *)
(* A call is a whole method of the connector: a plan of RPC legs, one      *)
(* request in flight at a time.  The queue holds batches; a batch stands   *)
(* for its entries lo..hi, which share one promise.  Calls the loop no     *)
(* longer waits for run on: they are the orphans, and their failures and   *)
(* answers still reach the failover counter.                               *)
(***************************************************************************)
EXTENDS Integers, Sequences, FiniteSets, Bags

CONSTANTS Tip,               \* the node's tip: heights are 1..Tip
          PrefetchSize,      \* PREFETCH_SIZE
          MaxTries,          \* the ten tries of a retried RPC
          MaxFetchRetries,   \* MAX_BLOCK_FETCH_RETRIES
          ReassembleAfter,   \* AUXPOW_REASSEMBLE_AFTER
          FailoverThreshold, \* NODE_FAILOVER_THRESHOLD
          Endpoints,         \* how many endpoints are configured
          AuxPow,            \* the chain has AuxPoW headers to strip
          Nodes,             \* what the node may be: see node below
          MaxFaults,         \* bound: faults of an endpoint that is up
          MaxOutages,        \* bound: times an endpoint goes down or comes back
          MaxRewinds         \* bound: rollbacks of the cursor

ASSUME FetchAssumption ==
    /\ {Tip, PrefetchSize, MaxTries, ReassembleAfter, FailoverThreshold, Endpoints} \subseteq Nat \ {0}
    /\ MaxFetchRetries \in Nat /\ MaxFetchRetries > ReassembleAfter
    /\ {MaxFaults, MaxOutages, MaxRewinds} \subseteq Nat
    /\ AuxPow \in BOOLEAN
    /\ Nodes \subseteq [dead : SUBSET (0 .. Endpoints - 1), missing : SUBSET (1 .. Tip),
                       malformed : SUBSET (1 .. Tip), txindex : BOOLEAN]

VARIABLES node,       \* the dead endpoints; the missing and the malformed blocks, txindex
          next,       \* lastProcessedBlockIndex + 1
          queue,      \* prefetchQueue, as the sequence of its batches
          call,       \* the direct fetch or reassembly in progress, or NoCall
          orphans,    \* bag of the calls nobody awaits any more
          waiting,    \* what fetchNextBlock awaits: "no", "queue" or "call"
          got,        \* height of the block last handed to the decoder
          blockFetch, \* blockFetchFailureHeight, blockFetchFailures
          parse,      \* auxPowParseFailureHeight, auxPowParseFailures
          desync,     \* blockFetchDesync: the loop has thrown
          active,     \* activeEndpointIndex
          connectionFailures,
          faults, outages, rewinds,
          lost        \* history: failures at the cursor that were outages

loopVars == <<next, waiting, got, blockFetch, parse, desync, rewinds, lost>>
netVars  == <<active, connectionFailures>>
vars     == <<node, loopVars, netVars, queue, call, orphans, faults, outages>>
-----------------------------------------------------------------------------
NoHeight == 0
NoStreak == [height |-> NoHeight, count |-> 0]
NoCall   == [kind |-> "none", lo |-> 0, hi |-> 0, leg |-> 0, tries |-> 0, at |-> 0, res |-> "none"]

\* The RPC legs of each connector method, in order: getBlocksBatch and
\* getBlock on a plain chain, getBlocksBatchWithoutAuxPow and
\* getBlockWithoutAuxPow on an AuxPoW one, getBlockReassembled.
Plan(kind) == IF kind = "rebuild" THEN <<"hash", "header", "verbose", "txs">>
              ELSE IF AuxPow THEN <<"hash", "header", "block">>
              ELSE <<"hash", "block">>

\* A call begins by posting its first leg to the active endpoint.
Begin(kind, lo, hi) == [kind |-> kind, lo |-> lo, hi |-> hi, leg |-> 1,
                        tries |-> MaxTries, at |-> active, res |-> "sent"]
Rejected       == {"tagged", "missing", "failed"}
Settled(c)     == c.res \in Rejected \cup {"ok"}
SettleAs(c, r) == [c EXCEPT !.res = r, !.leg = 0, !.tries = 0, !.at = 0]

\* stripAuxPowFromBlockHex: the AuxPoW section of this block cannot be
\* skipped, or what is left of the block does not parse.
StripThrows(h) == AuxPow /\ h \in node.malformed

\* The node answers the leg, but with an error: the body of a block it has
\* pruned or never had, hash and header notwithstanding, or a confirmed
\* transaction of a node without txindex.  One such block fails the batch.
Unserved(c) == LET leg == Plan(c.kind)[c.leg]
               IN  \/ leg \in {"block", "verbose"} /\ \E h \in c.lo .. c.hi : h \in node.missing
                   \/ c.kind = "rebuild" /\ leg = "txs" /\ ~node.txindex

\* What a call yields once its last leg is answered.  One malformed block
\* rejects the batch as a whole, and every entry of it, as a parse failure;
\* reassembly never reads the AuxPoW bytes.
Yield(c) == IF c.kind # "rebuild" /\ \E h \in c.lo .. c.hi : StripThrows(h) THEN "tagged" ELSE "ok"

Answered(c) == IF Unserved(c) THEN SettleAs(c, "missing")
               ELSE IF c.leg < Len(Plan(c.kind))
               THEN [c EXCEPT !.leg = @ + 1, !.tries = MaxTries, !.at = active]
               ELSE SettleAs(c, Yield(c))

\* Which faults a leg retries: getRawTransaction every one, postWithRetry and
\* getBlockHeader a timeout, the lone getBlockHash none.
Retries(c, fault) ==
    LET leg == Plan(c.kind)[c.leg]
    IN  leg = "txs" \/ (fault = "timeout" /\ (c.kind = "batch" \/ leg # "hash"))

Faulted(c, fault) == IF Retries(c, fault) /\ c.tries > 1
                     THEN [c EXCEPT !.tries = @ - 1, !.at = 0, !.res = "asleep"]
                     ELSE SettleAs(c, "failed")
-----------------------------------------------------------------------------
Init == /\ node \in Nodes
        /\ next = 1 /\ queue = <<>> /\ call = NoCall /\ orphans = EmptyBag
        /\ waiting = "no" /\ got = NoHeight
        /\ blockFetch = NoStreak /\ parse = NoStreak /\ desync = FALSE
        /\ active = 0 /\ connectionFailures = 0
        /\ faults = 0 /\ outages = 0 /\ rewinds = 0 /\ lost = 0

\* prefetchQueue = []: what is still in flight runs on unawaited.
Unsettled(q) == {i \in DOMAIN q : ~Settled(q[i])}
Abandoned(q) == [c \in {q[i] : i \in Unsettled(q)} |-> Cardinality({i \in Unsettled(q) : q[i] = c})]

\* fillPrefetchQueue: one batch for the heights after the last entry, up to
\* PREFETCH_SIZE entries in all and never past the node's tip.
Entries(q)   == IF q = <<>> THEN 0 ELSE q[Len(q)].hi - q[1].lo + 1
LastQueued   == IF queue = <<>> THEN next - 1 ELSE queue[Len(queue)].hi
BatchEnd     == LET room == LastQueued + PrefetchSize - Entries(queue)
                IN  IF room < Tip THEN room ELSE Tip
FilledQueue  == IF BatchEnd > LastQueued
                THEN Append(queue, Begin("batch", LastQueued + 1, BatchEnd))
                ELSE queue

\* shouldReassembleBlock, and the slip of reading the other streak.
ReassembleOnAny  == AuxPow /\ blockFetch.height = next /\ blockFetch.count >= ReassembleAfter
ShouldReassemble == AuxPow /\ parse.height = next /\ parse.count >= ReassembleAfter

\* The queue serves the height asked for when its first entry is that height.
QueueServesAny(q) == q # <<>>
QueueServes(q)    == q # <<>> /\ q[1].lo = next

\* indexNextBlock up to its await: fill the queue, then wait for the
\* reassembled block, the first entry, or a direct fetch that drops the queue.
FetchNextBlock ==
    /\ waiting = "no" /\ ~desync /\ next <= Tip
    /\ LET q == FilledQueue
       IN  \/ /\ ~ShouldReassemble /\ QueueServes(q)
              /\ queue' = q /\ waiting' = "queue"
              /\ UNCHANGED <<call, orphans>>
           \/ /\ ShouldReassemble \/ ~QueueServes(q)
              /\ queue' = <<>> /\ orphans' = orphans (+) Abandoned(q)
              /\ call' = Begin(IF ShouldReassemble THEN "rebuild" ELSE "direct", next, next)
              /\ waiting' = "call"
    /\ UNCHANGED <<node, next, got, blockFetch, parse, desync, netVars, faults, outages, rewinds, lost>>

Awaited == IF waiting = "queue" THEN queue[1] ELSE call

\* The awaited promise resolved: both streaks clear, and the block is decoded,
\* staged and passed by the cursor before the next fetch.
BlockArrives ==
    /\ waiting # "no" /\ Awaited.res = "ok"
    /\ got' = Awaited.lo /\ next' = next + 1 /\ waiting' = "no"
    /\ queue' = IF waiting = "call" THEN queue
                ELSE IF queue[1].lo = queue[1].hi THEN Tail(queue)
                ELSE [queue EXCEPT ![1].lo = @ + 1]
    /\ call' = NoCall /\ blockFetch' = NoStreak /\ parse' = NoStreak
    /\ lost' = 0
    /\ UNCHANGED <<node, orphans, desync, netVars, faults, outages, rewinds>>

\* noteAuxPowParseFailure: an untagged failure leaves the count where it is.
NoteParse(tagged) ==
    IF parse.height # next THEN [height |-> next, count |-> IF tagged THEN 1 ELSE 0]
    ELSE IF tagged THEN [parse EXCEPT !.count = @ + 1] ELSE parse

\* noteBlockFetchFailure counts every failure, and restarts on another height;
\* in the slip a streak goes on at whatever height fails next.
NoteFetchAnywhere == [height |-> next, count |-> blockFetch.count + 1]
NoteFetch == [height |-> next, count |-> IF blockFetch.height = next THEN blockFetch.count + 1 ELSE 1]

\* It rejected: drop the queue, count both streaks, throw at the bound, else
\* sleep and end the pass.
BlockFails ==
    /\ waiting # "no" /\ Awaited.res \in Rejected
    /\ queue' = <<>> /\ orphans' = orphans (+) Abandoned(queue)
    /\ call' = NoCall /\ waiting' = "no"
    /\ parse' = NoteParse(Awaited.res = "tagged") /\ blockFetch' = NoteFetch
    /\ desync' = (NoteFetch.count >= MaxFetchRetries)
    /\ lost' = IF Awaited.res = "failed" THEN lost + 1 ELSE lost
    /\ UNCHANGED <<node, next, got, netVars, faults, outages, rewinds>>

\* The crash guard exits on the desync error and the supervisor restarts the
\* process: a new loop and a new connector at some committed height.
Relaunch ==
    /\ desync
    /\ next' \in 1 .. next
    /\ queue' = <<>> /\ call' = NoCall /\ orphans' = EmptyBag /\ waiting' = "no"
    /\ blockFetch' = NoStreak /\ parse' = NoStreak /\ desync' = FALSE
    /\ active' = 0 /\ connectionFailures' = 0 /\ lost' = 0
    /\ UNCHANGED <<node, got, faults, outages, rewinds>>

\* Between passes the loop may roll the cursor back: on a hash mismatch with
\* the queue dropped, on a node tip below its own with the queue left as it is.
RollBack ==
    /\ waiting = "no" /\ ~desync /\ rewinds < MaxRewinds
    /\ rewinds' = rewinds + 1
    /\ next' \in 1 .. next - 1 /\ lost' = 0
    /\ \/ queue' = <<>> /\ orphans' = orphans (+) Abandoned(queue)
       \/ UNCHANGED <<queue, orphans>>
    /\ UNCHANGED <<node, call, waiting, got, blockFetch, parse, desync, netVars, faults, outages>>
-----------------------------------------------------------------------------
\* rpcPost: a response, whatever it says, ends the streak; noteConnectionFailure
\* counts a transport fault against whichever endpoint is active now.
NodeAnswered == connectionFailures' = 0 /\ UNCHANGED active
ConnectionFailed ==
    IF Endpoints < 2 THEN UNCHANGED netVars
    ELSE IF connectionFailures + 1 >= FailoverThreshold
         THEN active' = (active + 1) % Endpoints /\ connectionFailures' = 0
         ELSE connectionFailures' = connectionFailures + 1 /\ UNCHANGED active

\* How the wait of a call in flight can end: its retry sleep is over, or the
\* endpoint its request went to answers, refuses, stalls or drops it.  In the
\* slip a retry never posts again.
OutcomesUnslept(c) == IF c.res = "asleep" THEN {}
                      ELSE IF c.at \in node.dead THEN {"timeout", "dropped"}
                      ELSE {"answer", "refused", "timeout", "dropped"}
Outcomes(c) == IF c.res = "asleep" THEN {"resend"}
               ELSE IF c.at \in node.dead THEN {"timeout", "dropped"}
               ELSE {"answer", "refused", "timeout", "dropped"}

After(c, outcome) == CASE outcome = "resend" -> [c EXCEPT !.at = active, !.res = "sent"]
                       [] outcome = "answer" -> Answered(c)
                       [] OTHER -> Faulted(c, outcome)

\* What it does to the connector.  A fault is free on a dead endpoint and
\* bounded by MaxFaults on one that is up.
Reaches(e, outcome) ==
    /\ CASE outcome = "resend" -> UNCHANGED netVars
         [] outcome \in {"answer", "refused"} -> NodeAnswered
         [] OTHER -> ConnectionFailed
    /\ IF outcome \in {"resend", "answer"} \/ e \in node.dead THEN UNCHANGED faults
       ELSE faults < MaxFaults /\ faults' = faults + 1

InFlight(c) == c.res \in {"sent", "asleep"}

CallSteps ==
    /\ InFlight(call)
    /\ \E o \in Outcomes(call) : Reaches(call.at, o) /\ call' = After(call, o)
    /\ UNCHANGED <<node, outages, loopVars, queue, orphans>>

BatchSteps(i) ==
    /\ InFlight(queue[i])
    /\ \E o \in Outcomes(queue[i]) : Reaches(queue[i].at, o) /\ queue' = [queue EXCEPT ![i] = After(@, o)]
    /\ UNCHANGED <<node, outages, loopVars, call, orphans>>

OrphanSteps ==
    /\ \E c \in BagToSet(orphans) : \E o \in Outcomes(c) :
         LET d == After(c, o)
         IN  /\ Reaches(c.at, o)
             /\ orphans' = (orphans (-) SetToBag({c})) (+) (IF Settled(d) THEN EmptyBag ELSE SetToBag({d}))
    /\ UNCHANGED <<node, outages, loopVars, queue, call>>

\* Every other user of the connector (the tip read, the mempool pass, the
\* status route) posts through the same counter.
OtherRequest ==
    /\ \E o \in Outcomes([NoCall EXCEPT !.at = active, !.res = "sent"]) : Reaches(active, o)
    /\ UNCHANGED <<node, outages, loopVars, queue, call, orphans>>

\* Endpoints go down or come back; what they serve when up stays the same.
EndpointsChange ==
    /\ outages < MaxOutages /\ outages' = outages + 1
    /\ \E n \in Nodes : n.dead # node.dead /\ n = [node EXCEPT !.dead = n.dead] /\ node' = n
    /\ UNCHANGED <<loopVars, netVars, queue, call, orphans, faults>>

Next == \/ FetchNextBlock \/ BlockArrives \/ BlockFails \/ Relaunch \/ RollBack
        \/ CallSteps \/ OrphanSteps \/ OtherRequest \/ EndpointsChange
        \/ \E i \in DOMAIN queue : BatchSteps(i)

\* The loop runs on, and the supervisor restarts a process that exited; axios'
\* timeout and the retry timers end every wait of what it awaits.  Nothing is
\* assumed of the calls nobody awaits.
Fairness == /\ WF_vars(FetchNextBlock \/ BlockArrives \/ BlockFails \/ Relaunch)
            /\ WF_vars(CallSteps)
            /\ WF_vars(waiting = "queue" /\ BatchSteps(1))
Spec == Init /\ [][Next]_vars /\ Fairness
-----------------------------------------------------------------------------
Calls == [kind : {"none", "batch", "direct", "rebuild"}, lo : 0 .. Tip, hi : 0 .. Tip,
          leg : 0 .. 4, tries : 0 .. MaxTries, at : 0 .. Endpoints - 1,
          res : {"none", "sent", "asleep", "ok"} \cup Rejected]

\* Types; nobody awaits an orphan, so only what is in flight is kept as one.
TypeOK ==
    /\ node \in Nodes /\ next \in 1 .. Tip + 1 /\ got \in 0 .. Tip
    /\ queue \in Seq(Calls) /\ call \in Calls
    /\ IsABag(orphans) /\ \A c \in BagToSet(orphans) : c \in Calls /\ InFlight(c)
    /\ waiting \in {"no", "queue", "call"} /\ desync \in BOOLEAN
    /\ {blockFetch, parse} \subseteq [height : 0 .. Tip, count : Nat]
    /\ active \in 0 .. Endpoints - 1 /\ connectionFailures \in 0 .. FailoverThreshold - 1
    /\ faults \in 0 .. MaxFaults /\ outages \in 0 .. MaxOutages /\ rewinds \in 0 .. MaxRewinds /\ lost \in Nat

\* A block of the set lies in the prefetch window that begins at height h.
InWindow(blocks, h) == \E m \in blocks : h <= m /\ m < h + PrefetchSize

\* A reassembly is under way only when a block the strip cannot read lies in
\* the prefetch window: node outages alone, however they interleave with
\* retries, rollbacks and failovers, never start the per-transaction fan-out
\* (shouldReassembleBlock, noteAuxPowParseFailure).
ReassemblyHasCause == call.kind = "rebuild" => InWindow(node.malformed, next)

\* As the comment on shouldReassembleBlock has it: only the malformed block
\* itself is reassembled.  The batch rejects every entry, so a readable block
\* before it in the window is reassembled too.
OnlyMalformedReassembled == call.kind = "rebuild" => next \in node.malformed

\* No number of retries gets past height h: a block in its window that the
\* node does not have, or a malformed one with no txindex to rebuild it from.
Hopeless(h) == InWindow(node.missing, h) \/ (~node.txindex /\ InWindow(node.malformed, h))

\* The desync error is thrown at a height only when it is hopeless, or when
\* outages alone account for MAX_BLOCK_FETCH_RETRIES failures since the
\* cursor came there: for all but the AUXPOW_REASSEMBLE_AFTER that a malformed
\* block costs before the reassembly that gets past it.  Neither a rollback
\* nor a flapping node makes a streak of failures at different heights
\* (noteBlockFetchFailure, noteAuxPowParseFailure).
DesyncHasCause ==
    desync => \/ Hopeless(next)
              \/ lost + (IF InWindow(node.malformed, next) THEN ReassembleAfter ELSE 0) >= MaxFetchRetries

\* As the comment on noteBlockFetchFailure has it: at the bound the node
\* cannot serve that block.  An outage counts as well, and so does another
\* block of the same batch.
DesyncMeansUnservable == desync => next \in node.missing

\* The block handed to the decoder is the one the cursor asked for, whatever
\* rollbacks left in the prefetch queue (fetchNextBlock's height check).
FetchesTheNextBlock == [][next' = next + 1 => got' = next]_vars

\* When the node can serve or rebuild every block and some endpoint stays up
\* in the end, the cursor passes the tip: restarts included, if the retries
\* outlast a failover and a reassembly together (fetchNextBlock,
\* noteConnectionFailure).
CatchesUp ==
    node.txindex /\ node.missing = {} /\ <>[](node.dead # 0 .. Endpoints - 1) => <>(next > Tip)
=============================================================================
