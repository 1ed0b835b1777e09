------------------------- MODULE PacketConditioner -------------------------
(***************************************************************************)
(* The impairment engine shared by the client and the server               *)
(* (src/src/conditioner.rs): one control block behind a lock, which a UI   *)
(* may change at any time, and one engine, which owns the queues and       *)
(* notices the changes by comparing revisions whenever it is polled.       *)
(* Operators only: Conditioner and ServerConditioner drive them.           *)
(*                                                                         *)
(* A configuration keeps what the queues depend on.  `delays' is the set   *)
(* of delays latency +- jitter can give, floored at zero, and `loss' the   *)
(* set of outcomes of the draw `random() < packet_loss', so the random     *)
(* generator is a choice of the caller.  A duration of 0 stands for None.  *)
(***************************************************************************)
EXTENDS Integers, Sequences, FiniteSetsExt, Functions

CONSTANTS
    Direction,      \* ConditionerDirection: incoming and outgoing
    Revisions       \* how many values a revision counter has; 2^64 in the code

ASSUME RevisionsAssumption == Revisions \in Nat /\ Revisions > 3

(* DirectionStats::default().                                              *)
NoStats == [queued_packets |-> 0, queued_bytes |-> 0, loss_drops |-> 0,
            outage_drops |-> 0, overflow_drops |-> 0, transition_drops |-> 0]

FreshStats == [d \in Direction |-> NoStats]

(* Mutant: discarded packets are in no counter. *)
DiscardQueuesUncounted(stats) ==
    [d \in Direction |-> [stats[d] EXCEPT !.queued_packets = 0, !.queued_bytes = 0]]

(* ConditionerStats::discard_queues: what was queued becomes transition drops. *)
DiscardQueues(stats) ==
    [d \in Direction |-> [stats[d] EXCEPT
        !.transition_drops = @ + stats[d].queued_packets,
        !.queued_packets = 0, !.queued_bytes = 0]]

(***************************************************************************)
(* The control block and the calls a ConditionerHandle makes on it.        *)
(***************************************************************************)
Successor(revision) == (revision + 1) % Revisions      \* wrapping_add(1)

NewHandle(config) ==
    [config |-> config, stats |-> FreshStats, outage_active |-> FALSE,
     revision |-> 0, pending_outage |-> 0]

(* Mutant: the engine cannot tell that the configuration has changed. *)
ConfiguredQuietly(c, config) ==
    [c EXCEPT !.stats = DiscardQueues(@), !.outage_active = FALSE,
              !.pending_outage = 0, !.config = config]

Configured(c, config) ==
    [c EXCEPT !.stats = DiscardQueues(@), !.outage_active = FALSE,
              !.pending_outage = 0, !.config = config, !.revision = Successor(@)]

Outaged(c, duration) ==
    [c EXCEPT !.stats = DiscardQueues(@), !.pending_outage = duration,
              !.outage_active = duration # 0, !.revision = Successor(@)]

(* Mutant: an outage that was asked for outlives the session. *)
SessionResetKeepsOutage(c) ==
    [c EXCEPT !.stats = FreshStats, !.outage_active = FALSE, !.revision = Successor(@)]

SessionReset(c) ==
    [c EXCEPT !.stats = FreshStats, !.outage_active = FALSE,
              !.pending_outage = 0, !.revision = Successor(@)]

(***************************************************************************)
(* The engine.  It starts with the last revision (u64::MAX), which no      *)
(* handle has in practice, so that its first poll synchronises.  `new'     *)
(* also resets the handle, which is left to the caller because it is a     *)
(* step under another lock.                                                *)
(***************************************************************************)
Unsynced == Revisions - 1

EmptyQueues == [d \in Direction |-> <<>>]

NewEngine == [queues |-> EmptyQueues, revision |-> Unsynced, last_now |-> 0,
              outage_until |-> 0]

Later(a, b) == IF a > b THEN a ELSE b

(* Mutant: packets scheduled under an older revision stay in the queues. *)
SyncedQueuesKept(x) == x.engine.queues

SyncedQueues(x) ==
    IF x.engine.revision # x.control.revision THEN EmptyQueues ELSE x.engine.queues

(* Mutant: the outage lasts until the poll that notices it. *)
SyncedOutageAtOnce(x, now) ==
    LET until == IF x.engine.revision = x.control.revision THEN x.engine.outage_until
                 ELSE IF x.control.pending_outage = 0 THEN 0
                 ELSE now
    IN  IF now >= until THEN 0 ELSE until

(* The end of the outage in force at a poll, 0 when there is none.         *)
SyncedOutage(x, now) ==
    LET until == IF x.engine.revision = x.control.revision THEN x.engine.outage_until
                 ELSE IF x.control.pending_outage = 0 THEN 0
                 ELSE now + x.control.pending_outage
    IN  IF now >= until THEN 0 ELSE until

(* PacketConditioner::sync, which every enqueue and drain starts with.  x  *)
(* pairs a control block with its engine.                                  *)
Synced(x, t) ==
    LET now == Later(t, x.engine.last_now)
        until == SyncedOutage(x, now)
    IN  [control |-> [x.control EXCEPT
                        !.pending_outage =
                            IF x.engine.revision = x.control.revision THEN @ ELSE 0,
                        !.outage_active = until # 0],
         engine  |-> [queues |-> SyncedQueues(x), revision |-> x.control.revision,
                      last_now |-> now, outage_until |-> until]]

(* The queue of direction d has no room for another packet.                *)
Full(x, d, bytes) ==
    \/ x.control.stats[d].queued_packets >= x.control.config.max_queue_packets
    \/ bytes > Later(0, x.control.config.max_queue_bytes - x.control.stats[d].queued_bytes)

(* What enqueue does with a packet, in the order of its checks.            *)
Verdict(x, d, bytes, lost) ==
    IF x.engine.outage_until # 0 THEN "outage_drops"
    ELSE IF ~x.control.config.enabled THEN "bypass"
    ELSE IF lost THEN "loss_drops"
    ELSE IF Full(x, d, bytes) THEN "overflow_drops"
    ELSE "queue"

(* Mutant: a packet overtakes those that are due at the same time. *)
InsertedFirst(queue, packet) ==
    LET at == Min({i \in 1..Len(queue) : queue[i].due >= packet.due} \cup {Len(queue) + 1})
    IN  SubSeq(queue, 1, at - 1) \o <<packet>> \o SubSeq(queue, at, Len(queue))

(* Before the first packet that is due later, else at the end.             *)
Inserted(queue, packet) ==
    LET at == Min({i \in 1..Len(queue) : queue[i].due > packet.due} \cup {Len(queue) + 1})
    IN  SubSeq(queue, 1, at - 1) \o <<packet>> \o SubSeq(queue, at, Len(queue))

(* PacketConditioner::enqueue on a synchronised pair.                      *)
Enqueued(x, d, bytes, payload, verdict, delay) ==
    CASE verdict = "bypass" -> x
      [] verdict = "queue" ->
           [control |-> [x.control EXCEPT !.stats[d].queued_packets = @ + 1,
                                          !.stats[d].queued_bytes = @ + bytes],
            engine  |-> [x.engine EXCEPT !.queues[d] = Inserted(@,
                           [due |-> x.engine.last_now + delay, bytes |-> bytes,
                            payload |-> payload])]]
      [] OTHER -> [x EXCEPT !.control.stats[d][verdict] = @ + 1]

Bytes(queue) == SumFunction([i \in DOMAIN queue |-> queue[i].bytes])

(* The packets drain_ready pops on a synchronised pair: from the front, as *)
(* long as they are due.                                                   *)
Ready(x, d) ==
    LET queue   == x.engine.queues[d]
        waiting == {i \in 1..Len(queue) : queue[i].due > x.engine.last_now}
    IN  SubSeq(queue, 1, Min(waiting \cup {Len(queue) + 1}) - 1)

Drained(x, d) ==
    LET ready == Ready(x, d)
    IN  [control |-> [x.control EXCEPT !.stats[d].queued_packets = @ - Len(ready),
                                       !.stats[d].queued_bytes = @ - Bytes(ready)],
         engine  |-> [x.engine EXCEPT !.queues[d] = SubSeq(@, Len(ready) + 1, Len(@))]]

(* clear_session, after it has reset the handle.  The engine keeps its     *)
(* revision, so that the next poll synchronises once more.                 *)
Cleared(engine) == [NewEngine EXCEPT !.revision = engine.revision]

(***************************************************************************)
(* Facts about one synchronised pair that both transports rely on.         *)
(***************************************************************************)
InStep(x) == x.engine.revision = x.control.revision

(* The counters are those of the queues; when the engine has not seen the  *)
(* latest change yet, they are those of the empty queues it will have.     *)
CountersMatch(x) ==
    \A d \in Direction :
        LET queue == IF InStep(x) THEN x.engine.queues[d] ELSE <<>>
        IN  /\ x.control.stats[d].queued_packets = Len(queue)
            /\ x.control.stats[d].queued_bytes = Bytes(queue)

(* Sorted by deadline; seq(payload) numbers packets by arrival, and equal  *)
(* deadlines keep that order.                                              *)
Ordered(queue) ==
    \A i, j \in 1..Len(queue) :
        i < j => \/ queue[i].due < queue[j].due
                 \/ /\ queue[i].due = queue[j].due
                    /\ queue[i].payload.seq < queue[j].payload.seq

WithinLimits(x) ==
    InStep(x) =>
        \A d \in Direction :
            /\ Len(x.engine.queues[d]) <= x.control.config.max_queue_packets
            /\ Bytes(x.engine.queues[d]) <= x.control.config.max_queue_bytes

(* The packets of direction d that some counter of the statistics holds.   *)
Accounted(stats, d) ==
    stats[d].queued_packets + stats[d].loss_drops + stats[d].outage_drops
      + stats[d].overflow_drops + stats[d].transition_drops
=============================================================================
