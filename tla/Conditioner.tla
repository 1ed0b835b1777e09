---------------------------- MODULE Conditioner ----------------------------
(***************************************************************************)
(* The client's packet conditioner: a ConditionerHandle that the UI may    *)
(* use from any thread (src/src/conditioner.rs), and the PacketGate of the *)
(* client transport (src/src/packet_io/client.rs), which owns at most one  *)
(* engine for that handle.  Every engine operation holds the handle's lock *)
(* throughout, except attaching, detaching and resetting: these reset the  *)
(* handle, let its lock go, and only then touch the engine.  The gate's    *)
(* own operations do not interleave: the native client calls them through  *)
(* &mut self, the browser client from one thread.                          *)
(***************************************************************************)
EXTENDS PacketConditioner

CONSTANTS
    Configs,        \* the configurations the UI chooses from
    Durations,      \* the outages it asks for; 0 cancels
    Sizes,          \* packet sizes
    MaxTime,        \* bound on the clock
    MaxPackets,     \* bound on the packets of one session
    MaxChanges      \* bound on the changes made through the handle

ASSUME ConditionerAssumption ==
    /\ Durations \subseteq Nat /\ Sizes \subseteq Nat
    /\ MaxTime \in Nat /\ MaxPackets \in Nat
    /\ MaxChanges \in 0..(Revisions - 2)       \* no engine misses 2^64 changes
    /\ \A c \in Configs : /\ c.delays \subseteq Nat /\ c.delays # {}
                          /\ c.loss \subseteq BOOLEAN /\ c.loss # {}
                          /\ c.max_queue_packets \in Nat /\ c.max_queue_bytes \in Nat

VARIABLES
    now,        \* the gate's clock
    control,    \* Control: what the handle's lock protects
    engine,     \* the attached engine, or NoEngine
    gate,       \* what is left of the gate operation that began: see Idle
    changes,    \* history: how often the handle was changed
    account,    \* history: packets of this session, by direction
    asked,      \* history: an outage asked for and not noticed yet, 0 if none
    dark        \* history: the end of the outage that was noticed, 0 if none

vars == <<now, control, engine, gate, changes, account, asked, dark>>

NoEngine == [queues |-> EmptyQueues, revision |-> Revisions]

Idle == gate = "idle" /\ UNCHANGED now
Attached == engine # NoEngine
Pair == [control |-> control, engine |-> engine]

NoAccount == [d \in Direction |-> [offered |-> 0, bypassed |-> 0, delivered |-> 0]]

(* The packets of this session so far.                                     *)
Offered == MapThenSumSet(LAMBDA d : account[d].offered, Direction)

Init ==
    /\ now = 0 /\ changes = 0 /\ asked = 0 /\ dark = 0
    /\ \E config \in Configs : control = NewHandle(config)
    /\ engine = NoEngine
    /\ gate = "idle"
    /\ account = NoAccount

-----------------------------------------------------------------------------
(* The UI, at any time, also between the two halves of a gate operation.   *)
Changed == changes < MaxChanges /\ changes' = changes + 1

Configure(config) ==
    /\ Changed
    /\ control' = Configured(control, config)
    /\ asked' = 0 /\ dark' = 0
    /\ UNCHANGED <<now, engine, gate, account>>

Outage(duration) ==
    /\ Changed
    /\ control' = Outaged(control, duration)
    /\ asked' = duration /\ dark' = 0
    /\ UNCHANGED <<now, engine, gate, account>>

(* ConditionerHandle::reset_session, as a call of the UI or as the first   *)
(* half of a gate operation.                                               *)
ResetHandle ==
    /\ Changed
    /\ control' = SessionReset(control)
    /\ account' = NoAccount
    /\ asked' = 0 /\ dark' = 0

ResetSession == ResetHandle /\ UNCHANGED <<now, engine, gate>>

-----------------------------------------------------------------------------
(* The gate.  A poll notices the outage that was asked for.  Intermediate  *)
(* values are bound by a quantifier over a singleton, which TLC evaluates  *)
(* once.                                                                   *)
Noticed ==
    /\ asked' = 0
    /\ dark' = IF asked # 0 THEN now + asked ELSE dark

(* PacketGate::defer.  TRUE is bypass; without an engine it always is.     *)
Defer(d, bytes, lost, delay) ==
    /\ Idle /\ Attached
    /\ Offered < MaxPackets
    /\ \E x \in {Synced(Pair, now)} :
       \E verdict \in {Verdict(x, d, bytes, lost)} :
       \E y \in {Enqueued(x, d, bytes, [seq |-> account[d].offered, change |-> changes],
                         verdict, delay)} :
          /\ control' = y.control
          /\ engine' = y.engine
          /\ account' = [account EXCEPT ![d].offered = @ + 1,
                           ![d].bypassed = IF verdict = "bypass" THEN @ + 1 ELSE @]
    /\ Noticed
    /\ UNCHANGED <<gate, changes>>

(* PacketGate::drain.                                                      *)
Drain(d) ==
    /\ Idle /\ Attached
    /\ \E x \in {Synced(Pair, now)} :
       \E y \in {Drained(x, d)} :
          /\ control' = y.control
          /\ engine' = y.engine
          /\ account' = [account EXCEPT ![d].delivered = @ + Len(Ready(x, d))]
    /\ Noticed
    /\ UNCHANGED <<gate, changes>>

(* PacketGate::reset and the first half of detach: clear_session resets    *)
(* the handle and gives its lock back before it clears the queues.         *)
BeginClear(rest) ==
    /\ Idle /\ Attached
    /\ ResetHandle
    /\ gate' = rest
    /\ UNCHANGED engine

Reset == BeginClear("clearing")
Detach == BeginClear("detaching")

EndReset ==
    /\ gate = "clearing"
    /\ engine' = Cleared(engine)
    /\ gate' = "idle"
    /\ UNCHANGED <<now, control, changes, account, asked, dark>>

EndDetach ==
    /\ gate = "detaching"
    /\ engine' = NoEngine
    /\ gate' = "idle"
    /\ UNCHANGED <<now, control, changes, account, asked, dark>>

(* PacketGate::attach, once it has detached: the new engine resets the     *)
(* handle before it is installed under the gate's lock.                    *)
Attach ==
    /\ Idle /\ ~Attached
    /\ ResetHandle
    /\ gate' = "attaching"
    /\ UNCHANGED engine

EndAttach ==
    /\ gate = "attaching"
    /\ engine' = NewEngine
    /\ gate' = "idle"
    /\ UNCHANGED <<now, control, changes, account, asked, dark>>

Tick ==
    /\ now < MaxTime
    /\ now' = now + 1
    /\ UNCHANGED <<control, engine, gate, changes, account, asked, dark>>

-----------------------------------------------------------------------------
UI ==
    \/ \E config \in Configs : Configure(config)
    \/ \E duration \in Durations : Outage(duration)
    \/ ResetSession

Gate ==
    \/ \E d \in Direction, bytes \in Sizes, lost \in control.config.loss,
          delay \in control.config.delays : Defer(d, bytes, lost, delay)
    \/ \E d \in Direction : Drain(d)
    \/ Reset \/ EndReset
    \/ Detach \/ EndDetach
    \/ Attach \/ EndAttach

Next == UI \/ Gate \/ Tick

Spec == Init /\ [][Next]_vars

-----------------------------------------------------------------------------
(* Every counter is a natural number: queued_packets and queued_bytes are  *)
(* usize, and drain_ready subtracts from them without a check              *)
(* (conditioner.rs:304), so a negative one would be a panic in the client. *)
TypeOK ==
    /\ now \in 0..MaxTime
    /\ gate \in {"idle", "clearing", "detaching", "attaching"}
    /\ gate \in {"clearing", "detaching"} => Attached
    /\ control.config \in Configs
    /\ control.pending_outage \in Durations \cup {0}
    /\ \A d \in Direction : \A f \in DOMAIN NoStats : control.stats[d][f] \in Nat
    /\ \A d \in Direction : \A i \in 1..Len(engine.queues[d]) :
           engine.queues[d][i].due \in Nat /\ engine.queues[d][i].bytes \in Sizes

(* The counters a UI reads are the engine's queues, whatever the UI does   *)
(* between two polls: a change empties the counters at once and the queues *)
(* at the next poll, never one without the other.  Each queue is ordered   *)
(* by deadline, and packets with one deadline keep their order of arrival, *)
(* so jitter alone can reorder traffic (conditioner.rs:278-281).  What is  *)
(* held under the current configuration fits into its packet and byte      *)
(* limits.  And since the session began, every packet offered to the       *)
(* engine was passed on at once, delivered, is queued, or is in exactly    *)
(* one drop counter.                                                       *)
QueuesSound ==
    /\ TypeOK
    /\ CountersMatch(Pair)
    /\ WithinLimits(Pair)
    /\ \A d \in Direction :
          /\ Ordered(engine.queues[d])
          /\ account[d].offered = account[d].bypassed + account[d].delivered
                                    + Accounted(control.stats, d)

Delivered(d) == 1..(account'[d].delivered - account[d].delivered)

(* drain_ready hands out packets that are due and that were offered after  *)
(* the latest change of the handle: no configuration change, outage or new *)
(* session releases older traffic.                                         *)
DeliversCurrent ==
    [][\A d \in Direction : \A i \in Delivered(d) :
          LET packet == engine.queues[d][i]
          IN  packet.due <= now /\ packet.payload.change = changes]_vars

(* Between the poll that notices an outage and its end, no packet passes   *)
(* in either direction (comment on ConditionerHandle::outage).             *)
OutageIsSilent ==
    [][\A d \in Direction :
          \/ account'[d].delivered > account[d].delivered
          \/ account'[d].bypassed > account[d].bypassed
          => now >= dark']_vars

(* The handle reports an outage exactly from the call that asks for it to  *)
(* the first poll after its end, or to its cancellation.                   *)
OutageReported ==
    control.outage_active <=>
        asked # 0 \/ (Attached /\ dark > engine.last_now)
=============================================================================
