------------------------- MODULE ServerConditioner -------------------------
(***************************************************************************)
(* The conditioner that the transports of one server share                 *)
(* (src/src/server_conditioner.rs), and the ServerPacketGate through which *)
(* each of them uses it (src/src/packet_io/server.rs).  The shared State   *)
(* is behind one lock and every operation holds it throughout, so one step *)
(* is one call.  The clock is read before the lock is taken: a reading may *)
(* be older than one that another transport has used already, and poll     *)
(* keeps the later of the two.  A step therefore takes any reading from    *)
(* the latest one on.                                                      *)
(***************************************************************************)
EXTENDS PacketConditioner, FiniteSets

CONSTANTS
    Gates,          \* the transports' gates
    Peers,          \* ServerPeerId: UDP sources and signaling client ids
    Configs,        \* the server configurations the operator chooses from
    Durations,      \* the outages they ask for; 0 cancels
    Sizes,          \* packet sizes
    Second,         \* the longest time between two cleanups: one second
    MaxTime,        \* bound on the clock
    MaxPackets,     \* bound on the packets the conditioner takes
    MaxChanges,     \* bound on the operator's changes
    MaxOwners       \* bound on the owners allocated

ASSUME ServerConditionerAssumption ==
    /\ Durations \subseteq Nat /\ Sizes \subseteq Nat
    /\ MaxTime \in Nat /\ MaxPackets \in Nat /\ MaxOwners \in Nat
    /\ Second \in Nat \ {0}
    /\ MaxChanges \in 0..(Revisions - 2)
    /\ \A c \in Configs :
          /\ c.max_peers \in Nat \ {0} /\ c.idle_timeout \in Nat \ {0}
          /\ c.packets.delays \subseteq Nat /\ c.packets.delays # {}
          /\ c.packets.loss \subseteq BOOLEAN /\ c.packets.loss # {}

VARIABLES
    state,      \* State, what the lock protects
    attached,   \* the owner number of each attached gate, 0 when detached
    changes,    \* history: how often the operator changed the policy
    taken,      \* history: packets for which defer returned true
    delivered,  \* history: packets a drain returned
    out,        \* history: what the last step let out
    dark        \* history: the end of the outage asked for, 0 if none

vars == <<state, attached, changes, taken, delivered, out, dark>>

Least(a, b) == IF a <= b THEN a ELSE b

(* Packets a drain returned and the owner it returned them to, and whether *)
(* a packet passed at once.                                                *)
NothingOut == [owner |-> 0, packets |-> {}, bypassed |-> FALSE]

Init ==
    /\ \E config \in Configs :
          state = [config |-> config, peers |-> <<>>, retired |-> FreshStats,
                   peer_limit_drops |-> 0, expired_peers |-> 0, next_owner |-> 1,
                   now |-> 0, next_cleanup |-> 0, outage_until |-> 0]
    /\ attached = [g \in Gates |-> 0]
    /\ changes = 0 /\ taken = 0 /\ delivered = 0 /\ dark = 0
    /\ out = NothingOut

-----------------------------------------------------------------------------
(* add_stats.                                                              *)
AddStats(into, from) ==
    [d \in Direction |-> [f \in DOMAIN NoStats |-> into[d][f] + from[d][f]]]

(* Mutant: the counters of a retired peer are lost. *)
RetireForgets(st, ids) ==
    [st EXCEPT !.peers = Restrict(@, DOMAIN @ \ ids)]

(* State::retire, for one peer after another: the queues are discarded,    *)
(* the counters kept.                                                      *)
Retire(st, ids) ==
    [st EXCEPT !.peers = Restrict(@, DOMAIN @ \ ids),
               !.retired = FoldSet(LAMBDA id, sum :
                               AddStats(sum, DiscardQueues(st.peers[id].control.stats)),
                               @, ids)]

(* Mutant: the cleanup lets a peer pass that is idle for just the timeout. *)
PolledLate(st, t) ==
    LET now  == Later(t, st.now)
        idle == {id \in DOMAIN st.peers :
                    now - st.peers[id].last_seen > st.config.idle_timeout}
        s    == [st EXCEPT !.now = now, !.outage_until = IF now >= @ THEN 0 ELSE @]
    IN  IF now < st.next_cleanup THEN s
        ELSE [Retire(s, idle) EXCEPT
                !.expired_peers = @ + Cardinality(idle),
                !.next_cleanup = now + Least(st.config.idle_timeout, Second)]

(* State::poll, which every packet operation starts with.                  *)
Polled(st, t) ==
    LET now  == Later(t, st.now)
        idle == {id \in DOMAIN st.peers :
                    now - st.peers[id].last_seen >= st.config.idle_timeout}
        s    == [st EXCEPT !.now = now, !.outage_until = IF now >= @ THEN 0 ELSE @]
    IN  IF now < st.next_cleanup THEN s
        ELSE [Retire(s, idle) EXCEPT
                !.expired_peers = @ + Cardinality(idle),
                !.next_cleanup = now + Least(st.config.idle_timeout, Second)]

Readings == state.now..MaxTime

-----------------------------------------------------------------------------
(* ServerConditionerHandle, used by the operator.                          *)
Changed == changes < MaxChanges /\ changes' = changes + 1

(* Mutant: the policy changes, what is queued stays. *)
ReconfiguredKeeps(peer, packets) == [peer EXCEPT !.control.config = packets]

(* The policy of one peer is the server's but for its seed.                *)
Reconfigured(peer, packets) == [peer EXCEPT !.control = Configured(@, packets)]

(* Mutant: peers above the new limit stay until they are idle. *)
EvictedNone(peers, max) == {{}}

(* The sets of peers configure may evict: the least recently seen ones, in *)
(* the order of their ids where they were seen at the same time.           *)
Evicted(peers, max) ==
    {gone \in SUBSET DOMAIN peers :
        /\ Cardinality(DOMAIN peers \ gone) = Least(max, Cardinality(DOMAIN peers))
        /\ \A a \in gone, b \in DOMAIN peers \ gone :
              peers[a].last_seen <= peers[b].last_seen}

Configure(config) ==
    /\ Changed
    /\ \E gone \in Evicted(state.peers, config.max_peers) :
          state' = Retire(
              [state EXCEPT !.peers = [id \in DOMAIN @ |-> Reconfigured(@[id], config.packets)],
                            !.config = config, !.outage_until = 0, !.next_cleanup = 0],
              gone)
    /\ dark' = 0 /\ out' = NothingOut
    /\ UNCHANGED <<attached, taken, delivered>>

(* outage_at: the queues are discarded, one deadline holds for everyone.   *)
Outage(duration, t) ==
    /\ Changed
    /\ LET s == Polled(state, t)
       IN  /\ state' = [s EXCEPT
                          !.peers = [id \in DOMAIN @ |->
                                        Reconfigured(@[id], @[id].control.config)],
                          !.outage_until = IF duration = 0 THEN 0 ELSE s.now + duration]
           /\ dark' = IF duration = 0 THEN 0 ELSE s.now + duration
    /\ out' = NothingOut
    /\ UNCHANGED <<attached, taken, delivered>>

-----------------------------------------------------------------------------
(* One transport's gate.  Intermediate values are bound by a quantifier    *)
(* over a singleton, which TLC evaluates once.                             *)
Owner(g) == attached[g]
Owned(st, owner) == {id \in DOMAIN st.peers : st.peers[id].owner = owner}
Quiet == out' = NothingOut /\ UNCHANGED <<changes, taken, delivered, dark>>

(* ServerPacketGate::attach, once it has detached.                         *)
Attach(g) ==
    /\ Owner(g) = 0 /\ state.next_owner <= MaxOwners
    /\ attached' = [attached EXCEPT ![g] = state.next_owner]
    /\ state' = [state EXCEPT !.next_owner = @ + 1]
    /\ Quiet

(* Mutant: a gate that goes away leaves its peers behind. *)
DetachLeavesPeers(g) ==
    /\ Owner(g) # 0
    /\ attached' = [attached EXCEPT ![g] = 0]
    /\ UNCHANGED state
    /\ Quiet

Detach(g) ==
    /\ Owner(g) # 0
    /\ state' = Retire(state, Owned(state, Owner(g)))
    /\ attached' = [attached EXCEPT ![g] = 0]
    /\ Quiet

(* ServerPacketGate::reset: a transport disconnects everyone.              *)
Reset(g) ==
    /\ Owner(g) # 0
    /\ state' = Retire(state, Owned(state, Owner(g)))
    /\ UNCHANGED attached
    /\ Quiet

(* remove_peer: a transport drops a client.                                *)
RemovePeer(g, id) ==
    /\ Owner(g) # 0
    /\ id \in Owned(state, Owner(g))
    /\ state' = Retire(state, {id})
    /\ UNCHANGED attached
    /\ Quiet

(* The entry of a peer that is seen for the first time.                    *)
NewPeer(st, owner) ==
    [owner |-> owner, last_seen |-> st.now,
     control |-> SessionReset(NewHandle(st.config.packets)), engine |-> NewEngine]

(* Mutant: peers that arrive during the outage are not part of it. *)
UnderOutageFirst(st, peer) ==
    IF st.outage_until # 0 /\ peer.engine.revision # Unsynced
    THEN [control |-> Outaged(peer.control, st.outage_until - st.now), engine |-> peer.engine]
    ELSE [control |-> peer.control, engine |-> peer.engine]

(* A peer's handle is told what remains of the outage, then it is polled.  *)
UnderOutage(st, peer) ==
    IF st.outage_until # 0
    THEN [control |-> Outaged(peer.control, st.outage_until - st.now), engine |-> peer.engine]
    ELSE [control |-> peer.control, engine |-> peer.engine]

(* Mutant: a peer entry serves whichever transport comes. *)
RefusedForeignToo(st, owner, id) ==
    id \notin DOMAIN st.peers /\ Cardinality(DOMAIN st.peers) >= st.config.max_peers

(* No entry for this peer and transport: the table is full, or the entry   *)
(* belongs to the other transport.                                         *)
Refused(st, owner, id) ==
    IF id \in DOMAIN st.peers THEN st.peers[id].owner # owner
    ELSE Cardinality(DOMAIN st.peers) >= st.config.max_peers

(* defer_at.                                                               *)
Defer(g, d, id, bytes, t, lost, delay) ==
    /\ Owner(g) # 0 /\ taken < MaxPackets
    /\ \E s    \in {Polled(state, t)} :
       \E peer \in {IF id \in DOMAIN s.peers THEN s.peers[id] ELSE NewPeer(s, Owner(g))} :
       \E x    \in {Synced(UnderOutage(s, peer), s.now)} :
       \E verdict \in {Verdict(x, d, bytes, lost)} :
       \E y    \in {Enqueued(x, d, bytes,
                            [seq |-> taken, owner |-> Owner(g), change |-> changes],
                            verdict, delay)} :
       \E pass \in {~s.config.packets.enabled /\ s.outage_until = 0} :
        /\ state' =
              IF pass THEN s
              ELSE IF Refused(s, Owner(g), id) THEN [s EXCEPT !.peer_limit_drops = @ + 1]
              ELSE [s EXCEPT !.peers = [i \in DOMAIN @ \cup {id} |->
                        IF i = id THEN [owner |-> peer.owner, last_seen |-> s.now,
                                        control |-> y.control, engine |-> y.engine]
                        ELSE @[i]]]
        /\ out' = [NothingOut EXCEPT !.bypassed =
                      pass \/ (~Refused(s, Owner(g), id) /\ verdict = "bypass")]
        /\ taken' = IF out'.bypassed THEN taken ELSE taken + 1
        /\ UNCHANGED <<attached, changes, delivered, dark>>

(* The engines a drain polls.                                              *)
Polling(st, owner) ==
    [id \in Owned(st, owner) |-> Synced(UnderOutage(st, st.peers[id]), st.now)]

(* drain_at.                                                               *)
Drain(g, d, t) ==
    /\ Owner(g) # 0
    /\ \E s  \in {Polled(state, t)} :
       \E xs \in {Polling(s, Owner(g))} :
       \E ys \in {[id \in DOMAIN xs |-> Drained(xs[id], d)]} :
        /\ state' = [s EXCEPT !.peers = [id \in DOMAIN @ |->
                        IF id \in DOMAIN ys
                        THEN [@[id] EXCEPT !.control = ys[id].control,
                                           !.engine = ys[id].engine]
                        ELSE @[id]]]
        /\ out' = [NothingOut EXCEPT !.owner = Owner(g),
                      !.packets = UNION {Range(Ready(xs[id], d)) : id \in DOMAIN xs}]
        /\ delivered' = delivered + Cardinality(out'.packets)
        /\ UNCHANGED <<attached, changes, taken, dark>>

-----------------------------------------------------------------------------
Operator ==
    \/ \E config \in Configs : Configure(config)
    \/ \E duration \in Durations, t \in Readings : Outage(duration, t)

Transport(g) ==
    \/ Attach(g)
    \/ Detach(g)
    \/ Reset(g)
    \/ \E id \in Peers : RemovePeer(g, id)
    \/ \E d \in Direction, id \in Peers, bytes \in Sizes, t \in Readings,
          lost \in state.config.packets.loss, delay \in state.config.packets.delays :
          Defer(g, d, id, bytes, t, lost, delay)
    \/ \E d \in Direction, t \in Readings : Drain(g, d, t)

Next == Operator \/ \E g \in Gates : Transport(g)

Spec == Init /\ [][Next]_vars

-----------------------------------------------------------------------------
(* Every counter is a natural number: drain_ready subtracts from the queue *)
(* counters without a check (conditioner.rs:304).                          *)
TypeOK ==
    /\ state.config \in Configs
    /\ DOMAIN state.peers \subseteq Peers
    /\ state.now \in 0..MaxTime /\ state.outage_until \in Nat
    /\ attached \in [Gates -> 0..MaxOwners]
    /\ \A d \in Direction : \A f \in DOMAIN NoStats :
          /\ state.retired[d][f] \in Nat
          /\ \A id \in DOMAIN state.peers : state.peers[id].control.stats[d][f] \in Nat

(* Every peer entry belongs to a gate that is attached now: a transport    *)
(* that was detached, replaced or dropped leaves no entry that would keep  *)
(* the other transport from serving the same peer.  And the table never    *)
(* holds more peers than the configuration of the moment allows, also      *)
(* right after configure has lowered the limit.                            *)
PeersOwned ==
    /\ \A id \in DOMAIN state.peers : \E g \in Gates : state.peers[id].owner = Owner(g)
    /\ Cardinality(DOMAIN state.peers) <= state.config.max_peers

(* A drain returns packets that this very attachment of this transport     *)
(* deferred, under the policy of the moment, once they are due.            *)
DrainsOwnPackets ==
    \A packet \in out.packets :
        /\ packet.payload.owner = out.owner
        /\ packet.payload.change = changes
        /\ packet.due <= state.now

(* "Drop both directions for every peer, including peers arriving during   *)
(* the outage" (server_conditioner.rs:165): until its end no packet of any *)
(* transport passes, delayed or not.                                       *)
OutageIsGlobal == out.packets # {} \/ out.bypassed => state.now >= dark

(* stats(): what retired and what is live.                                 *)
Totals ==
    FoldSet(LAMBDA id, sum : AddStats(sum, state.peers[id].control.stats),
            state.retired, DOMAIN state.peers)

(* The counters of each peer, on which the egress allowance rests          *)
(* (queued_outgoing), are those of its queues, and these keep the limits   *)
(* and the order of deadlines.  While impairment is off they are empty, so *)
(* that no packet comes after the traffic that then passes directly.       *)
(* Every packet for which defer returned true was delivered, is queued, or *)
(* is in exactly one counter of the statistics, across reconfigurations,   *)
(* evictions, expiry and the removal of peers: "Counters are retained".    *)
PeerQueuesSound ==
    /\ TypeOK
    /\ \A id \in DOMAIN state.peers :
          LET x == [control |-> state.peers[id].control, engine |-> state.peers[id].engine]
          IN  /\ CountersMatch(x)
              /\ WithinLimits(x)
              /\ \A d \in Direction :
                    /\ Ordered(x.engine.queues[d])
                    /\ state.config.packets.enabled \/ x.control.stats[d].queued_packets = 0
    /\ taken = delivered + state.peer_limit_drops
                 + MapThenSumSet(LAMBDA d : Accounted(Totals, d), Direction)

(* After every poll the next cleanup lies ahead, at most an interval after *)
(* the last one, which left no peer that was idle.  So a peer is forgotten *)
(* at the latest when a poll finds it silent for idle_timeout and one      *)
(* cleanup interval more.  Right after configure (next_cleanup = 0) the    *)
(* next poll cleans up.                                                    *)
IdleReclaimed ==
    state.next_cleanup # 0 =>
        /\ state.now < state.next_cleanup
        /\ \A id \in DOMAIN state.peers :
              state.next_cleanup - state.peers[id].last_seen
                < state.config.idle_timeout + Least(state.config.idle_timeout, Second)
=============================================================================
