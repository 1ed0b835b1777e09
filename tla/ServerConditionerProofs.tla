----------------------- MODULE ServerConditionerProofs -----------------------
(***************************************************************************)
(* Proofs about the server's conditioner (ServerConditioner), for any      *)
(* number of transports and peers and for all configurations, delays,      *)
(* limits and bounds.                                                      *)
(***************************************************************************)
EXTENDS ServerConditioner, PacketConditionerProofs

-----------------------------------------------------------------------------
(* A packet a transport deferred under a policy, the policies              *)
(* being numbered by the changes that led to them.                         *)
Packet(owner, change) ==
    [due : Nat, bytes : Sizes,
     payload : [seq : Nat, owner : {owner}, change : {change}]]

(* The ones among them that are due.                                       *)
Due(owner, change, now) == {p \in Packet(owner, change) : p.due <= now}

(* The engine of a peer misses the latest k changes, and what it holds was *)
(* deferred before them.  An engine never misses so many that the revision *)
(* comes round to its own.                                                 *)
PairOK(x, owner, now, n) ==
    /\ IsPair(x)
    /\ x.engine.last_now \in 0..now
    /\ x.engine.revision \in 0..(Revisions - 1)
    /\ \E k \in 0..n : /\ x.control.revision = After(x.engine.revision, k)
                       /\ x.engine.queues \in [Direction -> Seq(Packet(owner, n - k))]

Paired(peer) == [control |-> peer.control, engine |-> peer.engine]

PeerOK(peer, now, owners, n) ==
    /\ peer \in [owner : {peer.owner}, last_seen : Nat,
                 control : {peer.control}, engine : {peer.engine}]
    /\ peer.owner # 0 /\ \E g \in Gates : peer.owner = owners[g]
    /\ PairOK(Paired(peer), peer.owner, now, n)

IsState(st) ==
    st \in [config : Configs, peers : {st.peers}, retired : {st.retired},
            peer_limit_drops : {st.peer_limit_drops}, expired_peers : {st.expired_peers},
            next_owner : Nat \ {0}, now : Nat, next_cleanup : Nat, outage_until : Nat]

(* The peer table and its limit.                                           *)
TableOK(st) ==
    /\ st.peers = [id \in DOMAIN st.peers |-> st.peers[id]]
    /\ IsFiniteSet(DOMAIN st.peers)
    /\ Cardinality(DOMAIN st.peers) <= st.config.max_peers

(* The deadline everyone shares is that of the outage asked for last, and  *)
(* it is only forgotten once it has passed.                                *)
OutageOK(st, end) ==
    /\ end \in Nat
    /\ IF st.outage_until = 0 THEN st.now >= end ELSE st.outage_until = end

(* IdleReclaimed, with the distance of the next cleanup: a peer that is    *)
(* seen now has time until then.                                           *)
CleanupOK(st) ==
    st.next_cleanup # 0 =>
        /\ st.now < st.next_cleanup
        /\ st.next_cleanup - st.now <= Least(st.config.idle_timeout, Second)
        /\ \A id \in DOMAIN st.peers :
              st.next_cleanup - st.peers[id].last_seen
                < st.config.idle_timeout + Least(st.config.idle_timeout, Second)

StateOK(st, owners, n, end) ==
    /\ IsState(st)
    /\ TableOK(st)
    /\ OutageOK(st, end)
    /\ CleanupOK(st)
    /\ \A id \in DOMAIN st.peers : PeerOK(st.peers[id], st.now, owners, n)

(* The inductive invariant of the server's conditioner.                    *)
ServerInv ==
    /\ attached \in [Gates -> Nat]
    /\ changes \in 0..MaxChanges /\ taken \in Nat
    /\ StateOK(state, attached, changes, dark)
    /\ DrainsOwnPackets
    /\ OutageIsGlobal

-----------------------------------------------------------------------------
(* A change of the handle: the engine misses one more.                     *)
LEMMA ChangedPair ==
  ASSUME NEW x, NEW owner, NEW now \in Nat, NEW n \in Nat, n < MaxChanges,
         PairOK(x, owner, now, n),
         NEW c, IsControl(c), c.revision = Successor(x.control.revision)
  PROVE  PairOK([control |-> c, engine |-> x.engine], owner, now, n + 1)
<1> DEFINE y == [control |-> c, engine |-> x.engine]
<1>1. PICK k \in 0..n : /\ x.control.revision = After(x.engine.revision, k)
                        /\ x.engine.queues \in [Direction -> Seq(Packet(owner, n - k))]
  BY DEF PairOK
<1>2. y.control = c /\ y.engine = x.engine /\ IsPair(y)
  BY DEF IsPair, PairOK
<1>3. c.revision = After(x.engine.revision, k + 1)
  <2>1. k \in 0..(Revisions - 1)
    BY ServerConditionerAssumption, RevisionsAssumption
  <2>2. x.engine.revision \in 0..(Revisions - 1)
    BY DEF PairOK
  <2>3. Successor(After(x.engine.revision, k)) = After(x.engine.revision, k + 1)
    BY <2>1, <2>2, NeverRound
  <2> QED
    BY <1>1, <2>3
<1>4. k + 1 \in 0..(n + 1) /\ (n + 1) - (k + 1) = n - k
  OBVIOUS
<1> HIDE DEF y
<1>5. \E j \in 0..(n + 1) :
         /\ y.control.revision = After(y.engine.revision, j)
         /\ y.engine.queues \in [Direction -> Seq(Packet(owner, (n + 1) - j))]
  BY <1>1, <1>2, <1>3, <1>4
<1>6. PairOK(y, owner, now, n + 1)
  BY <1>2, <1>5 DEF PairOK
<1> QED
  BY <1>6 DEF y

(* The clock goes on.                                                      *)
LEMMA LaterPair ==
  ASSUME NEW x, NEW owner, NEW now \in Nat, NEW later \in Nat, now <= later, NEW n,
         PairOK(x, owner, now, n)
  PROVE  PairOK(x, owner, later, n)
  BY DEF PairOK

(* A pair that is about to be polled: what is queued under the revision of *)
(* the handle was deferred under the current policy, and an outage has     *)
(* made the revision another one.                                          *)
Pollable(x, owner, now, n, until) ==
    /\ IsPair(x)
    /\ x.engine.last_now \in 0..now
    /\ x.control.revision \in 0..(Revisions - 1)
    /\ InStep(x) => x.engine.queues \in [Direction -> Seq(Packet(owner, n))]
    /\ until # 0 => ~InStep(x) /\ x.control.pending_outage = until - now

(* A pair that has been polled.                                            *)
Settled(x, owner, now, n, until) ==
    /\ IsPair(x)
    /\ x.engine.last_now = now
    /\ x.control.revision \in 0..(Revisions - 1) /\ InStep(x)
    /\ x.engine.queues \in [Direction -> Seq(Packet(owner, n))]
    /\ until # 0 => x.engine.outage_until # 0 /\ x.engine.queues = EmptyQueues

(* Empty queues hold packets of any kind.                                  *)
LEMMA EmptyTyped == ASSUME NEW S PROVE EmptyQueues \in [Direction -> Seq(S)]
  BY DEF EmptyQueues

(* The engine of a peer in the table can be polled.                        *)
LEMMA KnownPollable ==
  ASSUME NEW st, st.now \in Nat, NEW peer, NEW n \in 0..MaxChanges,
         PairOK(Paired(peer), peer.owner, st.now, n)
  PROVE  Pollable(UnderOutage(st, peer), peer.owner, st.now, n, st.outage_until)
<1> DEFINE x == Paired(peer)
           y == UnderOutage(st, peer)
<1>1. x.control = peer.control /\ x.engine = peer.engine
  BY DEF Paired
<1>2. PICK k \in 0..n :
         /\ peer.control.revision = After(peer.engine.revision, k)
         /\ peer.engine.queues \in [Direction -> Seq(Packet(peer.owner, n - k))]
  BY <1>1 DEF PairOK
<1>3. /\ IsControl(peer.control) /\ IsEngine(peer.engine)
      /\ peer.engine.last_now \in 0..st.now
      /\ peer.engine.revision \in 0..(Revisions - 1)
  BY <1>1 DEF PairOK, IsPair
<1>4. k \in 0..(Revisions - 1) /\ k # Revisions - 1
  BY ServerConditionerAssumption, RevisionsAssumption
<1>5. CASE st.outage_until = 0
  <2>1. y = x
    BY <1>5 DEF UnderOutage, Paired
  <2>2. peer.engine.revision = peer.control.revision => k = 0
    BY <1>2, <1>3, <1>4, NeverRound
  <2>3. x.control.revision \in 0..(Revisions - 1)
    <3>1. After(peer.engine.revision, k) \in 0..(Revisions - 1)
      BY <1>3, <1>4, NeverRound, Zenon
    <3> QED
      BY <1>1, <1>2, <3>1, Zenon
  <2>4. InStep(x) => x.engine.queues \in [Direction -> Seq(Packet(peer.owner, n))]
    BY <1>1, <1>2, <2>2 DEF InStep
  <2> HIDE DEF x, y
  <2> QED
    BY <1>1, <1>3, <1>5, <2>1, <2>3, <2>4 DEF Pollable, PairOK, x, y
<1>6. CASE st.outage_until # 0
  <2> DEFINE c == Outaged(peer.control, st.outage_until - st.now)
  <2>1. y = [control |-> c, engine |-> peer.engine]
    BY <1>6 DEF UnderOutage
  <2>2. /\ IsControl(c) /\ c.pending_outage = st.outage_until - st.now
        /\ c.revision = Successor(peer.control.revision)
    BY <1>3, OutagedOps
  <2> HIDE DEF c, y
  <2>3. c.revision \in 0..(Revisions - 1) /\ c.revision # peer.engine.revision
    <3>1. /\ After(peer.engine.revision, k) \in 0..(Revisions - 1)
          /\ Successor(After(peer.engine.revision, k)) # peer.engine.revision
      BY <1>3, <1>4, NeverRound
    <3>2. Successor(After(peer.engine.revision, k)) \in 0..(Revisions - 1)
      BY <3>1, SuccessorIs
    <3> QED
      BY <1>2, <2>2, <3>1, <3>2
  <2>4. y.control = c /\ y.engine = peer.engine /\ IsPair(y)
    BY <1>3, <2>1, <2>2 DEF IsPair
  <2> QED
    BY <1>3, <1>6, <2>2, <2>3, <2>4 DEF Pollable, InStep, y
<1> QED
  BY <1>5, <1>6

(* A new engine does not know any revision its handle may have.            *)
LEMMA NewPollable ==
  ASSUME NEW st, st.now \in Nat, NEW owner, NEW n
  PROVE  Pollable(UnderOutage(st, NewPeer(st, owner)), owner, st.now, n, st.outage_until)
<1> DEFINE c == SessionReset(NewHandle(st.config.packets))
           peer == NewPeer(st, owner)
           y == UnderOutage(st, peer)
<1>1. peer.control = c /\ peer.engine = NewEngine
  BY DEF NewPeer
<1>2. IsControl(c) /\ c.revision = 1
  <2>1. Successor(0) = 1
    BY SuccessorIs, RevisionsAssumption
  <2> DEFINE h == NewHandle(st.config.packets)
  <2>2. IsControl(h) /\ h.revision = 0
    BY NewHandleOps, Zenon
  <2> HIDE DEF h
  <2>3. IsControl(SessionReset(h)) /\ SessionReset(h).revision = Successor(h.revision)
    BY <2>2, SessionResetOps, Zenon
  <2> QED
    BY <2>1, <2>2, <2>3 DEF h
<1> HIDE DEF c, peer
<1>3. CASE st.outage_until = 0
  <2>1. y = [control |-> c, engine |-> NewEngine]
    BY <1>1, <1>3 DEF UnderOutage
  <2> QED
    BY <1>2, <1>3, <2>1, NewEngineOps, RevisionsAssumption DEF Pollable, InStep, IsPair, peer
<1>4. CASE st.outage_until # 0
  <2> DEFINE o == Outaged(c, st.outage_until - st.now)
  <2>1. y = [control |-> o, engine |-> NewEngine]
    BY <1>1, <1>4 DEF UnderOutage
  <2>2. IsControl(o) /\ o.pending_outage = st.outage_until - st.now /\ o.revision = 2
    BY <1>2, OutagedOps, SuccessorIs, RevisionsAssumption
  <2> HIDE DEF o
  <2> QED
    BY <2>1, <2>2, <1>4, NewEngineOps, RevisionsAssumption DEF Pollable, InStep, IsPair, peer
<1> QED
  BY <1>3, <1>4

(* A poll under an outage leaves nothing queued and the engine dark.       *)
LEMMA SyncedPair ==
  ASSUME NEW x, NEW owner, NEW now \in Nat, NEW n, NEW until \in Nat,
         until = 0 \/ now < until, Pollable(x, owner, now, n, until)
  PROVE  Settled(Synced(x, now), owner, now, n, until)
<1> DEFINE y == Synced(x, now)
<1>1. Later(now, x.engine.last_now) = now
  BY DEF Pollable, Later
<1>2. /\ IsPair(y) /\ y.control.revision = x.control.revision
      /\ y.engine.revision = x.control.revision /\ y.engine.last_now = now
      /\ y.engine.queues = SyncedQueues(x)
      /\ y.engine.outage_until = SyncedOutage(x, now)
  BY <1>1, SyncedOps DEF Pollable
<1>3. SyncedQueues(x) \in [Direction -> Seq(Packet(owner, n))]
  BY EmptyTyped DEF SyncedQueues, Pollable, InStep
<1>4. until # 0 => SyncedOutage(x, now) # 0 /\ SyncedQueues(x) = EmptyQueues
  BY DEF SyncedOutage, SyncedQueues, Pollable, InStep
<1> HIDE DEF y
<1>5. Settled(y, owner, now, n, until)
  BY <1>2, <1>3, <1>4 DEF Settled, InStep, Pollable
<1> QED
  BY <1>5 DEF y

(* The pair of a peer after enqueue, and during an outage nothing passes.  *)
LEMMA EnqueuedPair ==
  ASSUME NEW x, NEW owner, NEW now \in Nat, NEW n \in Nat, NEW until,
         Settled(x, owner, now, n, until), NEW d \in Direction, NEW bytes \in Sizes,
         NEW payload \in [seq : Nat, owner : {owner}, change : {n}],
         NEW verdict, NEW delay \in Nat
  PROVE  PairOK(Enqueued(x, d, bytes, payload, verdict, delay), owner, now, n)
<1> DEFINE S == Packet(owner, n)
           y == Enqueued(x, d, bytes, payload, verdict, delay)
<1>1. [due |-> x.engine.last_now + delay, bytes |-> bytes, payload |-> payload] \in S
  BY DEF Packet, Settled
<1>2. \A e \in S : e.due \in Nat
  BY DEF Packet
<1>3. IsPair(x) /\ x.engine.queues \in [Direction -> Seq(S)]
  BY DEF Settled
<1> HIDE DEF S
<1>4. y.engine.queues \in [Direction -> Seq(S)]
  BY <1>1, <1>2, <1>3, EnqueuedTyped, Zenon
<1>5. /\ IsPair(y) /\ y.control.revision = x.control.revision
      /\ y.engine.revision = x.engine.revision /\ y.engine.last_now = x.engine.last_now
  <2>1. Untouched(x, y)
    BY <1>3, EnqueuedOps
  <2> QED
    BY <2>1, Zenon DEF Untouched
<1> HIDE DEF y
<1>6. y.control.revision = After(y.engine.revision, 0)
  BY <1>5, RevisionsAssumption DEF Settled, InStep, After
<1>7. \E k \in 0..n : /\ y.control.revision = After(y.engine.revision, k)
                      /\ y.engine.queues \in [Direction -> Seq(Packet(owner, n - k))]
  BY <1>4, <1>6 DEF S
<1>8. PairOK(y, owner, now, n)
  BY <1>5, <1>7 DEF PairOK, Settled, InStep
<1> QED
  BY <1>8 DEF y

(* An engine that enforces an outage lets no packet bypass its queue.      *)
LEMMA NothingPasses ==
  ASSUME NEW x, NEW owner, NEW now, NEW n, NEW until, until # 0,
         Settled(x, owner, now, n, until), NEW d, NEW bytes, NEW lost
  PROVE  Verdict(x, d, bytes, lost) # "bypass"
  BY DEF Settled, Verdict

(* The pair of a peer after drain_ready, and what this returns.            *)
LEMMA DrainedPair ==
  ASSUME NEW x, NEW owner, NEW now \in Nat, NEW n \in Nat, NEW until,
         Settled(x, owner, now, n, until), NEW d \in Direction
  PROVE  /\ PairOK(Drained(x, d), owner, now, n)
         /\ Range(Ready(x, d)) \subseteq Due(owner, n, now)
         /\ until # 0 => Range(Ready(x, d)) = {}
<1> DEFINE S == Packet(owner, n)
           y == Drained(x, d)
<1>1. \A e \in S : e.due \in Nat
  BY DEF Packet
<1>2. /\ IsPair(x) /\ x.engine.queues \in [Direction -> Seq(S)]
      /\ x.engine.last_now = now
  BY DEF Settled
<1> HIDE DEF S
<1>3. /\ y.engine.queues \in [Direction -> Seq(S)]
      /\ Range(Ready(x, d)) \subseteq {p \in S : p.due <= now}
  BY <1>1, <1>2, DrainedTyped
<1>4. /\ IsPair(y) /\ y.control.revision = x.control.revision
      /\ y.engine.revision = x.engine.revision /\ y.engine.last_now = x.engine.last_now
  <2>1. Untouched(x, y)
    BY <1>2, DrainedOps, Zenon
  <2> QED
    BY <2>1, Zenon DEF Untouched
<1> HIDE DEF y
<1>5. y.control.revision = After(y.engine.revision, 0)
  BY <1>4, RevisionsAssumption DEF Settled, InStep, After
<1>6. \E k \in 0..n : /\ y.control.revision = After(y.engine.revision, k)
                      /\ y.engine.queues \in [Direction -> Seq(Packet(owner, n - k))]
  BY <1>3, <1>5 DEF S
<1>7. PairOK(y, owner, now, n)
  BY <1>4, <1>6 DEF PairOK, Settled, InStep
<1>8. ASSUME until # 0 PROVE Range(Ready(x, d)) = {}
  <2>1. x.engine.queues[d] = <<>>
    BY <1>8 DEF Settled, EmptyQueues
  <2>2. PICK m \in 0..0 : Ready(x, d) = SubSeq(<<>>, 1, m)
    BY <1>1, <1>2, <2>1, ReadyIsDue, Zenon
  <2>3. Ready(x, d) = <<>>
    BY <2>2
  <2> QED
    BY <2>3 DEF Range
<1> QED
  BY <1>3, <1>7, <1>8 DEF y, S, Due

-----------------------------------------------------------------------------
(* retire removes peers and changes nothing else that matters here.        *)
LEMMA RetireOps ==
  ASSUME NEW st, IsState(st), NEW ids
  PROVE  LET s == Retire(st, ids)
         IN  /\ IsState(s) /\ s.config = st.config /\ s.now = st.now
             /\ s.next_owner = st.next_owner /\ s.next_cleanup = st.next_cleanup
             /\ s.outage_until = st.outage_until
             /\ s.peers = [id \in DOMAIN st.peers \ ids |-> st.peers[id]]
<1> DEFINE s == Retire(st, ids)
           left == [id \in DOMAIN st.peers \ ids |-> st.peers[id]]
<1>1. PICK retired : s = [st EXCEPT !.peers = left, !.retired = retired]
  BY Zenon DEF Retire, Restrict
<1> HIDE DEF s, left
<1>2. /\ s.config = st.config /\ s.now = st.now
      /\ s.next_owner = st.next_owner /\ s.next_cleanup = st.next_cleanup
      /\ s.outage_until = st.outage_until /\ s.peers = left
  BY <1>1 DEF IsState
<1>3. IsState(s)
  BY <1>1, Zenon DEF IsState
<1> QED
  BY <1>2, <1>3 DEF s, left

(* Fewer peers are no more than were allowed.                              *)
LEMMA RetireKeeps ==
  ASSUME NEW st, NEW owners, NEW n, NEW end, StateOK(st, owners, n, end), NEW ids
  PROVE  StateOK(Retire(st, ids), owners, n, end)
<1> DEFINE s == Retire(st, ids)
<1>1. /\ IsState(s) /\ s.config = st.config /\ s.now = st.now
      /\ s.next_owner = st.next_owner /\ s.next_cleanup = st.next_cleanup
      /\ s.outage_until = st.outage_until
      /\ s.peers = [id \in DOMAIN st.peers \ ids |-> st.peers[id]]
  BY RetireOps DEF StateOK
<1> HIDE DEF s
<1>2. /\ DOMAIN s.peers \subseteq DOMAIN st.peers
      /\ \A id \in DOMAIN s.peers : s.peers[id] = st.peers[id]
      /\ s.peers = [id \in DOMAIN s.peers |-> s.peers[id]]
  BY <1>1
<1>3. /\ IsFiniteSet(DOMAIN s.peers)
      /\ Cardinality(DOMAIN s.peers) <= Cardinality(DOMAIN st.peers)
  BY <1>2, FS_Subset DEF StateOK, TableOK
<1>4. /\ Cardinality(DOMAIN s.peers) \in Nat /\ Cardinality(DOMAIN st.peers) \in Nat
      /\ st.config.max_peers \in Nat
  BY <1>3, FS_CardinalityType, ServerConditionerAssumption DEF StateOK, TableOK, IsState
<1>5. TableOK(s)
  BY <1>1, <1>2, <1>3, <1>4 DEF StateOK, TableOK
<1>6. OutageOK(s, end)
  BY <1>1 DEF StateOK, OutageOK
<1>7. CleanupOK(s)
  BY <1>1, <1>2 DEF StateOK, CleanupOK
<1>8. \A id \in DOMAIN s.peers : PeerOK(s.peers[id], s.now, owners, n)
  BY <1>1, <1>2 DEF StateOK
<1>9. StateOK(s, owners, n, end)
  BY <1>1, <1>5, <1>6, <1>7, <1>8 DEF StateOK
<1> QED
  BY <1>9 DEF s

(* poll: the clock does not go back, an outage ends when its deadline has  *)
(* come, and a cleanup that is due leaves no peer that is idle.            *)
LEMMA PolledOps ==
  ASSUME NEW st, IsState(st), NEW t \in Nat
  PROVE  LET s == Polled(st, t)
             now == Later(t, st.now)
             idle == {id \in DOMAIN st.peers :
                         now - st.peers[id].last_seen >= st.config.idle_timeout}
         IN  /\ IsState(s) /\ s.config = st.config /\ s.now = now
             /\ s.next_owner = st.next_owner
             /\ s.outage_until = IF now >= st.outage_until THEN 0 ELSE st.outage_until
             /\ \/ /\ now < st.next_cleanup
                   /\ s.next_cleanup = st.next_cleanup /\ s.peers = st.peers
                \/ /\ now >= st.next_cleanup
                   /\ s.next_cleanup = now + Least(st.config.idle_timeout, Second)
                   /\ s.peers = [id \in DOMAIN st.peers \ idle |-> st.peers[id]]
<1> DEFINE s == Polled(st, t)
           now == Later(t, st.now)
           until == IF now >= st.outage_until THEN 0 ELSE st.outage_until
           idle == {id \in DOMAIN st.peers :
                       now - st.peers[id].last_seen >= st.config.idle_timeout}
           r == [st EXCEPT !.now = now, !.outage_until = until]
           left == [id \in DOMAIN st.peers \ idle |-> st.peers[id]]
           due == now + Least(st.config.idle_timeout, Second)
<1>1. /\ now \in Nat /\ until \in Nat /\ due \in Nat /\ st.next_cleanup \in Nat
      /\ st.config \in Configs
  BY ServerConditionerAssumption DEF IsState, Later, Least
<1>2. \/ now < st.next_cleanup /\ s = r
      \/ /\ now >= st.next_cleanup
         /\ \E c : s = [Retire(r, idle) EXCEPT !.expired_peers = c, !.next_cleanup = due]
  <2>1. CASE now < st.next_cleanup
    BY <2>1, Zenon DEF Polled
  <2>2. CASE ~ (now < st.next_cleanup)
    <3>1. s = [Retire(r, idle) EXCEPT
                 !.expired_peers = Retire(r, idle).expired_peers + Cardinality(idle),
                 !.next_cleanup = due]
      BY <2>2 DEF Polled
    <3>2. now >= st.next_cleanup
      BY <1>1, <2>2
    <3> QED
      BY <3>1, <3>2, Zenon
  <2> QED
    BY <2>1, <2>2, Zenon
<1> HIDE DEF s, until, now, idle, due
<1>3. /\ r.now = now /\ r.outage_until = until /\ r.peers = st.peers
      /\ r.config = st.config /\ r.next_owner = st.next_owner
      /\ r.next_cleanup = st.next_cleanup
  BY DEF IsState
<1>4. IsState(r)
  BY <1>1, Zenon DEF IsState
<1> HIDE DEF r
<1>5. CASE now < st.next_cleanup /\ s = r
  BY <1>3, <1>4, <1>5 DEF s, now, until
<1>6. ASSUME NEW c, now >= st.next_cleanup,
             s = [Retire(r, idle) EXCEPT !.expired_peers = c, !.next_cleanup = due]
      PROVE  /\ IsState(s) /\ s.config = st.config /\ s.now = now
             /\ s.next_owner = st.next_owner /\ s.outage_until = until
             /\ s.next_cleanup = due /\ s.peers = left
  <2> DEFINE q == Retire(r, idle)
  <2>1. /\ IsState(q) /\ q.config = st.config /\ q.now = now
        /\ q.next_owner = st.next_owner /\ q.outage_until = until /\ q.peers = left
    BY <1>3, <1>4, RetireOps
  <2>2. s = [q EXCEPT !.expired_peers = c, !.next_cleanup = due]
    BY <1>6
  <2> HIDE DEF q, left
  <2>3. /\ s.config = q.config /\ s.now = q.now /\ s.next_owner = q.next_owner
        /\ s.outage_until = q.outage_until /\ s.peers = q.peers /\ s.next_cleanup = due
    BY <2>1, <2>2 DEF IsState
  <2>4. IsState(s)
    BY <1>1, <2>1, <2>2, Zenon DEF IsState
  <2> QED
    BY <2>1, <2>3, <2>4
<1> QED
  BY <1>2, <1>5, <1>6, Zenon DEF s, now, until, idle, due

(* poll keeps the state in order, and afterwards an outage in force lies   *)
(* ahead and so does the next cleanup.                                     *)
LEMMA PolledKeeps ==
  ASSUME NEW st, NEW owners, NEW n, NEW end, StateOK(st, owners, n, end),
         NEW t \in Nat
  PROVE  LET s == Polled(st, t)
         IN  /\ StateOK(s, owners, n, end)
             /\ s.config = st.config /\ s.next_owner = st.next_owner
             /\ s.outage_until = 0 \/ s.now < s.outage_until
             /\ s.next_cleanup # 0
<1> DEFINE s == Polled(st, t)
           now == Later(t, st.now)
           idle == {id \in DOMAIN st.peers :
                       now - st.peers[id].last_seen >= st.config.idle_timeout}
           live == DOMAIN st.peers \ idle
<1>1. /\ IsState(s) /\ s.config = st.config /\ s.now = now
      /\ s.next_owner = st.next_owner
      /\ s.outage_until = IF now >= st.outage_until THEN 0 ELSE st.outage_until
      /\ \/ /\ now < st.next_cleanup
            /\ s.next_cleanup = st.next_cleanup /\ s.peers = st.peers
         \/ /\ now >= st.next_cleanup
            /\ s.next_cleanup = now + Least(st.config.idle_timeout, Second)
            /\ s.peers = [id \in live |-> st.peers[id]]
  BY PolledOps, Zenon DEF StateOK
<1>2. /\ st.now \in Nat /\ now \in Nat /\ st.now <= now /\ st.next_cleanup \in Nat
      /\ st.outage_until \in Nat /\ st.config \in Configs
      /\ st.config.idle_timeout \in Nat \ {0} /\ st.config.max_peers \in Nat
  BY ServerConditionerAssumption DEF StateOK, IsState, Later
<1>3. /\ Least(st.config.idle_timeout, Second) \in Nat \ {0}
      /\ Least(st.config.idle_timeout, Second) <= st.config.idle_timeout
  BY <1>2, ServerConditionerAssumption DEF Least
<1>4. \A id \in DOMAIN st.peers : st.peers[id].last_seen \in Nat
  BY DEF StateOK, PeerOK
<1>5. \A id \in live : now - st.peers[id].last_seen < st.config.idle_timeout
  BY <1>2, <1>4
<1> HIDE DEF s, now, live
<1>6. /\ DOMAIN s.peers \subseteq DOMAIN st.peers
      /\ \A id \in DOMAIN s.peers : s.peers[id] = st.peers[id]
      /\ s.peers = [id \in DOMAIN s.peers |-> s.peers[id]]
  <2>1. live \subseteq DOMAIN st.peers
    BY DEF live
  <2>2. st.peers = [id \in DOMAIN st.peers |-> st.peers[id]]
    BY DEF StateOK, TableOK
  <2>3. CASE s.peers = st.peers
    BY <2>2, <2>3
  <2>4. CASE s.peers = [id \in live |-> st.peers[id]]
    BY <2>1, <2>4
  <2> QED
    BY <1>1, <2>3, <2>4
<1>7. TableOK(s)
  <2>1. /\ IsFiniteSet(DOMAIN st.peers)
        /\ Cardinality(DOMAIN st.peers) <= st.config.max_peers
    BY DEF StateOK, TableOK
  <2>2. /\ IsFiniteSet(DOMAIN s.peers)
        /\ Cardinality(DOMAIN s.peers) <= Cardinality(DOMAIN st.peers)
    BY <1>6, <2>1, FS_Subset
  <2>3. /\ Cardinality(DOMAIN s.peers) \in Nat /\ Cardinality(DOMAIN st.peers) \in Nat
    BY <2>1, <2>2, FS_CardinalityType
  <2> QED
    BY <1>1, <1>2, <1>6, <2>1, <2>2, <2>3 DEF TableOK
<1>8. OutageOK(s, end) /\ (s.outage_until = 0 \/ s.now < s.outage_until)
  BY <1>1, <1>2 DEF StateOK, OutageOK
<1>9. CleanupOK(s) /\ s.next_cleanup # 0
  <2>1. CASE now < st.next_cleanup /\ s.next_cleanup = st.next_cleanup
    BY <1>1, <1>2, <1>3, <1>4, <1>6, <2>1 DEF StateOK, CleanupOK
  <2>2. CASE /\ now >= st.next_cleanup
             /\ s.next_cleanup = now + Least(st.config.idle_timeout, Second)
             /\ s.peers = [id \in live |-> st.peers[id]]
    <3>1. DOMAIN s.peers = live /\ \A id \in live : s.peers[id] = st.peers[id]
      BY <2>2
    <3>2. \A id \in live : s.peers[id].last_seen \in Nat
      BY <1>4, <3>1 DEF live
    <3> QED
      BY <1>1, <1>2, <1>3, <1>5, <2>2, <3>1, <3>2 DEF CleanupOK
  <2> QED
    BY <1>1, <2>1, <2>2
<1>10. \A id \in DOMAIN s.peers : PeerOK(s.peers[id], s.now, owners, n)
  <2> TAKE id \in DOMAIN s.peers
  <2>1. PeerOK(st.peers[id], st.now, owners, n) /\ s.peers[id] = st.peers[id]
    BY <1>6 DEF StateOK
  <2>2. PairOK(Paired(st.peers[id]), st.peers[id].owner, now, n)
    BY <1>2, <2>1, LaterPair DEF PeerOK
  <2> QED
    BY <1>1, <2>1, <2>2 DEF PeerOK
<1>11. StateOK(s, owners, n, end)
  BY <1>1, <1>7, <1>8, <1>9, <1>10 DEF StateOK
<1> QED
  BY <1>1, <1>8, <1>9, <1>11 DEF s

-----------------------------------------------------------------------------
(* A change of policy of one peer (configure, outage_at).                  *)
LEMMA ReconfiguredPeer ==
  ASSUME NEW peer, NEW now \in Nat, NEW owners, NEW n \in Nat, n < MaxChanges,
         PeerOK(peer, now, owners, n), NEW packets
  PROVE  /\ PeerOK(Reconfigured(peer, packets), now, owners, n + 1)
         /\ Reconfigured(peer, packets).last_seen = peer.last_seen
<1> DEFINE c == Configured(peer.control, packets)
           p == Reconfigured(peer, packets)
           x == Paired(peer)
<1>1. p = [peer EXCEPT !.control = c]
  BY DEF Reconfigured
<1>2. IsControl(peer.control) /\ x.control = peer.control /\ x.engine = peer.engine
  BY DEF PeerOK, PairOK, IsPair, Paired
<1>3. IsControl(c) /\ c.revision = Successor(x.control.revision)
  <2>1. IsControl(c) /\ c.revision = Successor(peer.control.revision)
    BY <1>2, ConfiguredOps, Zenon
  <2> HIDE DEF c, x
  <2> QED
    BY <1>2, <2>1
<1>4. PairOK([control |-> c, engine |-> x.engine], peer.owner, now, n + 1)
  <2>1. PairOK(x, peer.owner, now, n)
    BY DEF PeerOK
  <2> HIDE DEF c, p, x
  <2> QED
    BY <1>3, <2>1, ChangedPair
<1> HIDE DEF c, p, x
<1>5. /\ p.owner = peer.owner /\ p.last_seen = peer.last_seen /\ p.control = c
      /\ p.engine = peer.engine
      /\ p \in [owner : {p.owner}, last_seen : Nat, control : {p.control},
                engine : {p.engine}]
  BY <1>1 DEF PeerOK
<1>6. Paired(p) = [control |-> c, engine |-> x.engine]
  BY <1>2, <1>5 DEF Paired
<1> QED
  BY <1>4, <1>5, <1>6 DEF PeerOK, p

(* A step that lets nothing out.                                           *)
LEMMA QuietStep == ASSUME out' = NothingOut PROVE DrainsOwnPackets' /\ OutageIsGlobal'
  BY DEF NothingOut, DrainsOwnPackets, OutageIsGlobal

(* configure: the table shrinks to the new limit, every queue becomes one  *)
(* of an older policy, and the outage is over.                             *)
LEMMA ConfigureStep ==
  ASSUME ServerInv, NEW config \in Configs, Configure(config)
  PROVE  ServerInv'
<1> DEFINE new == [id \in DOMAIN state.peers |->
                      Reconfigured(state.peers[id], config.packets)]
           r == [state EXCEPT !.peers = new, !.config = config,
                              !.outage_until = 0, !.next_cleanup = 0]
<1>1. PICK gone \in Evicted(state.peers, config.max_peers) : state' = Retire(r, gone)
  BY Zenon DEF Configure
<1>2. /\ changes' = changes + 1 /\ changes < MaxChanges /\ dark' = 0 /\ out' = NothingOut
      /\ attached' = attached /\ taken' = taken
  BY DEF Configure, Changed
<1>3. IsState(state) /\ TableOK(state)
  BY DEF ServerInv, StateOK
<1> HIDE DEF new
<1>4. /\ IsState(r) /\ r.peers = new /\ r.config = config /\ r.outage_until = 0
      /\ r.next_cleanup = 0 /\ r.now = state.now
  BY <1>3, Zenon DEF IsState
<1> HIDE DEF r
<1>5. /\ IsState(state') /\ state'.config = config /\ state'.now = state.now
      /\ state'.next_cleanup = 0 /\ state'.outage_until = 0
      /\ state'.peers = [id \in DOMAIN new \ gone |-> new[id]]
  BY <1>1, <1>4, RetireOps
<1>6. /\ DOMAIN new = DOMAIN state.peers
      /\ \A id \in DOMAIN new : new[id] = Reconfigured(state.peers[id], config.packets)
  BY DEF new
<1>7. /\ DOMAIN state'.peers = DOMAIN state.peers \ gone
      /\ state'.peers = [id \in DOMAIN state'.peers |-> state'.peers[id]]
      /\ \A id \in DOMAIN state'.peers :
            /\ id \in DOMAIN state.peers
            /\ state'.peers[id] = Reconfigured(state.peers[id], config.packets)
  BY <1>5, <1>6
<1>8. TableOK(state')
  <2>1. IsFiniteSet(DOMAIN state.peers)
    BY <1>3 DEF TableOK
  <2>2. IsFiniteSet(DOMAIN state.peers \ gone)
    BY <2>1, FS_Subset
  <2>3. Cardinality(DOMAIN state.peers \ gone)
           = Least(config.max_peers, Cardinality(DOMAIN state.peers))
    BY DEF Evicted
  <2>4. config.max_peers \in Nat /\ Cardinality(DOMAIN state.peers) \in Nat
    BY <2>1, FS_CardinalityType, ServerConditionerAssumption
  <2>5. Cardinality(DOMAIN state.peers \ gone) <= config.max_peers
    BY <2>3, <2>4 DEF Least
  <2> QED
    BY <1>5, <1>7, <2>2, <2>5 DEF TableOK
<1>9. \A id \in DOMAIN state'.peers : PeerOK(state'.peers[id], state'.now, attached, changes + 1)
  <2> TAKE id \in DOMAIN state'.peers
  <2>1. PeerOK(state.peers[id], state.now, attached, changes)
    BY <1>7 DEF ServerInv, StateOK
  <2>2. state.now \in Nat /\ changes \in Nat
    BY <1>3, ServerConditionerAssumption DEF IsState, ServerInv
  <2> QED
    BY <1>2, <1>5, <1>7, <2>1, <2>2, ReconfiguredPeer
<1>10. OutageOK(state', 0) /\ CleanupOK(state')
  BY <1>5 DEF OutageOK, CleanupOK, IsState
<1>11. StateOK(state', attached', changes', dark')
  BY <1>2, <1>5, <1>8, <1>9, <1>10 DEF StateOK
<1> QED
  BY <1>2, <1>11, QuietStep, ServerConditionerAssumption DEF ServerInv

(* outage_at: the same, and one deadline for everyone.                     *)
LEMMA OutageStep ==
  ASSUME ServerInv, NEW duration \in Durations, NEW t \in Readings, Outage(duration, t)
  PROVE  ServerInv'
<1> DEFINE s == Polled(state, t)
           new == [id \in DOMAIN s.peers |->
                      Reconfigured(s.peers[id], s.peers[id].control.config)]
           until == IF duration = 0 THEN 0 ELSE s.now + duration
<1>1. state' = [s EXCEPT !.peers = new, !.outage_until = until] /\ dark' = until
  BY DEF Outage
<1>2. /\ changes' = changes + 1 /\ changes < MaxChanges /\ out' = NothingOut
      /\ attached' = attached /\ taken' = taken
  BY DEF Outage, Changed
<1>3. t \in Nat /\ changes \in Nat
  BY ServerConditionerAssumption DEF Readings, ServerInv, StateOK, IsState
<1>4. StateOK(s, attached, changes, dark)
  BY <1>3, PolledKeeps DEF ServerInv
<1> HIDE DEF s
<1>5. s.now \in Nat /\ until \in Nat /\ (until = 0 \/ s.now < until)
  BY <1>4, ServerConditionerAssumption DEF StateOK, IsState
<1>6. /\ DOMAIN new = DOMAIN s.peers
      /\ new = [id \in DOMAIN new |-> new[id]]
      /\ \A id \in DOMAIN new :
            /\ new[id] = Reconfigured(s.peers[id], s.peers[id].control.config)
            /\ PeerOK(s.peers[id], s.now, attached, changes)
  BY <1>4 DEF StateOK
<1> HIDE DEF new, until
<1>7. \A id \in DOMAIN new : /\ PeerOK(new[id], s.now, attached, changes + 1)
                             /\ new[id].last_seen = s.peers[id].last_seen
  BY <1>2, <1>3, <1>5, <1>6, ReconfiguredPeer
<1>8. /\ state'.peers = new /\ state'.outage_until = until /\ state'.now = s.now
      /\ state'.config = s.config /\ state'.next_cleanup = s.next_cleanup
  BY <1>1, <1>4 DEF StateOK, IsState
<1>9. IsState(state')
  BY <1>1, <1>4, <1>5, Zenon DEF StateOK, IsState
<1>10. TableOK(state')
  BY <1>4, <1>6, <1>8 DEF StateOK, TableOK
<1>11. OutageOK(state', until)
  BY <1>5, <1>8 DEF OutageOK
<1>12. CleanupOK(state')
  BY <1>4, <1>6, <1>7, <1>8 DEF StateOK, CleanupOK
<1>13. StateOK(state', attached', changes', dark')
  BY <1>1, <1>2, <1>7, <1>8, <1>9, <1>10, <1>11, <1>12 DEF StateOK
<1> QED
  BY <1>2, <1>3, <1>13, QuietStep, ServerConditionerAssumption DEF ServerInv

-----------------------------------------------------------------------------
(* The steps of a gate that defer and drain nothing.                       *)
LEMMA AttachStep ==
  ASSUME ServerInv, NEW g \in Gates, Attach(g)
  PROVE  ServerInv'
<1>1. /\ attached[g] = 0 /\ attached' = [attached EXCEPT ![g] = state.next_owner]
      /\ state' = [state EXCEPT !.next_owner = state.next_owner + 1]
      /\ out' = NothingOut /\ changes' = changes /\ taken' = taken /\ dark' = dark
  BY DEF Attach, Quiet, Owner
<1>2. IsState(state) /\ state.next_owner \in Nat \ {0}
  BY DEF ServerInv, StateOK, IsState
<1>3. /\ IsState(state') /\ state'.peers = state.peers /\ state'.config = state.config
      /\ state'.now = state.now /\ state'.next_cleanup = state.next_cleanup
      /\ state'.outage_until = state.outage_until
  BY <1>1, <1>2 DEF IsState
<1>4. ASSUME NEW id \in DOMAIN state.peers
      PROVE  PeerOK(state.peers[id], state.now, attached', changes)
  <2>1. PeerOK(state.peers[id], state.now, attached, changes)
    BY DEF ServerInv, StateOK
  <2>2. PICK h \in Gates : state.peers[id].owner = attached[h] /\ attached[h] # 0
    BY <2>1 DEF PeerOK
  <2>3. attached'[h] = attached[h]
    BY <1>1, <2>2 DEF ServerInv
  <2> QED
    BY <2>1, <2>2, <2>3, Zenon DEF PeerOK
<1>5. StateOK(state', attached', changes', dark')
  BY <1>1, <1>3, <1>4, Zenon DEF ServerInv, StateOK, TableOK, OutageOK, CleanupOK
<1>6. attached' \in [Gates -> Nat]
  BY <1>1, <1>2 DEF ServerInv
<1> QED
  BY <1>1, <1>5, <1>6, QuietStep DEF ServerInv

(* Retiring peers keeps the invariant, and hands nothing out.              *)
LEMMA ResetStep ==
  ASSUME ServerInv, NEW ids, state' = Retire(state, ids), attached' = attached, Quiet
  PROVE  ServerInv'
<1>1. StateOK(state', attached, changes, dark)
  BY RetireKeeps DEF ServerInv
<1> QED
  BY <1>1, QuietStep DEF Quiet, ServerInv

(* PacketGate::drop retires the peers of its gate and forgets its owner.   *)
LEMMA DetachStep ==
  ASSUME ServerInv, NEW g \in Gates, Detach(g)
  PROVE  ServerInv'
<1> DEFINE s == Retire(state, Owned(state, attached[g]))
<1>1. /\ state' = s /\ attached' = [attached EXCEPT ![g] = 0]
      /\ out' = NothingOut /\ changes' = changes /\ taken' = taken /\ dark' = dark
  BY DEF Detach, Quiet, Owner
<1>2. StateOK(s, attached, changes, dark)
  BY RetireKeeps DEF ServerInv
<1>3. s.peers = [id \in DOMAIN state.peers \ Owned(state, attached[g]) |-> state.peers[id]]
  BY RetireOps, Zenon DEF ServerInv, StateOK
<1> HIDE DEF s
<1>4. ASSUME NEW id \in DOMAIN s.peers
      PROVE  PeerOK(s.peers[id], s.now, attached', changes)
  <2>1. PeerOK(s.peers[id], s.now, attached, changes)
    BY <1>2 DEF StateOK
  <2>2. s.peers[id].owner # attached[g]
    BY <1>3 DEF Owned
  <2>3. PICK h \in Gates : s.peers[id].owner = attached[h] /\ h # g
    BY <2>1, <2>2 DEF PeerOK
  <2>4. attached'[h] = attached[h]
    BY <1>1, <2>3 DEF ServerInv
  <2> QED
    BY <2>1, <2>3, <2>4, Zenon DEF PeerOK
<1>5. StateOK(state', attached', changes', dark')
  BY <1>1, <1>2, <1>4, Zenon DEF StateOK
<1>6. attached' \in [Gates -> Nat]
  BY <1>1 DEF ServerInv
<1> QED
  BY <1>1, <1>5, <1>6, QuietStep DEF ServerInv

-----------------------------------------------------------------------------
(* A state with one entry of its table replaced or added.                  *)
WithEntry(st, id, peer) ==
    [st EXCEPT !.peers = [i \in DOMAIN st.peers \cup {id} |->
                             IF i = id THEN peer ELSE st.peers[i]]]

(* A state in which one peer's entry is new or was polled just now: it is  *)
(* still in order.                                                         *)
LEMMA EntryKeeps ==
  ASSUME NEW st, NEW owners, NEW n, NEW end, StateOK(st, owners, n, end),
         st.next_cleanup # 0, NEW id, NEW peer, PeerOK(peer, st.now, owners, n),
         peer.last_seen = st.now,
         id \in DOMAIN st.peers \/ Cardinality(DOMAIN st.peers) < st.config.max_peers,
         NEW s, s = WithEntry(st, id, peer)
  PROVE  StateOK(s, owners, n, end)
<1> DEFINE new == [i \in DOMAIN st.peers \cup {id} |-> IF i = id THEN peer ELSE st.peers[i]]
<1>1. /\ DOMAIN new = DOMAIN st.peers \cup {id} /\ new = [i \in DOMAIN new |-> new[i]]
      /\ \A i \in DOMAIN new : \/ i = id /\ new[i] = peer
                               \/ i \in DOMAIN st.peers /\ new[i] = st.peers[i]
  OBVIOUS
<1> HIDE DEF new
<1>2. s = [st EXCEPT !.peers = new]
  BY DEF new, WithEntry
<1>3. /\ s.peers = new /\ s.config = st.config /\ s.now = st.now
      /\ s.next_cleanup = st.next_cleanup /\ s.outage_until = st.outage_until
  BY <1>2 DEF StateOK, IsState
<1>4. IsState(s)
  BY <1>2 DEF StateOK, IsState
<1>5. TableOK(s)
  <2>1. IsFiniteSet(DOMAIN st.peers) /\ Cardinality(DOMAIN st.peers) <= st.config.max_peers
    BY Zenon DEF StateOK, TableOK
  <2>2. /\ IsFiniteSet(DOMAIN st.peers \cup {id})
        /\ Cardinality(DOMAIN st.peers \cup {id}) =
              IF id \in DOMAIN st.peers THEN Cardinality(DOMAIN st.peers)
              ELSE Cardinality(DOMAIN st.peers) + 1
    BY <2>1, FS_AddElement
  <2>3. Cardinality(DOMAIN st.peers) \in Nat /\ st.config.max_peers \in Nat
    BY <2>1, FS_CardinalityType, ServerConditionerAssumption DEF StateOK, IsState
  <2>4. Cardinality(DOMAIN st.peers \cup {id}) <= st.config.max_peers
    BY <2>1, <2>2, <2>3
  <2> QED
    BY <1>1, <1>3, <2>2, <2>4 DEF TableOK
<1>6. OutageOK(s, end)
  BY <1>3 DEF StateOK, OutageOK
<1>7. CleanupOK(s)
  <2>1. /\ st.next_cleanup \in Nat /\ st.now \in Nat /\ st.config.idle_timeout \in Nat \ {0}
        /\ Least(st.config.idle_timeout, Second) \in Nat
    BY ServerConditionerAssumption DEF StateOK, IsState, Least
  <2> QED
    BY <1>1, <1>3, <2>1 DEF StateOK, CleanupOK
<1>8. \A i \in DOMAIN s.peers : PeerOK(s.peers[i], s.now, owners, n)
  BY <1>1, <1>3 DEF StateOK
<1> QED
  BY <1>4, <1>5, <1>6, <1>7, <1>8, Zenon DEF StateOK

(* What defer_at leaves, from the state it polled, the packet's peer and   *)
(* engine before and after, and what it decided.                           *)
Deferring(owner, id, s, peer, verdict, y, pass) ==
    /\ owner # 0
    /\ state' = IF pass THEN s
                ELSE IF Refused(s, owner, id) THEN [s EXCEPT !.peer_limit_drops = @ + 1]
                ELSE [s EXCEPT !.peers = [i \in DOMAIN @ \cup {id} |->
                         IF i = id THEN [owner |-> peer.owner, last_seen |-> s.now,
                                         control |-> y.control, engine |-> y.engine]
                         ELSE @[i]]]
    /\ out' = [NothingOut EXCEPT !.bypassed =
                  pass \/ (~Refused(s, owner, id) /\ verdict = "bypass")]
    /\ taken' = IF out'.bypassed THEN taken ELSE taken + 1
    /\ UNCHANGED <<attached, changes, delivered, dark>>

(* The values it computes on the way.                                      *)
Deferred(owner, d, id, bytes, t, lost, delay, s, peer, x, verdict, y, pass) ==
    /\ s = Polled(state, t)
    /\ peer = IF id \in DOMAIN s.peers THEN s.peers[id] ELSE NewPeer(s, owner)
    /\ x = Synced(UnderOutage(s, peer), s.now)
    /\ verdict = Verdict(x, d, bytes, lost)
    /\ y = Enqueued(x, d, bytes, [seq |-> taken, owner |-> owner, change |-> changes],
                    verdict, delay)
    /\ pass = (~s.config.packets.enabled /\ s.outage_until = 0)

(* What is queued belongs to the gate that deferred it, and nothing passes *)
(* while an outage is in force.                                            *)
LEMMA DeferringKeeps ==
  ASSUME ServerInv, NEW g \in Gates, NEW d \in Direction, NEW id \in Peers,
         NEW bytes \in Sizes, NEW t \in Readings, NEW lost,
         NEW delay \in state.config.packets.delays,
         NEW s, NEW peer, NEW x, NEW verdict, NEW y, NEW pass,
         Deferring(attached[g], id, s, peer, verdict, y, pass),
         Deferred(attached[g], d, id, bytes, t, lost, delay, s, peer, x, verdict, y, pass)
  PROVE  ServerInv'
<1> DEFINE owner == attached[g]
           payload == [seq |-> taken, owner |-> owner, change |-> changes]
<1> HIDE DEF payload
<1>1. /\ s = Polled(state, t)
      /\ peer = IF id \in DOMAIN s.peers THEN s.peers[id] ELSE NewPeer(s, owner)
      /\ x = Synced(UnderOutage(s, peer), s.now)
      /\ verdict = Verdict(x, d, bytes, lost)
      /\ y = Enqueued(x, d, bytes, payload, verdict, delay)
      /\ pass = (~s.config.packets.enabled /\ s.outage_until = 0)
      /\ state' = IF pass THEN s
                  ELSE IF Refused(s, owner, id) THEN [s EXCEPT !.peer_limit_drops = @ + 1]
                  ELSE [s EXCEPT !.peers = [i \in DOMAIN @ \cup {id} |->
                           IF i = id THEN [owner |-> peer.owner, last_seen |-> s.now,
                                           control |-> y.control, engine |-> y.engine]
                           ELSE @[i]]]
      /\ out' = [NothingOut EXCEPT !.bypassed =
                   pass \/ (~Refused(s, owner, id) /\ verdict = "bypass")]
  BY Zenon DEF Deferring, Deferred, payload
<1>2. /\ owner # 0
      /\ taken' = IF out'.bypassed THEN taken ELSE taken + 1
      /\ attached' = attached /\ changes' = changes /\ dark' = dark
  BY DEF Deferring
<1> DEFINE entry == [owner |-> peer.owner, last_seen |-> s.now,
                     control |-> y.control, engine |-> y.engine]
           refused == Refused(s, owner, id)
<1>3. /\ t \in Nat /\ changes \in 0..MaxChanges /\ changes \in Nat /\ taken \in Nat
      /\ delay \in Nat /\ owner \in Nat
  BY ServerConditionerAssumption DEF Readings, ServerInv, StateOK, IsState
<1>4. /\ StateOK(s, attached, changes, dark)
      /\ s.outage_until = 0 \/ s.now < s.outage_until
      /\ s.next_cleanup # 0
  BY <1>1, <1>3, PolledKeeps, Zenon DEF ServerInv
<1>5. s.now \in Nat /\ s.outage_until \in Nat /\ s.config.max_peers \in Nat
  BY <1>4, ServerConditionerAssumption DEF StateOK, IsState
<1>6. ~refused => peer.owner = owner
  BY <1>1, Zenon DEF Refused, NewPeer
<1>7. ~refused => id \in DOMAIN s.peers \/ Cardinality(DOMAIN s.peers) < s.config.max_peers
  <2>1. Cardinality(DOMAIN s.peers) \in Nat
    BY <1>4, FS_CardinalityType, Zenon DEF StateOK, TableOK
  <2> DEFINE c == Cardinality(DOMAIN s.peers)
  <2>2. c < s.config.max_peers \/ c >= s.config.max_peers
    BY <1>5, <2>1
  <2> QED
    BY <2>2, Zenon DEF Refused
<1>8. Pollable(UnderOutage(s, peer), peer.owner, s.now, changes, s.outage_until)
  <2>1. CASE id \in DOMAIN s.peers
    <3>1. peer = s.peers[id]
      BY <1>1, <2>1, Zenon
    <3>2. PairOK(Paired(peer), peer.owner, s.now, changes)
      BY <1>4, <2>1, <3>1, Zenon DEF StateOK, PeerOK
    <3> QED
      BY <1>3, <1>5, <3>2, KnownPollable, Zenon
  <2>2. CASE id \notin DOMAIN s.peers
    <3>1. peer = NewPeer(s, owner) /\ peer.owner = owner
      BY <1>1, <2>2, Zenon DEF NewPeer
    <3> QED
      BY <1>5, <3>1, NewPollable, Zenon
  <2> QED
    BY <2>1, <2>2, Zenon
<1> HIDE DEF refused
<1>9. Settled(x, peer.owner, s.now, changes, s.outage_until)
  BY <1>1, <1>4, <1>5, <1>8, SyncedPair, Zenon
<1>10. ASSUME ~refused
      PROVE  PairOK(y, owner, s.now, changes)
  <2>1. payload \in [seq : Nat, owner : {owner}, change : {changes}]
    BY <1>3 DEF payload
  <2>2. Settled(x, owner, s.now, changes, s.outage_until)
    BY <1>6, <1>9, <1>10
  <2> QED
    BY <1>1, <1>3, <1>5, <2>1, <2>2, EnqueuedPair
<1>11. verdict = "bypass" => s.outage_until = 0
  BY <1>1, <1>9, NothingPasses, Zenon
<1>12. StateOK(state', attached, changes, dark) /\ state'.now = s.now
       /\ state'.outage_until = s.outage_until
  <2>1. CASE pass
    BY <1>1, <1>4, <2>1, Zenon
  <2>2. CASE ~pass /\ refused
    <3>1. state' = [s EXCEPT !.peer_limit_drops = @ + 1]
      BY <1>1, <2>2, Zenon DEF refused
    <3>2. /\ IsState(state') /\ state'.peers = s.peers /\ state'.config = s.config
          /\ state'.now = s.now /\ state'.next_cleanup = s.next_cleanup
          /\ state'.outage_until = s.outage_until
      BY <1>4, <3>1 DEF StateOK, IsState
    <3> QED
      BY <1>4, <3>2, Zenon DEF StateOK, TableOK, OutageOK, CleanupOK
  <2>3. CASE ~pass /\ ~refused
    <3>1. state' = [s EXCEPT !.peers = [i \in DOMAIN s.peers \cup {id} |->
                      IF i = id THEN entry ELSE s.peers[i]]]
      BY <1>1, <2>3, Zenon DEF refused
    <3>2. PairOK(y, owner, s.now, changes) /\ peer.owner = owner
      BY <1>6, <1>10, <2>3, Zenon
    <3>3. /\ entry.owner = owner /\ entry.last_seen = s.now /\ entry.control = y.control
          /\ entry.engine = y.engine
          /\ entry \in [owner : {entry.owner}, last_seen : Nat, control : {entry.control},
                        engine : {entry.engine}]
      BY <1>5, <3>2, Zenon
    <3> HIDE DEF entry
    <3>4. Paired(entry) = y
      BY <3>2, <3>3 DEF Paired, PairOK, IsPair
    <3>5. PeerOK(entry, s.now, attached, changes)
      BY <1>2, <3>2, <3>3, <3>4 DEF PeerOK
    <3>6. StateOK(state', attached, changes, dark)
      <4>1. id \in DOMAIN s.peers \/ Cardinality(DOMAIN s.peers) < s.config.max_peers
        BY <1>7, <2>3, Zenon
      <4>2. entry.last_seen = s.now
        BY <3>3
      <4>3. state' = WithEntry(s, id, entry)
        BY <3>1 DEF WithEntry
      <4> QED
        BY <1>4, <3>5, <4>1, <4>2, <4>3, EntryKeeps, Zenon
    <3>7. IsState(s)
      BY <1>4, Zenon DEF StateOK
    <3>8. state'.now = s.now /\ state'.outage_until = s.outage_until
      BY <3>1, <3>7 DEF IsState
    <3> QED
      BY <3>6, <3>8, Zenon
  <2> QED
    BY <2>1, <2>2, <2>3, Zenon
<1>13. out'.packets = {} /\ (out'.bypassed => s.outage_until = 0)
  BY <1>1, <1>11, Zenon DEF NothingOut, refused
<1>14. taken' \in Nat
  <2>1. taken \in Nat /\ (taken' = taken \/ taken' = taken + 1)
    BY <1>2, <1>3, Zenon
  <2> QED
    BY <2>1
<1>15. DrainsOwnPackets' /\ OutageIsGlobal'
  <2>1. out'.bypassed => state'.now >= dark
    BY <1>12, <1>13, Zenon DEF StateOK, OutageOK
  <2> QED
    BY <1>2, <1>13, <2>1, Zenon DEF DrainsOwnPackets, OutageIsGlobal
<1> QED
  BY <1>2, <1>12, <1>14, <1>15, Zenon DEF ServerInv

(* defer_at keeps the invariant.                                           *)
LEMMA DeferStep ==
  ASSUME ServerInv, NEW g \in Gates, NEW d \in Direction, NEW id \in Peers,
         NEW bytes \in Sizes, NEW t \in Readings, NEW lost,
         NEW delay \in state.config.packets.delays,
         Defer(g, d, id, bytes, t, lost, delay)
  PROVE  ServerInv'
<1> DEFINE owner == attached[g]
           payload == [seq |-> taken, owner |-> owner, change |-> changes]
<1>1. SUFFICES
        ASSUME NEW s \in {Polled(state, t)},
               NEW peer \in {IF id \in DOMAIN s.peers THEN s.peers[id]
                             ELSE NewPeer(s, owner)},
               NEW x \in {Synced(UnderOutage(s, peer), s.now)},
               NEW verdict \in {Verdict(x, d, bytes, lost)},
               NEW y \in {Enqueued(x, d, bytes, payload, verdict, delay)},
               NEW pass \in {~s.config.packets.enabled /\ s.outage_until = 0},
               Deferring(owner, id, s, peer, verdict, y, pass)
        PROVE  ServerInv'
  BY SMTT(20) DEF Defer, Owner, Deferring
<1>2. Deferred(owner, d, id, bytes, t, lost, delay, s, peer, x, verdict, y, pass)
  BY Zenon DEF Deferred
<1> QED
  BY <1>1, <1>2, DeferringKeeps, Zenon

(* What drain_at leaves, from the state it polled and the engines of the   *)
(* gate before and after.                                                  *)
Draining(owner, d, s, xs, ys) ==
    /\ state' = [s EXCEPT !.peers = [id \in DOMAIN @ |->
                    IF id \in DOMAIN ys
                    THEN [@[id] EXCEPT !.control = ys[id].control, !.engine = ys[id].engine]
                    ELSE @[id]]]
    /\ out' = [NothingOut EXCEPT !.owner = owner,
                  !.packets = UNION {Range(Ready(xs[id], d)) : id \in DOMAIN xs}]
    /\ delivered' = delivered + Cardinality(out'.packets)
    /\ UNCHANGED <<attached, changes, taken, dark>>

(* The values it computes on the way.                                      *)
Gathered(owner, d, t, s, xs, ys) ==
    /\ s = Polled(state, t) /\ xs = Polling(s, owner)
    /\ ys = [id \in DOMAIN xs |-> Drained(xs[id], d)]

(* Every engine of the gate is polled and gives out what is due.           *)
LEMMA DrainingKeeps ==
  ASSUME ServerInv, NEW g \in Gates, NEW d \in Direction, NEW t \in Readings,
         NEW s, NEW xs, NEW ys, Draining(attached[g], d, s, xs, ys),
         Gathered(attached[g], d, t, s, xs, ys)
  PROVE  ServerInv'
<1> DEFINE owner == attached[g]
<1>1. /\ s = Polled(state, t) /\ xs = Polling(s, owner)
      /\ ys = [id \in DOMAIN xs |-> Drained(xs[id], d)]
      /\ state' = [s EXCEPT !.peers = [id \in DOMAIN @ |->
                      IF id \in DOMAIN ys
                      THEN [@[id] EXCEPT !.control = ys[id].control,
                                         !.engine = ys[id].engine]
                      ELSE @[id]]]
      /\ out' = [NothingOut EXCEPT !.owner = owner,
                    !.packets = UNION {Range(Ready(xs[id], d)) : id \in DOMAIN xs}]
      /\ attached' = attached /\ changes' = changes /\ taken' = taken /\ dark' = dark
  BY Zenon DEF Draining, Gathered
<1> DEFINE ids == Owned(s, owner)
           new == [id \in DOMAIN s.peers |->
                     IF id \in ids THEN [s.peers[id] EXCEPT !.control = ys[id].control,
                                                            !.engine = ys[id].engine]
                     ELSE s.peers[id]]
           gone == UNION {Range(Ready(xs[id], d)) : id \in ids}
<1>2. /\ DOMAIN xs = ids /\ DOMAIN ys = ids
       /\ \A id \in ids : /\ xs[id] = Synced(UnderOutage(s, s.peers[id]), s.now)
                          /\ ys[id] = Drained(xs[id], d)
  BY <1>1, Zenon DEF Polling
<1>3. /\ state' = [s EXCEPT !.peers = new]
       /\ out' = [NothingOut EXCEPT !.owner = owner, !.packets = gone]
  BY <1>1, <1>2, Zenon
<1>4. /\ t \in Nat /\ changes \in 0..MaxChanges /\ changes \in Nat
  BY ServerConditionerAssumption DEF Readings, ServerInv, StateOK, IsState
<1>5. /\ StateOK(s, attached, changes, dark)
      /\ s.outage_until = 0 \/ s.now < s.outage_until
  BY <1>1, <1>4, PolledKeeps, Zenon DEF ServerInv
<1>6. s.now \in Nat /\ s.outage_until \in Nat
  BY <1>5 DEF StateOK, IsState
<1>7. ASSUME NEW id \in ids
      PROVE  Settled(xs[id], owner, s.now, changes, s.outage_until)
  <2>1. id \in DOMAIN s.peers /\ s.peers[id].owner = owner
    BY Zenon DEF Owned
  <2>2. PairOK(Paired(s.peers[id]), owner, s.now, changes)
    BY <1>5, <2>1, Zenon DEF StateOK, PeerOK
  <2>3. Pollable(UnderOutage(s, s.peers[id]), owner, s.now, changes, s.outage_until)
    BY <1>4, <1>6, <2>1, <2>2, KnownPollable, Zenon
  <2>4. Settled(Synced(UnderOutage(s, s.peers[id]), s.now), owner, s.now, changes,
                s.outage_until)
    BY <1>5, <1>6, <2>3, SyncedPair
  <2> QED
    BY <1>2, <2>4, Zenon
<1>8. ASSUME NEW id \in ids
      PROVE  /\ PairOK(ys[id], owner, s.now, changes)
             /\ Range(Ready(xs[id], d))
                   \subseteq Due(owner, changes, s.now)
             /\ s.outage_until # 0 => Range(Ready(xs[id], d)) = {}
  <2>1. ys[id] = Drained(xs[id], d)
    BY <1>2, Zenon
  <2>2. /\ PairOK(Drained(xs[id], d), owner, s.now, changes)
        /\ Range(Ready(xs[id], d))
              \subseteq Due(owner, changes, s.now)
        /\ s.outage_until # 0 => Range(Ready(xs[id], d)) = {}
    <3>1. Settled(xs[id], owner, s.now, changes, s.outage_until)
      BY <1>7
    <3> QED
      BY <1>4, <1>6, <3>1, DrainedPair
  <2> QED
    BY <2>1, <2>2, Zenon
<1>9. ASSUME NEW id \in DOMAIN s.peers
      PROVE  /\ PeerOK(new[id], s.now, attached, changes)
             /\ new[id].last_seen = s.peers[id].last_seen
  <2>1. PeerOK(s.peers[id], s.now, attached, changes)
    BY <1>5 DEF StateOK
  <2>2. CASE id \notin ids
    BY <2>1, <2>2, Zenon
  <2>3. CASE id \in ids
    <3> DEFINE p == new[id]
    <3>1. p = [s.peers[id] EXCEPT !.control = ys[id].control, !.engine = ys[id].engine]
      BY <2>3, Zenon
    <3> HIDE DEF new, p
    <3>2. /\ p.owner = s.peers[id].owner /\ p.last_seen = s.peers[id].last_seen
          /\ p.control = ys[id].control /\ p.engine = ys[id].engine
          /\ p \in [owner : {p.owner}, last_seen : Nat, control : {p.control},
                    engine : {p.engine}]
      BY <2>1, <3>1, Zenon DEF PeerOK
    <3>3. Paired(p) = ys[id]
      BY <1>8, <2>3, <3>2, Zenon DEF Paired, PairOK, IsPair
    <3>4. s.peers[id].owner = owner
      BY <2>3, Zenon DEF Owned
    <3>5. PairOK(Paired(p), p.owner, s.now, changes)
      BY <1>8, <2>3, <3>2, <3>3, <3>4
    <3>6. PeerOK(p, s.now, attached, changes)
      BY <2>1, <3>2, <3>5 DEF PeerOK
    <3> QED
      BY <3>2, <3>6, Zenon DEF p
  <2> QED
    BY <2>2, <2>3, Zenon
<1>10. DOMAIN new = DOMAIN s.peers /\ new = [id \in DOMAIN new |-> new[id]]
  BY Zenon
<1> HIDE DEF new
<1>11. /\ state'.peers = new /\ state'.config = s.config /\ state'.now = s.now
      /\ state'.next_cleanup = s.next_cleanup /\ state'.outage_until = s.outage_until
  BY <1>3, <1>5 DEF StateOK, IsState
<1>12. IsState(state')
  BY <1>3, <1>5 DEF StateOK, IsState
<1>13. TableOK(state') /\ OutageOK(state', dark) /\ CleanupOK(state')
  BY <1>5, <1>9, <1>10, <1>11 DEF StateOK, TableOK, OutageOK, CleanupOK
<1>14. StateOK(state', attached, changes, dark)
  BY <1>9, <1>10, <1>11, <1>12, <1>13 DEF StateOK
<1>15. /\ gone \subseteq Due(owner, changes, s.now)
       /\ s.outage_until # 0 => gone = {}
  BY <1>8, Zenon
<1> HIDE DEF gone
<1>16. out'.owner = owner /\ out'.packets = gone /\ ~out'.bypassed
  BY <1>3 DEF NothingOut
<1>17. DrainsOwnPackets'
  BY <1>1, <1>11, <1>15, <1>16, Zenon DEF DrainsOwnPackets, Packet, Due
<1>18. OutageIsGlobal'
  BY <1>1, <1>5, <1>11, <1>15, <1>16, Zenon DEF OutageIsGlobal, StateOK, OutageOK
<1> QED
  BY <1>1, <1>14, <1>17, <1>18, Zenon DEF ServerInv

(* drain_at keeps the invariant.                                           *)
LEMMA DrainStep ==
  ASSUME ServerInv, NEW g \in Gates, NEW d \in Direction, NEW t \in Readings,
         Drain(g, d, t)
  PROVE  ServerInv'
<1> DEFINE owner == attached[g]
<1>1. PICK s \in {Polled(state, t)} :
         \E xs \in {Polling(s, owner)} :
         \E ys \in {[id \in DOMAIN xs |-> Drained(xs[id], d)]} : Draining(owner, d, s, xs, ys)
  BY Zenon DEF Drain, Owner, Draining
<1>2. PICK xs \in {Polling(s, owner)} :
         \E ys \in {[id \in DOMAIN xs |-> Drained(xs[id], d)]} : Draining(owner, d, s, xs, ys)
  BY <1>1, Zenon
<1>3. PICK ys \in {[id \in DOMAIN xs |-> Drained(xs[id], d)]} : Draining(owner, d, s, xs, ys)
  BY <1>2, Zenon
<1>4. Gathered(owner, d, t, s, xs, ys)
  BY Zenon DEF Gathered
<1> QED
  BY <1>3, <1>4, DrainingKeeps

-----------------------------------------------------------------------------
(* The handle starts with an empty table and no outage.                    *)
LEMMA ServerStarts == Init => ServerInv
<1> SUFFICES ASSUME Init PROVE ServerInv
  OBVIOUS
<1>1. PICK config \in Configs :
         state = [config |-> config, peers |-> <<>>, retired |-> FreshStats,
                  peer_limit_drops |-> 0, expired_peers |-> 0, next_owner |-> 1,
                  now |-> 0, next_cleanup |-> 0, outage_until |-> 0]
  BY DEF Init
<1>2. IsState(state) /\ state.now = 0 /\ state.next_cleanup = 0 /\ state.outage_until = 0
  BY <1>1 DEF IsState
<1>3. state.peers = <<>> /\ DOMAIN state.peers = {}
  BY <1>1
<1>4. TableOK(state)
  <2>1. IsFiniteSet({}) /\ Cardinality({}) = 0
    BY FS_EmptySet
  <2>2. state.config.max_peers \in Nat
    BY <1>2, ServerConditionerAssumption DEF IsState
  <2>3. state.peers = [id \in DOMAIN state.peers |-> state.peers[id]]
    BY <1>3
  <2> QED
    BY <1>3, <2>1, <2>2, <2>3 DEF TableOK
<1>5. StateOK(state, attached, changes, dark)
  BY <1>2, <1>3, <1>4 DEF Init, StateOK, OutageOK, CleanupOK
<1> QED
  BY <1>5, ServerConditionerAssumption
  DEF Init, ServerInv, NothingOut, DrainsOwnPackets, OutageIsGlobal

(* Every step keeps the invariant, a stuttering step included.             *)
LEMMA ServerStep ==
  ASSUME ServerInv, [Next]_vars
  PROVE  ServerInv'
<1>1. CASE UNCHANGED vars
  BY <1>1, Zenon DEF vars, ServerInv, DrainsOwnPackets, OutageIsGlobal
<1>2. CASE Operator
  BY <1>2, ConfigureStep, OutageStep DEF Operator
<1>3. ASSUME NEW g \in Gates, Transport(g)
      PROVE  ServerInv'
  <2>1. CASE Attach(g)
    BY <2>1, AttachStep
  <2>2. CASE Detach(g)
    BY <2>2, DetachStep
  <2>3. CASE Reset(g)
    BY <2>3, ResetStep DEF Reset
  <2>4. CASE \E id \in Peers : RemovePeer(g, id)
    BY <2>4, ResetStep DEF RemovePeer
  <2>5. CASE \E d \in Direction, id \in Peers, bytes \in Sizes, t \in Readings,
                lost \in state.config.packets.loss, delay \in state.config.packets.delays :
                Defer(g, d, id, bytes, t, lost, delay)
    BY <2>5, DeferStep
  <2>6. CASE \E d \in Direction, t \in Readings : Drain(g, d, t)
    BY <2>6, DrainStep
  <2> QED
    BY <1>3, <2>1, <2>2, <2>3, <2>4, <2>5, <2>6, Zenon DEF Transport
<1> QED
  BY <1>1, <1>2, <1>3 DEF Next

(* The invariant holds throughout, whatever the operator and the           *)
(* transports do and however old the clock readings are they come with.    *)
THEOREM ServerInvariant == Spec => []ServerInv
  BY ServerStarts, ServerStep, PTL DEF Spec

(* Every peer entry belongs to a gate that is attached, and the table is   *)
(* within the limit of the moment.                                         *)
THEOREM PeersOwnedHolds == Spec => []PeersOwned
<1>1. ServerInv => PeersOwned
  BY Zenon DEF ServerInv, StateOK, TableOK, PeerOK, PeersOwned, Owner
<1> QED
  BY <1>1, ServerInvariant, PTL

(* A drain returns what this attachment of this transport deferred under   *)
(* the policy of the moment, once it is due.                               *)
THEOREM DrainsOwnHolds == Spec => []DrainsOwnPackets
<1>1. ServerInv => DrainsOwnPackets
  BY DEF ServerInv
<1> QED
  BY <1>1, ServerInvariant, PTL

(* Until the end of an outage nothing passes, for known peers and for      *)
(* those that arrive during it.                                            *)
THEOREM OutageGlobalHolds == Spec => []OutageIsGlobal
<1>1. ServerInv => OutageIsGlobal
  BY DEF ServerInv
<1> QED
  BY <1>1, ServerInvariant, PTL

(* No cleanup is overdue after a poll, and none leaves a peer that was     *)
(* idle for the timeout and one cleanup interval.                          *)
THEOREM IdleHolds == Spec => []IdleReclaimed
<1>1. ServerInv => IdleReclaimed
  BY Zenon DEF ServerInv, StateOK, CleanupOK, IdleReclaimed
<1> QED
  BY <1>1, ServerInvariant, PTL
=============================================================================
