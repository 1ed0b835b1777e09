-------------------------- MODULE MixedTablesProofs --------------------------
(***************************************************************************)
(* Proofs about the tables the WebRTC transport keeps per client           *)
(* (MixedServer): queued results converge, peers, routes and payloads      *)
(* agree, str0m is drained before it is mutated, and disconnect_all leaves *)
(* nothing behind.  The lemmas about the packet functions of server.rs are *)
(* the last part of MixedServerProofs.  Here the handlers come first, one  *)
(* lemma per function, then one lemma per group of actions, then the       *)
(* invariants.                                                             *)
(***************************************************************************)
EXTENDS MixedServerProofs

(* The functions that handle a result or tear a client down.  A table      *)
(* record the invariant accepts, whatever the phase:                       *)
Good(s) == s \in Session /\ Kept(s) /\ Rested(s)

(* remove_peer clears the tables whatever they were.                       *)
LEMMA RemovePeerGood ==
  ASSUME NEW s \in Session, ~ s.misused, Ordered(s.batch),
         s.batch = <<>> \/ (s.renet = "up" /\ "payload" \notin Range(s.batch))
  PROVE  LET t == RemovePeer(s)
         IN /\ Good(t) /\ ~ Feeds(t) /\ ~ HasSlot(t) /\ t.rtc = "none" /\ t.batch = s.batch
            /\ ~ t.conn /\ t.pending = <<>> /\ ~ t.open /\ t.held = {} /\ ~ t.deferred
            /\ ~ t.drained
<1> DEFINE d == DropPeer(s)
           f == Release(d)
           t == RemovePeer(s)
<1>1. /\ d \in Session /\ d.rtc = "none" /\ ~ d.route /\ d.batch = s.batch /\ d.renet = s.renet
      /\ ~ d.open /\ d.held = {} /\ ~ d.deferred /\ ~ d.drained /\ ~ d.misused
  BY DropPeerOps
<1> HIDE DEF d
<1>2. /\ f \in Session /\ f.rtc = "none" /\ ~ f.route /\ f.batch = s.batch /\ f.renet = s.renet
      /\ ~ f.open /\ f.held = {} /\ ~ f.deferred /\ ~ f.drained /\ ~ f.misused /\ ~ HasSlot(f)
  BY <1>1, ReleaseOps
<1>3. PICK b \in BOOLEAN : b = (s.removal \/ s.conn)
  BY Zenon
<1>4. t = [f EXCEPT !.conn = FALSE, !.removal = b, !.pending = <<>>]
  BY <1>3 DEF RemovePeer, f, d
<1> HIDE DEF f, t
<1>5. t \in Session
  <2>1. <<>> \in Seq(Results)
    OBVIOUS
  <2> QED
    BY Zenon, <1>2, <1>4, <2>1 DEF Session
<1>6. /\ t.rtc = "none" /\ ~ t.route /\ t.batch = s.batch /\ t.renet = s.renet
      /\ ~ t.open /\ t.held = {} /\ ~ t.deferred /\ ~ t.drained /\ ~ t.misused
      /\ t.net = f.net /\ ~ t.conn /\ t.pending = <<>>
  BY <1>2, <1>4 DEF Session
<1>7. ~ HasSlot(t) /\ t.net # "live"
  BY <1>2, <1>6 DEF HasSlot
<1>8. /\ Silent(t.pending) /\ ~ LogsIn(t.pending) /\ Ordered(t.pending) /\ ~ Opens(t.pending)
      /\ "payload" \notin Range(t.pending)
  BY <1>6, EmptyQueue
<1>9. ~ Feeds(t)
  BY <1>6, <1>7, <1>8, EmptyQueue DEF Feeds
<1>10. Announced(t) => t.renet = "up"
  BY <1>6, <1>8, EmptyQueue DEF Announced, Handled
<1>11. Kept(t)
  BY <1>6, <1>7, <1>8, <1>9, <1>10, Zenon DEF Kept
<1> QED
  BY <1>5, <1>6, <1>7, <1>9, <1>11 DEF Good, Rested, t

(* add_peer replaces the client's peer by a clean one.                     *)
LEMMA AddPeerGood ==
  ASSUME NEW s \in Session, ~ s.misused, s.batch = <<>>
  PROVE  Good(AddPeer(s)) /\ ~ Feeds(AddPeer(s)) /\ AddPeer(s).batch = <<>>
<1> DEFINE u == RemovePeer(s)
           t == AddPeer(s)
<1>1. /\ u \in Session /\ Kept(u) /\ ~ u.misused /\ ~ Feeds(u) /\ ~ HasSlot(u) /\ u.batch = <<>>
      /\ ~ u.conn /\ u.pending = <<>> /\ ~ u.open /\ u.held = {} /\ ~ u.deferred /\ ~ u.drained
  BY RemovePeerGood, EmptyQueue DEF Good, Rested
<1>2. t = [u EXCEPT !.rtc = "alive", !.out = "transmit", !.route = TRUE]
  BY DEF AddPeer
<1> HIDE DEF u, t
<1>3. /\ t \in Session /\ t.rtc = "alive" /\ t.batch = <<>> /\ t.pending = <<>> /\ t.net = u.net
      /\ ~ t.conn /\ ~ t.open /\ t.held = {} /\ ~ t.deferred /\ ~ t.drained /\ ~ t.misused
  BY <1>1, <1>2, Zenon DEF Session, Outputs
<1>4. ~ HasSlot(t) /\ ~ Feeds(t)
  BY <1>1, <1>3 DEF HasSlot, Feeds
<1>5. ~ Announced(t) /\ ~ Handled(t)
  BY <1>3, EmptyQueue DEF Announced, Handled
<1>6. Kept(t)
  BY <1>3, <1>4, <1>5, EmptyQueue DEF Kept
<1> QED
  BY <1>3, <1>4, <1>6 DEF Good, Rested, t

(* Sending to a client with open channel keeps a good record good.         *)
LEMMA SendToPeerGood ==
  ASSUME NEW s, Good(s), s.rtc = "none" \/ s.open, NEW t \in SendToPeer(s)
  PROVE  Good(t) /\ Fares(s, t)
  BY SendToPeerFares DEF Good, Fares

(* The record while one result is handled: it has left the batch.          *)
Rest(s) == [s EXCEPT !.batch = Tail(@)]

(* The other fields are still there, and the channel must be open.         *)
LEMMA RestOps ==
  ASSUME NEW s \in Session, Kept(s), Rested(s), s.batch # <<>>
  PROVE  LET t == Rest(s)
         IN /\ t \in Session /\ Rested(t) /\ (t.rtc = "none" \/ t.open)
            /\ t.batch = Tail(s.batch) /\ t.pending = s.pending /\ t.net = s.net
            /\ t.rtc = s.rtc /\ t.open = s.open /\ t.route = s.route /\ t.held = s.held
            /\ t.deferred = s.deferred /\ t.conn = s.conn /\ t.renet = s.renet
            /\ t.misused = s.misused /\ t.drained = s.drained /\ t.out = s.out
<1>1. Tail(s.batch) \in Seq(Results)
  BY DEF Session
<1>2. s.rtc = "none" \/ s.open
  BY DEF Kept
<1> DEFINE t == Rest(s)
<1>3. /\ t \in Session
      /\ t.batch = Tail(s.batch) /\ t.pending = s.pending /\ t.net = s.net
      /\ t.rtc = s.rtc /\ t.open = s.open /\ t.route = s.route /\ t.held = s.held
      /\ t.deferred = s.deferred /\ t.conn = s.conn /\ t.renet = s.renet
      /\ t.misused = s.misused /\ t.drained = s.drained /\ t.out = s.out
  BY <1>1, Zenon DEF Rest, Session
<1> HIDE DEF t
<1>4. Rested(t)
  BY <1>3 DEF Rested
<1> QED
  BY <1>2, <1>3, <1>4 DEF t

(* A result that is no login and no departure leaves the tables as they    *)
(* are.                                                                    *)
LEMMA RestGood ==
  ASSUME NEW s, Good(s), s.batch # <<>>, Head(s.batch) \notin Lifecycle
  PROVE  Good(Rest(s)) /\ (Rest(s).rtc = "none" \/ Rest(s).open)
<1> DEFINE t == Rest(s)
<1>1. /\ t \in Session /\ Rested(t) /\ (t.rtc = "none" \/ t.open)
      /\ t.batch = Tail(s.batch) /\ t.pending = s.pending /\ t.net = s.net
      /\ t.rtc = s.rtc /\ t.open = s.open /\ t.route = s.route /\ t.held = s.held
      /\ t.conn = s.conn /\ t.renet = s.renet
  BY RestOps DEF Good
<1>2. s.batch \in Seq(Results)
  BY DEF Good, Session
<1>3. /\ Silent(t.batch) <=> Silent(s.batch)
      /\ LogsIn(t.batch) <=> LogsIn(s.batch)
      /\ Ordered(s.batch) => Ordered(t.batch)
      /\ Opens(t.batch) <=> Opens(s.batch)
      /\ "payload" \in Range(t.batch) => "payload" \in Range(s.batch)
  BY <1>1, <1>2, TakeFirst DEF Lifecycle
<1> HIDE DEF t
<1>4. (HasSlot(t) <=> HasSlot(s)) /\ (Handled(t) <=> Handled(s)) /\ (Announced(t) <=> Announced(s))
  BY <1>1, <1>3, Zenon DEF HasSlot, Handled, Announced
<1>5. Feeds(t) => Feeds(s)
  BY <1>1, <1>3 DEF Feeds
<1>6. Kept(t)
  BY <1>1, <1>3, <1>4, <1>5, Zenon DEF Kept, Good
<1> QED
  BY <1>1, <1>6 DEF Good, t

(* ClientConnected accepted: connected_client_ids now says what the queue  *)
(* announced.                                                              *)
LEMMA AcceptClientGood ==
  ASSUME NEW s, Good(s), s.batch # <<>>, Head(s.batch) = "connected", s.renet # "up",
         NEW t \in AcceptClient(Rest(s))
  PROVE  Good(t)
<1> DEFINE x == Rest(s)
           a == AddConnection(x, "webrtc")
           n == IF HasSlot(x) THEN "live" ELSE x.net
           u == [a EXCEPT !.conn = TRUE, !.route = TRUE, !.net = n]
<1>1. /\ x \in Session /\ Rested(x) /\ (x.rtc = "none" \/ x.open)
      /\ x.batch = Tail(s.batch) /\ x.pending = s.pending /\ x.net = s.net
      /\ x.rtc = s.rtc /\ x.open = s.open /\ x.renet = s.renet /\ x.held = s.held
  BY RestOps DEF Good
<1>2. s.batch \in Seq(Results) /\ n \in {"free", "pending", "used", "live"}
  BY <1>1 DEF Good, Session
<1> HIDE DEF x
<1>3. /\ a \in Session /\ a.batch = x.batch /\ a.pending = x.pending /\ a.net = x.net
      /\ a.rtc = x.rtc /\ a.open = x.open /\ a.misused = x.misused /\ a.drained = x.drained
      /\ a.out = x.out /\ a.held = x.held
  BY <1>1, ConnectionOps, Zenon DEF Beside
<1>4. t \in SendToPeer(u)
  <2>1. AcceptClient(x) = SendToPeer([a EXCEPT !.conn = TRUE, !.route = TRUE,
                                       !.net = IF HasSlot(x) THEN "live" ELSE a.net])
    BY DEF AcceptClient, a
  <2> QED
    BY <1>3, <2>1, Zenon DEF n, x
<1> HIDE DEF a, n
<1>5. /\ u \in Session /\ u.batch = Tail(s.batch) /\ u.pending = s.pending /\ u.net = n
      /\ u.rtc = s.rtc /\ u.open = s.open /\ u.conn /\ u.route /\ u.held = s.held
      /\ u.misused = x.misused /\ u.drained = x.drained /\ u.out = x.out
  <2>1. u \in Session
    BY Zenon, <1>2, <1>3 DEF Session
  <2>2. /\ u.batch = a.batch /\ u.pending = a.pending /\ u.net = n /\ u.rtc = a.rtc
        /\ u.open = a.open /\ u.conn = TRUE /\ u.route = TRUE /\ u.held = a.held
        /\ u.misused = a.misused /\ u.drained = a.drained /\ u.out = a.out
    BY <1>3 DEF Session
  <2> HIDE DEF u
  <2> QED
    BY <1>1, <1>3, <2>1, <2>2
<1> HIDE DEF u
<1>6. Rested(u) /\ (u.rtc = "none" \/ u.open)
  BY <1>1, <1>5 DEF Rested
<1>7. /\ ~ Silent(s.batch) /\ Opens(s.batch) /\ Ordered(s.batch)
      /\ LogsIn(s.batch) <=> LogsIn(u.batch) \/ Silent(u.batch)
      /\ Ordered(u.batch) /\ ~ Opens(u.batch)
  <2>1. Ordered(s.batch)
    BY Zenon DEF Good, Kept
  <2> QED
    BY <1>2, <1>5, <2>1, TakeFirst DEF Lifecycle
<1>8. HasSlot(u) <=> HasSlot(s)
  BY <1>1, <1>5 DEF HasSlot, n
<1>9. (Handled(u) <=> Handled(s)) /\ (Announced(u) <=> Announced(s))
  BY <1>5, <1>7 DEF Handled, Announced
<1>10. Kept(u)
  BY <1>5, <1>6, <1>7, <1>8, <1>9, Zenon DEF Kept, Good
<1> QED
  BY <1>4, <1>5, <1>6, <1>10, SendToPeerGood, Zenon DEF Good

(* ClientConnected rejected: the peer goes, its connection never was.      *)
LEMMA RejectDuplicateGood ==
  ASSUME NEW s, Good(s), s.batch # <<>>, Head(s.batch) = "connected", s.renet = "up",
         NEW t \in RejectDuplicate(Rest(s))
  PROVE  Good(t)
<1> DEFINE x == Rest(s)
<1>1. x \in Session /\ Rested(x) /\ x.batch = Tail(s.batch) /\ x.renet = s.renet
  BY RestOps DEF Good
<1> HIDE DEF x
<1>2. PICK u \in IF HasSlot(x) THEN SendToPeer(Release(x)) ELSE {x} : t = RemovePeer(u)
  BY DEF RejectDuplicate, x
<1>3. u \in Session /\ u.batch = x.batch /\ u.renet = x.renet /\ Rested(u)
  <2>1. CASE u = x
    BY <1>1, <2>1
  <2>2. CASE u \in SendToPeer(Release(x))
    <3>1. Release(x) \in Session /\ Same(x, Release(x)) /\ Rested(Release(x))
      BY <1>1, ReleaseOps, SimpleOps DEF Rested
    <3>2. Same(Release(x), u) /\ Rested(u)
      BY <2>2, <3>1, SendToPeerSame, SendToPeerRests, Zenon
    <3> QED
      BY <3>1, <3>2 DEF Same
  <2> QED
    BY <1>2, <2>1, <2>2
<1>4. Ordered(s.batch) /\ ~ s.conn /\ ~ Feeds(s)
  <2>1. s.batch \in Seq(Results)
    BY DEF Good, Session
  <2>2. Opens(s.batch)
    BY <2>1, TakeFirst, Zenon
  <2> QED
    BY <2>2, Zenon DEF Good, Kept
<1>5. Ordered(u.batch) /\ "payload" \notin Range(u.batch)
  <2>1. s.batch \in Seq(Results)
    BY DEF Good, Session
  <2> QED
    BY <1>1, <1>3, <1>4, <2>1, TakeFirst DEF Feeds
<1> QED
  BY <1>1, <1>2, <1>3, <1>5, RemovePeerGood, Zenon DEF Rested

(* ClientDisconnected before the payload of the departure is sent.         *)
Shut(s) ==
    [(IF s.conn THEN RemoveConnection([s EXCEPT !.conn = FALSE]) ELSE s) EXCEPT !.route = FALSE]

(* It gives up the connection it tracked and the routes.                   *)
LEMMA ShutOps ==
  ASSUME NEW s \in Session
  PROVE  LET t == Shut(s)
         IN /\ t \in Session /\ ~ t.conn /\ ~ t.route
            /\ t.renet = IF s.conn THEN "none" ELSE s.renet
            /\ t.batch = s.batch /\ t.pending = s.pending /\ t.net = s.net /\ t.rtc = s.rtc
            /\ t.open = s.open /\ t.held = s.held /\ t.deferred = s.deferred
            /\ t.misused = s.misused /\ t.drained = s.drained /\ t.out = s.out
<1>1. CASE s.conn
  <2> DEFINE g == RemoveConnection([s EXCEPT !.conn = FALSE])
  <2>1. /\ g \in Session /\ ~ g.conn /\ g.renet = "none" /\ g.batch = s.batch
        /\ g.pending = s.pending /\ g.net = s.net /\ g.rtc = s.rtc
        /\ g.open = s.open /\ g.held = s.held /\ g.deferred = s.deferred
        /\ g.misused = s.misused /\ g.drained = s.drained /\ g.out = s.out
    BY Zenon DEF RemoveConnection, Session
  <2>2. Shut(s) = [g EXCEPT !.route = FALSE]
    BY <1>1 DEF Shut
  <2> HIDE DEF g
  <2>3. [g EXCEPT !.route = FALSE] \in Session
    BY <2>1, Zenon DEF Session
  <2> QED
    BY <1>1, <2>1, <2>2, <2>3 DEF Session
<1>2. CASE ~ s.conn
  BY <1>2, Zenon DEF Shut, Session
<1> QED
  BY <1>1, <1>2

(* ClientDisconnected keeps what giving up the connection kept.            *)
LEMMA DropClientGood ==
  ASSUME NEW s \in Session, Rested(s), s.rtc = "none" \/ s.open, Kept(Shut(s)),
         NEW t \in DropClient(s)
  PROVE  Good(t) /\ t.batch = s.batch /\ Fares(Shut(s), t)
<1> DEFINE x == Shut(s)
<1>1. /\ x \in Session /\ x.rtc = s.rtc /\ x.open = s.open /\ x.batch = s.batch
      /\ x.misused = s.misused /\ x.drained = s.drained /\ x.out = s.out
  BY ShutOps
<1>2. PICK u \in {x} \cup SendToPeer(x) : t = DropPeer(u)
  BY Zenon DEF DropClient, Shut
<1> HIDE DEF x
<1>3. Good(x) /\ (x.rtc = "none" \/ x.open)
  BY <1>1 DEF Good, Rested, x
<1>4. Good(u) /\ Fares(x, u) /\ u.batch = x.batch
  <2>1. CASE u = x
    BY <1>3, <2>1 DEF Good, Fares
  <2>2. CASE u \in SendToPeer(x)
    BY <1>1, <1>3, <2>2, SendToPeerGood, SendToPeerSame DEF Same
  <2> QED
    BY <2>1, <2>2
<1>5. /\ t \in Session /\ t.rtc = "none" /\ ~ t.route /\ t.conn = u.conn /\ t.batch = u.batch
      /\ t.held = {}
      /\ t.renet = u.renet /\ t.net = u.net /\ t.pending = u.pending
      /\ ~ t.drained /\ t.misused = u.misused
  BY <1>2, <1>4, DropPeerOps DEF Good
<1>6. Settles(u, t)
  <2>1. HasSlot(t) <=> HasSlot(u)
    BY <1>5 DEF HasSlot
  <2> QED
    BY <1>4, <1>5, <2>1, DropSettles DEF Good
<1>7. Fares(x, t)
  BY <1>4, <1>6, FaresCompose
<1> QED
  BY <1>1, <1>4, <1>5, <1>7 DEF Good, Rested, Fares, x

(* A queued departure: connected_client_ids now says what the rest of the  *)
(* queue announces.                                                        *)
LEMMA DepartureGood ==
  ASSUME NEW s, Good(s), s.batch # <<>>, Head(s.batch) = "disconnected",
         NEW t \in DropClient(Rest(s))
  PROVE  Good(t)
<1> DEFINE x == Rest(s)
           u == Shut(x)
<1>1. /\ x \in Session /\ Rested(x) /\ (x.rtc = "none" \/ x.open)
      /\ x.batch = Tail(s.batch) /\ x.pending = s.pending /\ x.net = s.net
      /\ x.rtc = s.rtc /\ x.open = s.open /\ x.conn = s.conn /\ x.renet = s.renet
      /\ x.held = s.held
  BY RestOps DEF Good
<1> HIDE DEF x
<1>2. /\ ~ u.conn /\ ~ u.route /\ u.renet = IF s.conn THEN "none" ELSE s.renet
      /\ u.batch = Tail(s.batch) /\ u.pending = s.pending /\ u.net = s.net
      /\ u.rtc = s.rtc /\ (u.rtc = "none" \/ u.open) /\ u.held = s.held
  BY <1>1, ShutOps
<1> HIDE DEF u
<1>3. /\ ~ Silent(s.batch)
      /\ LogsIn(s.batch) <=> LogsIn(u.batch)
      /\ Ordered(u.batch)
      /\ "payload" \in Range(u.batch) => "payload" \in Range(s.batch)
  <2>1. s.batch \in Seq(Results) /\ Ordered(s.batch)
    BY DEF Good, Session, Kept
  <2> QED
    BY <1>2, <2>1, TakeFirst DEF Lifecycle
<1>4. (HasSlot(u) <=> HasSlot(s)) /\ (Handled(u) <=> Handled(s)) /\ (Announced(u) <=> Announced(s))
  BY <1>2, <1>3 DEF HasSlot, Handled, Announced
<1>5. Feeds(u) => Feeds(s)
  BY <1>2, <1>3 DEF Feeds
<1>6. Kept(u)
  BY <1>2, <1>3, <1>4, <1>5, Zenon DEF Kept, Good
<1> QED
  BY <1>1, <1>6, DropClientGood DEF u, x

(* handle_server_result keeps the tables, whatever the result is.          *)
LEMMA HandleServerResultGood ==
  ASSUME NEW s, Good(s), s.batch # <<>>,
         NEW t \in HandleServerResult(Rest(s), Head(s.batch))
  PROVE  Good(t)
<1>1. Head(s.batch) \in Results
  <2>1. s.batch \in Seq(Results)
    BY DEF Good, Session
  <2> QED
    BY <2>1, TakeFirst, Zenon
<1>2. CASE Head(s.batch) = "packet"
  <2>1. Good(Rest(s)) /\ (Rest(s).rtc = "none" \/ Rest(s).open)
    BY <1>2, RestGood DEF Lifecycle
  <2>2. t = Rest(s) \/ t \in SendToPeer(Rest(s))
    BY <1>2 DEF HandleServerResult
  <2> QED
    BY <2>1, <2>2, SendToPeerGood
<1>3. CASE Head(s.batch) = "payload"
  <2>1. t = Rest(s)
    BY <1>3 DEF HandleServerResult
  <2> QED
    BY <1>3, <2>1, RestGood DEF Lifecycle
<1>4. CASE Head(s.batch) = "connected"
  <2>1. Rest(s).renet = s.renet
    BY RestOps DEF Good
  <2>2. t \in IF s.renet = "up" THEN RejectDuplicate(Rest(s)) ELSE AcceptClient(Rest(s))
    BY <1>4, <2>1 DEF HandleServerResult
  <2> QED
    BY <1>4, <2>2, RejectDuplicateGood, AcceptClientGood
<1>5. CASE Head(s.batch) = "disconnected"
  <2>1. t \in DropClient(Rest(s))
    BY <1>5 DEF HandleServerResult
  <2> QED
    BY <1>5, <2>1, DepartureGood
<1> QED
  BY <1>1, <1>2, <1>3, <1>4, <1>5 DEF Results

(* netcode_server.disconnect with its result handled at once, for a client *)
(* with no login and no taken results waiting.                             *)
LEMMA DisconnectClientGood ==
  ASSUME NEW s, Good(s), s.batch = <<>>, Calm(s), NEW t \in DisconnectClient(s)
  PROVE  Good(t) /\ t.batch = <<>> /\ Calm(t)
<1>1. CASE ~ HasSlot(s)
  BY <1>1 DEF DisconnectClient
<1>2. CASE HasSlot(s)
  <2> DEFINE x == Release(s)
             u == Shut(x)
  <2>1. /\ x \in Session /\ x.net = "free" /\ x.rtc = s.rtc /\ x.open = s.open
        /\ x.misused = s.misused /\ x.drained = s.drained /\ x.out = s.out
        /\ x.pending = s.pending /\ x.batch = <<>> /\ x.conn = s.conn /\ x.renet = s.renet
        /\ x.held = s.held
    BY <1>2, ReleaseOps DEF Good
  <2> HIDE DEF x
  <2>2. Rested(x) /\ (x.rtc = "none" \/ x.open)
    BY <1>2, <2>1, Zenon DEF Good, Kept, Rested
  <2>3. s.conn /\ Silent(s.pending) /\ ~ LogsIn(s.pending) /\ Ordered(s.pending)
    BY <1>2, EmptyQueue, Zenon DEF Good, Kept, Calm, Announced, Handled
  <2>4. /\ u \in Session /\ ~ u.conn /\ ~ u.route /\ u.renet = "none" /\ u.batch = <<>>
        /\ u.pending = s.pending /\ u.net = "free" /\ u.rtc = s.rtc /\ (u.rtc = "none" \/ u.open)
        /\ u.held = s.held
    BY <2>1, <2>2, <2>3, ShutOps, Zenon
  <2> HIDE DEF u
  <2>5. ~ HasSlot(u) /\ ~ Handled(u) /\ ~ Announced(u) /\ Calm(u)
    BY <2>3, <2>4, EmptyQueue DEF HasSlot, Handled, Announced, Calm
  <2>6. Kept(u)
    BY <2>3, <2>4, <2>5, EmptyQueue, Zenon DEF Kept, Good
  <2>7. t \in DropClient(x)
    BY <1>2 DEF DisconnectClient, x
  <2>8. Good(t) /\ t.batch = <<>> /\ Fares(u, t)
    BY <2>1, <2>2, <2>6, <2>7, DropClientGood DEF u
  <2> QED
    BY <2>4, <2>5, <2>8, Zenon DEF Fares
<1> QED
  BY <1>1, <1>2

-----------------------------------------------------------------------------
(* The steps of the loops, on the record of the client they visit.         *)

(* t differs from s in what Renet and the UDP transport know.              *)
Elsewhere(s, t) ==
    /\ t \in Session
    /\ t.rtc = s.rtc /\ t.out = s.out /\ t.misused = s.misused /\ t.drained = s.drained
    /\ t.open = s.open /\ t.route = s.route /\ t.held = s.held /\ t.deferred = s.deferred
    /\ t.net = s.net /\ t.conn = s.conn /\ t.pending = s.pending /\ t.batch = s.batch

(* Between batches a connection may come and go in Renet as long as no     *)
(* untracked client has payloads.                                          *)
LEMMA ElsewhereGood ==
  ASSUME NEW s, Good(s), s.batch = <<>>, NEW t, Elsewhere(s, t),
         t.renet = "none" \/ (Feeds(s) => s.conn)
  PROVE  Good(t) /\ t.batch = <<>> /\ (Feeds(t) => Feeds(s)) /\ t.conn = s.conn
<1>1. Silent(s.batch) /\ ~ LogsIn(s.batch)
  BY EmptyQueue
<1>2. /\ HasSlot(t) <=> HasSlot(s)
      /\ Handled(t) <=> Handled(s)
      /\ Announced(t) <=> Announced(s)
      /\ Feeds(t) <=> Feeds(s)
  BY DEF Elsewhere, HasSlot, Handled, Announced, Feeds
<1>3. Announced(s) /\ ~ s.conn => LogsIn(s.pending)
  BY <1>1 DEF Announced, Handled
<1>4. Kept(t)
  BY <1>2, <1>3, Zenon DEF Kept, Good, Elsewhere
<1>5. Rested(t) /\ t \in Session
  BY DEF Rested, Good, Elsewhere
<1> QED
  BY <1>2, <1>4, <1>5 DEF Good, Elsewhere

(* The steps of RenetServer and of the UDP transport are such.             *)
LEMMA ElsewhereOps ==
  ASSUME NEW s \in Session
  PROVE  /\ Elsewhere(s, s)
         /\ Elsewhere(s, [s EXCEPT !.renet = "closing"])
         /\ Elsewhere(s, UdpConnected(s))
         /\ Elsewhere(s, UdpDisconnected(s)) /\ UdpDisconnected(s).renet = "none"
         /\ Elsewhere(s, Removal(s)) /\ (Removal(s) = s \/ Removal(s).renet = "none")
<1>1. Elsewhere(s, s)
  BY DEF Elsewhere
<1>2. Elsewhere(s, [s EXCEPT !.renet = "closing"])
  BY Zenon DEF Elsewhere, Session
<1>3. Elsewhere(s, UdpConnected(s))
  <2> DEFINE u == [s EXCEPT !.udp = TRUE]
  <2>1. Elsewhere(s, [s EXCEPT !.udp = FALSE])
    BY Zenon DEF Elsewhere, Session
  <2>2. Elsewhere(s, u)
    BY Zenon DEF Elsewhere, Session
  <2> HIDE DEF u
  <2>3. Elsewhere(u, AddConnection(u, "udp"))
    BY <2>2, ConnectionOps, Zenon DEF Elsewhere, Beside
  <2>4. Elsewhere(s, AddConnection(u, "udp"))
    BY Zenon, <2>2, <2>3 DEF Elsewhere
  <2> QED
    BY <2>1, <2>2, <2>4 DEF UdpConnected, u
<1>4. Elsewhere(s, UdpDisconnected(s)) /\ UdpDisconnected(s).renet = "none"
  <2> DEFINE u == [s EXCEPT !.udp = FALSE]
  <2>1. Elsewhere(s, u)
    BY Zenon DEF Elsewhere, Session
  <2> HIDE DEF u
  <2>2. Elsewhere(u, RemoveConnection(u)) /\ RemoveConnection(u).renet = "none"
    BY <2>1, ConnectionOps, Zenon DEF Elsewhere, Beside
  <2> QED
    BY <2>1, <2>2 DEF UdpDisconnected, Elsewhere, u
<1>5. Elsewhere(s, Removal(s)) /\ (Removal(s) = s \/ Removal(s).renet = "none")
  <2> DEFINE u == [s EXCEPT !.removal = FALSE]
  <2>1. Elsewhere(s, u)
    BY Zenon DEF Elsewhere, Session
  <2> HIDE DEF u
  <2>2. Elsewhere(u, RemoveConnection(u)) /\ RemoveConnection(u).renet = "none"
    BY <2>1, ConnectionOps, Zenon DEF Elsewhere, Beside
  <2>3. Removal(s) = s \/ Removal(s) = RemoveConnection(u)
    BY DEF Removal, u
  <2> QED
    BY <1>1, <2>1, <2>2, <2>3 DEF Elsewhere
<1> QED
  BY <1>1, <1>2, <1>3, <1>4, <1>5

(* A scheduled removal is carried out between batches.                     *)
LEMMA RemovalGood ==
  ASSUME NEW s, Good(s), s.batch = <<>>
  PROVE  Good(Removal(s)) /\ Removal(s).batch = <<>>
<1>1. s \in Session
  BY DEF Good
<1>2. Elsewhere(s, Removal(s)) /\ (Removal(s) = s \/ Removal(s).renet = "none")
  BY <1>1, ElsewhereOps, Zenon
<1> QED
  BY <1>2, ElsewhereGood

(* mem::take moves the queue into the batch; what is announced stays.      *)
LEMMA TakeResultsGood ==
  ASSUME NEW s, Good(s), s.batch = <<>>
  PROVE  Good([s EXCEPT !.batch = @ \o s.pending, !.pending = <<>>])
<1> DEFINE q == s.batch \o s.pending
           t == [s EXCEPT !.batch = q, !.pending = <<>>]
<1>1. s \in Session /\ s.pending \in Seq(Results) /\ q = s.pending /\ <<>> \in Seq(Results)
  BY DEF Good, Session
<1> HIDE DEF q
<1>2. t \in Session
  BY Zenon, <1>1 DEF Session
<1>3. /\ t.batch = s.pending /\ t.pending = <<>> /\ t.rtc = s.rtc /\ t.out = s.out
      /\ t.misused = s.misused /\ t.drained = s.drained /\ t.open = s.open
      /\ t.route = s.route /\ t.held = s.held /\ t.deferred = s.deferred
      /\ t.net = s.net /\ t.conn = s.conn /\ t.renet = s.renet
  BY <1>1 DEF Session
<1> HIDE DEF t
<1>4. /\ Silent(t.pending) /\ ~ LogsIn(t.pending) /\ Ordered(t.pending) /\ ~ Opens(t.pending)
      /\ "payload" \notin Range(t.pending)
      /\ Silent(s.batch) /\ ~ LogsIn(s.batch) /\ "payload" \notin Range(s.batch)
  BY <1>3, EmptyQueue
<1>5. (HasSlot(t) <=> HasSlot(s)) /\ (Feeds(t) <=> Feeds(s))
  BY <1>3, <1>4 DEF HasSlot, Feeds
<1>6. (Handled(s) <=> s.conn) /\ (Announced(t) <=> Announced(s))
  BY <1>3, <1>4 DEF Handled, Announced
<1>7. Announced(s) /\ ~ s.conn => LogsIn(s.pending)
  BY <1>6 DEF Announced
<1>8. Kept(t)
  BY <1>3, <1>4, <1>5, <1>6, <1>7, Zenon DEF Kept, Good
<1>9. Rested(t)
  BY <1>3 DEF Rested, Good
<1> QED
  BY <1>2, <1>8, <1>9 DEF Good, t, q

(* A flush keeps a record that is good but for the rest of its Rtc.        *)
LEMMA FlushGood ==
  ASSUME NEW s \in Session, Kept(s), ~ s.misused, s.rtc = "none" => Rested(s),
         NEW t \in FlushPeerOutput(s)
  PROVE  Good(t) /\ t.batch = s.batch /\ t.conn = s.conn /\ (Feeds(t) => Feeds(s))
  BY FlushFares, FlushRests, FlushPeerOutputSame DEF Good, Fares, Same

(* An input that is given to a drained Rtc, or kills it, and the flush     *)
(* after it.                                                               *)
LEMMA InputGood ==
  ASSUME NEW s, Good(s), s.drained, s.rtc # "none",
         NEW u, u = Kill(s) \/ \E o \in Outputs : u = Mutate(s, o),
         NEW t \in FlushPeerOutput(u)
  PROVE  Good(t) /\ t.batch = s.batch /\ t.conn = s.conn /\ (Feeds(t) => Feeds(s))
<1>0. s \in Session /\ Kept(s) /\ Rested(s)
  BY DEF Good
<1>1. u \in Session /\ Alike(s, u) /\ ~ u.misused /\ u.rtc # "none"
  <2>1. CASE u = Kill(s)
    <3>1. Alike(s, Kill(s))
      BY <1>0 DEF Alike, Kill, Session
    <3> QED
      BY <1>0, <2>1, <3>1, KillOps DEF Rested
  <2>2. CASE \E o \in Outputs : u = Mutate(s, o)
    BY <1>0, <2>2, MutateAlike
  <2> QED
    BY <2>1, <2>2
<1>2. Kept(u) /\ (Feeds(u) => Feeds(s))
  BY <1>0, <1>1, AlikeSettles DEF Settles
<1>3. u.batch = s.batch /\ u.conn = s.conn
  BY <1>1 DEF Alike
<1> QED
  BY <1>1, <1>2, <1>3, FlushGood

(* One datagram of route_socket_input_to_peers.                            *)
LEMMA DatagramGood ==
  ASSUME NEW s, Good(s), s.rtc # "none", NEW t \in Datagram(s)
  PROVE  Good(t) /\ t.batch = s.batch /\ t.conn = s.conn /\ (Feeds(t) => Feeds(s))
<1>1. CASE ~ s.drained
  BY <1>1, FlushGood DEF Datagram, Good, Rested
<1>2. CASE s.drained
  <2>1. PICK u \in {Kill(s)} \cup {Mutate(s, o) : o \in Outputs} : t \in FlushPeerOutput(u)
    BY <1>2 DEF Datagram
  <2> QED
    BY <1>2, <2>1, InputGood
<1> QED
  BY <1>1, <1>2

(* One peer of pump_peers.                                                 *)
LEMMA PumpPeerGood ==
  ASSUME NEW s, Good(s), NEW t \in PumpPeer(s)
  PROVE  Good(t) /\ t.batch = s.batch
<1>0. PICK u \in FlushPeerOutput(s) :
             \E v \in {u} \cup (IF u.rtc = "alive" /\ u.drained
                                THEN {Kill(u)} \cup {Mutate(u, o) : o \in {"transmit", "lost"}}
                                ELSE {}) :
                t \in FlushPeerOutput(v)
  BY DEF PumpPeer
<1>1. PICK v \in {u} \cup (IF u.rtc = "alive" /\ u.drained
                           THEN {Kill(u)} \cup {Mutate(u, o) : o \in {"transmit", "lost"}}
                           ELSE {}) :
             t \in FlushPeerOutput(v)
  BY <1>0
<1>2. Good(u) /\ u.batch = s.batch
  BY FlushGood DEF Good, Rested
<1>3. CASE v = u
  BY <1>1, <1>2, <1>3, FlushGood DEF Good, Rested
<1>4. CASE /\ u.rtc = "alive" /\ u.drained
           /\ v = Kill(u) \/ \E o \in {"transmit", "lost"} : v = Mutate(u, o)
  <2>1. {"transmit", "lost"} \subseteq Outputs
    BY DEF Outputs, Events
  <2> QED
    BY <1>1, <1>2, <1>4, <2>1, InputGood
<1> QED
  BY <1>1, <1>3, <1>4

(* One packet of the outgoing queue of the gate.                           *)
LEMMA DrainOutgoingGood ==
  ASSUME NEW s, Good(s), s.deferred,
         NEW t \in {[s EXCEPT !.deferred = FALSE]} \cup
                   SendToPeerBackend([s EXCEPT !.deferred = FALSE])
  PROVE  Good(t) /\ t.batch = s.batch
<1> DEFINE u == [s EXCEPT !.deferred = FALSE]
<1>0. s \in Session /\ Kept(s) /\ Rested(s)
  BY DEF Good
<1>1. s.rtc # "none" => s.open
  BY DEF Good, Kept
<1>2. u \in Session /\ Alike(s, u) /\ Rested(u) /\ u.batch = s.batch
  <2>1. u \in Session
    BY <1>0, Zenon DEF Session
  <2> QED
    BY <1>0, <1>1, <2>1 DEF Session, Alike, Rested
<1> HIDE DEF u
<1>3. Kept(u)
  BY <1>0, <1>2, AlikeSettles DEF Settles
<1>4. CASE t = u
  BY <1>2, <1>3, <1>4 DEF Good
<1>5. CASE t \in SendToPeerBackend(u)
  BY <1>2, <1>3, <1>5, SendToPeerBackendFares, SendToPeerBackendSame DEF Good, Fares, Same
<1> QED
  BY <1>4, <1>5 DEF u

(* One packet of the incoming queue of the gate, and the removals after    *)
(* it.                                                                     *)
LEMMA ConditionedPacketGood ==
  ASSUME NEW s, Good(s), s.batch = <<>>, NEW p \in s.held, NEW t \in ConditionedPacket(s, p)
  PROVE  Good(t)
<1> DEFINE u == [s EXCEPT !.held = @ \ {p}]
<1>0. s \in Session /\ Kept(s) /\ Rested(s) /\ p \in Packets
  BY DEF Good, Session
<1>1. s.rtc # "none" /\ s.open
  BY DEF Good, Kept
<1>2. u \in Session /\ Alike(s, u) /\ u.rtc = s.rtc /\ u.open = s.open /\ u.misused = s.misused
      /\ u.batch = s.batch
  <2>1. u \in Session
    BY Zenon, <1>0 DEF Session
  <2> QED
    BY <1>0, <1>1, <2>1, Zenon DEF Session, Alike
<1>3. PICK d \in ProcessPeerPacket(u, p) :
             \E v \in FlushPeerOutput(Queued(d[1], d[2])) : t = Removal(v)
  BY Zenon DEF ConditionedPacket
<1> HIDE DEF u
<1>4. Kept(u)
  BY <1>0, <1>2, AlikeSettles DEF Settles
<1> DEFINE q == Queued(d[1], d[2])
<1>5. q \in Session /\ Fares(u, q)
  BY <1>0, <1>1, <1>2, <1>4, PacketFares, Zenon
<1>6. ~ q.misused /\ q.rtc # "none" /\ q.batch = <<>>
  <2>1. p \in Events /\ p # "open" /\ p # "lost"
    BY <1>0 DEF Events, Packets
  <2>2. d \in HandlePeerEvent(u, p)
    BY <1>1, <1>2, <2>1 DEF HandlePeerEvent
  <2>3. PICK w \in Session, r \in Results \cup {"none"} :
               d = <<w, r>> /\ Same(u, w) /\ Steady(u, w)
    BY <1>1, <1>2, <2>1, <2>2, EventSteady, Zenon
  <2>4. q = Queued(w, r)
    BY <2>3
  <2>5. q.misused = w.misused /\ q.rtc = w.rtc /\ q.batch = w.batch
    BY <2>4 DEF Queued, Session
  <2> QED
    BY <1>0, <1>2, <2>3, <2>5 DEF Steady, Same, Rested
<1> HIDE DEF q
<1>7. PICK v \in FlushPeerOutput(q) : t = Removal(v)
  BY <1>3 DEF q
<1>8. Good(v) /\ v.batch = <<>>
  BY <1>5, <1>6, FlushGood DEF Fares
<1> QED
  BY <1>7, <1>8, RemovalGood

-----------------------------------------------------------------------------
(* What the invariant says of one client.                                  *)
LEMMA AtRecord ==
  ASSUME TablesInv, NEW c \in Clients
  PROVE  /\ Good(session[c]) /\ Timely(Phase, c \in todo, session[c])
         /\ Phase \notin {"results", "incoming", "routed", "take"} => session[c].batch = <<>>
         /\ call = "idle" => Phase = "idle"
<1>1. session[c] \in Session
  BY DEF TablesInv, TypeOK
<1>2. Good(session[c]) /\ Timely(Phase, c \in todo, session[c])
  BY <1>1 DEF TablesInv, Good
<1>3. call = "idle" => Phase = "idle"
  BY DEF TablesInv, TypeOK, Phase, Program
<1> QED
  BY <1>2, <1>3 DEF Timely

(* A step that rewrites the record of one client keeps the invariant if    *)
(* the new record is good and in time.                                     *)
LEMMA TablesStep ==
  ASSUME TablesInv, NEW c \in Clients, NEW S, Becomes(c, S),
         call' = call, pc' = pc, seen' \in [Clients -> 0 .. Quota],
         NEW waiting \in BOOLEAN,
         todo' = IF waiting THEN todo ELSE todo \ {c}, waiting <=> c \in todo',
         \A t \in S : Good(t) /\ Timely(Phase, waiting, t)
  PROVE  TablesInv'
<1>1. PICK t \in S : session' = [session EXCEPT ![c] = t]
  BY Zenon DEF Becomes
<1>2. session \in [Clients -> Session] /\ todo \subseteq Clients
  BY DEF TablesInv, TypeOK
<1>3. t \in Session /\ Good(t) /\ Timely(Phase, waiting, t)
  BY DEF Good
<1>4. Phase' = Phase
  BY DEF Phase
<1>5. TypeOK'
  BY <1>1, <1>2, <1>3 DEF TablesInv, TypeOK
<1>6. ASSUME NEW d \in Clients
      PROVE  Good(session'[d]) /\ Timely(Phase', d \in todo', session'[d])
  <2>1. CASE d = c
    <3>1. session'[d] = t /\ (d \in todo') = waiting
      BY <1>1, <1>2, <2>1
    <3> QED
      BY <1>3, <1>4, <3>1
  <2>2. CASE d # c
    <3>1. session'[d] = session[d] /\ (d \in todo') = (d \in todo)
      BY <1>1, <1>2, <2>2
    <3>2. Good(session[d]) /\ Timely(Phase, d \in todo, session[d])
      BY AtRecord
    <3> QED
      BY <1>4, <3>1, <3>2
  <2> QED
    BY <2>1, <2>2
<1> QED
  BY <1>5, <1>6 DEF TablesInv, Good

(* A loop goes on to the next client, with any client left as it was.      *)
LEMMA VisitStep ==
  ASSUME TablesInv, NEW c \in Clients, NEW S, Becomes(c, S), Visited(c),
         \A t \in S : Good(t) /\ Timely(Phase, FALSE, t)
  PROVE  TablesInv'
<1>1. /\ call' = call /\ pc' = pc /\ todo' = todo \ {c} /\ c \notin todo'
      /\ seen' \in [Clients -> 0 .. Quota]
  BY DEF Visited, TablesInv, TypeOK
<1>2. PICK waiting \in BOOLEAN : waiting = FALSE
  BY Zenon
<1>3. /\ todo' = IF waiting THEN todo ELSE todo \ {c}
      /\ waiting <=> c \in todo'
  BY <1>1, <1>2
<1>4. \A t \in S : Good(t) /\ Timely(Phase, waiting, t)
  BY Zenon, <1>2
<1> QED
  BY Zenon, <1>1, <1>3, <1>4, TablesStep

(* A loop stays with the client it is visiting.                            *)
LEMMA RepeatStep ==
  ASSUME TablesInv, NEW c \in Clients, NEW S, Becomes(c, S), c \in todo,
         Repeat \/ (UNCHANGED <<call, pc, todo>>
                    /\ seen' = [seen EXCEPT ![c] = @ + 1] /\ seen[c] < Quota),
         \A t \in S : Good(t) /\ Timely(Phase, TRUE, t)
  PROVE  TablesInv'
<1>1. call' = call /\ pc' = pc /\ todo' = todo
  BY DEF Repeat
<1>2. seen' \in [Clients -> 0 .. Quota]
  <2>1. seen \in [Clients -> 0 .. Quota] /\ Quota \in Nat
    BY ConstantTypes DEF TablesInv, TypeOK
  <2> QED
    BY <2>1 DEF Repeat
<1>3. PICK waiting \in BOOLEAN : waiting = TRUE
  BY Zenon
<1>4. /\ todo' = IF waiting THEN todo ELSE todo \ {c}
      /\ waiting <=> c \in todo'
  BY <1>1, <1>3
<1>5. \A t \in S : Good(t) /\ Timely(Phase, waiting, t)
  BY Zenon, <1>3
<1> QED
  BY Zenon, <1>1, <1>2, <1>4, <1>5, TablesStep

(* A loop goes on to the next client, stays with this one or counts one    *)
(* datagram of its peer; between calls nothing is visited.                 *)
Loops(c) ==
    \/ Visited(c)
    \/ Repeat
    \/ /\ UNCHANGED <<call, pc, todo>>
       /\ seen' = [seen EXCEPT ![c] = @ + 1] /\ seen[c] < Quota

(* The loops that neither handle results nor disconnect clients only have  *)
(* to leave no batch, and the ones around UDP no untracked payloads.       *)
LEMMA PlainStep ==
  ASSUME TablesInv, NEW c \in Clients, NEW S, Becomes(c, S),
         Loops(c),
         Phase \notin {"results", "incoming", "routed", "take",
                       "update_clients", "disconnect_all", "disconnections"},
         \A t \in S : /\ Good(t) /\ t.batch = <<>>
                      /\ Phase \in UdpPhases \cup {"idle", "route"} => (Feeds(t) => t.conn)
  PROVE  TablesInv'
<1>1. call' = call /\ pc' = pc /\ (todo' = todo \/ todo' = todo \ {c})
  BY DEF Loops, Visited, Repeat
<1>2. seen' \in [Clients -> 0 .. Quota]
  <2>1. seen \in [Clients -> 0 .. Quota] /\ Quota \in Nat
    BY ConstantTypes DEF TablesInv, TypeOK
  <2>2. CASE seen' = seen
    BY <2>1, <2>2
  <2>3. CASE seen' = [seen EXCEPT ![c] = @ + 1] /\ seen[c] < Quota
    BY <2>1, <2>3
  <2> QED
    BY <2>2, <2>3 DEF Loops, Visited, Repeat
<1>3. PICK waiting \in BOOLEAN : waiting <=> c \in todo'
  BY Zenon
<1>4. todo' = IF waiting THEN todo ELSE todo \ {c}
  BY <1>1, <1>3
<1>5. \A t \in S : Good(t) /\ Timely(Phase, waiting, t)
  BY DEF Timely
<1> QED
  BY Zenon, <1>1, <1>2, <1>3, <1>4, <1>5, TablesStep

(* PlainStep for a deterministic step.                                     *)
LEMMA PlainStepOne ==
  ASSUME TablesInv, NEW c \in Clients, NEW t, Becomes(c, {t}), Visited(c) \/ Repeat,
         Phase \notin {"results", "incoming", "routed", "take",
                       "update_clients", "disconnect_all", "disconnections"},
         Good(t), t.batch = <<>>,
         Phase \in UdpPhases \cup {"idle", "route"} => (Feeds(t) => t.conn)
  PROVE  TablesInv'
<1>1. PICK S : S = {t} /\ Becomes(c, S)
  OBVIOUS
<1>2. \A u \in S : /\ Good(u) /\ u.batch = <<>>
                   /\ Phase \in UdpPhases \cup {"idle", "route"} => (Feeds(u) => u.conn)
  BY Zenon, <1>1
<1> QED
  BY Zenon, <1>1, <1>2, PlainStep DEF Loops

(* add_peer, remove_peer and a disconnect request keep the tables.         *)
LEMMA ApplicationStepKeepsTables ==
  ASSUME TablesInv, NEW c \in Clients, ApplicationStep(c)
  PROVE  TablesInv'
<1> DEFINE s == session[c]
<1>1. call = "idle" /\ Repeat
  BY DEF ApplicationStep, AddPeerCall, RemovePeerCall, ServerDisconnect
<1>2. Phase = "idle" /\ Good(s) /\ s.batch = <<>> /\ (Feeds(s) => s.conn)
  BY <1>1, AtRecord DEF Timely
<1>3. s \in Session /\ ~ s.misused /\ Ordered(s.batch)
  BY <1>2 DEF Good, Kept, Rested
<1> HIDE DEF s
<1>4. CASE AddPeerCall(c)
  <2>1. Becomes(c, {AddPeer(s)})
    BY <1>4 DEF AddPeerCall, s
  <2>2. Good(AddPeer(s)) /\ ~ Feeds(AddPeer(s)) /\ AddPeer(s).batch = <<>>
    BY Zenon, <1>2, <1>3, AddPeerGood
  <2> QED
    BY <1>1, <1>2, <2>1, <2>2, PlainStepOne
<1>5. CASE RemovePeerCall(c)
  <2>1. Becomes(c, {RemovePeer(s)})
    BY <1>5 DEF RemovePeerCall, s
  <2>2. Good(RemovePeer(s)) /\ ~ Feeds(RemovePeer(s)) /\ RemovePeer(s).batch = <<>>
    BY Zenon, <1>2, <1>3, RemovePeerGood
  <2> QED
    BY <1>1, <1>2, <2>1, <2>2, PlainStepOne
<1>6. CASE ServerDisconnect(c)
  <2> DEFINE t == [s EXCEPT !.renet = "closing"]
  <2>1. Becomes(c, {t})
    BY <1>6 DEF ServerDisconnect, s
  <2>2. Elsewhere(s, t)
    BY Zenon, <1>3, ElsewhereOps
  <2> HIDE DEF t
  <2>3. Good(t) /\ t.batch = <<>> /\ (Feeds(t) => t.conn)
    BY <1>2, <2>2, ElsewhereGood
  <2> QED
    BY <1>1, <1>2, <2>1, <2>3, PlainStepOne
<1> QED
  BY <1>4, <1>5, <1>6 DEF ApplicationStep

(* No loop of the UDP transport touches the tables, and the connections it *)
(* adds are under ids for which no untracked payload is queued.            *)
LEMMA UdpStepKeepsTables ==
  ASSUME TablesInv, NEW c \in Clients, UdpStep(c)
  PROVE  TablesInv'
<1> DEFINE s == session[c]
<1>1. Phase \in UdpPhases
  BY DEF UdpStep, UdpReceive, UdpUpdateClient, UdpDisconnection, UdpDisconnectAll,
         Visiting, UdpPhases
<1>2. Good(s) /\ s.batch = <<>> /\ (Feeds(s) => s.conn)
  BY <1>1, AtRecord DEF Timely, UdpPhases
<1>3. s \in Session
  BY <1>2 DEF Good
<1> HIDE DEF s
<1>4. PICK S : S \subseteq {s, UdpConnected(s), UdpDisconnected(s)} /\ Becomes(c, S)
  BY DEF UdpStep, UdpReceive, UdpUpdateClient, UdpDisconnection, UdpDisconnectAll, s
<1>5. \A t \in S : Elsewhere(s, t)
  BY Zenon, <1>3, <1>4, ElsewhereOps
<1>6. \A t \in S : Good(t) /\ t.batch = <<>> /\ (Feeds(t) => t.conn)
  BY <1>2, <1>5, ElsewhereGood
<1>7. Loops(c)
  BY DEF Loops, UdpStep, UdpReceive, UdpUpdateClient, UdpDisconnection, UdpDisconnectAll
<1>8. Phase \notin {"results", "incoming", "routed", "take",
                    "update_clients", "disconnect_all", "disconnections"}
  BY <1>1 DEF UdpPhases
<1> QED
  BY Zenon, <1>4, <1>6, <1>7, <1>8, PlainStep

(* The loops of apply_pending_results, of the delayed packets and of the   *)
(* results of the socket keep the tables.                                  *)
LEMMA ResultStepKeepsTables ==
  ASSUME TablesInv, NEW c \in Clients,
         TakeResults(c) \/ HandleResult(c) \/ ResultsHandled(c) \/ DrainIncoming(c)
  PROVE  TablesInv'
<1> DEFINE s == session[c]
<1>1. Good(s) /\ Timely(Phase, c \in todo, s)
  BY AtRecord
<1> HIDE DEF s
<1>2. CASE TakeResults(c)
  <2> DEFINE t == [s EXCEPT !.batch = @ \o s.pending, !.pending = <<>>]
  <2>1. c \in todo /\ s.batch = <<>> /\ Becomes(c, {t})
    BY <1>2 DEF TakeResults, s
  <2>2. Good(t)
    BY Zenon, <1>1, <2>1, TakeResultsGood
  <2>3. PICK S : S = {t} /\ Becomes(c, S)
    BY Zenon, <2>1
  <2>4. t.pending = <<>>
    BY <1>1 DEF Good, Session
  <2> HIDE DEF t
  <2>5. CASE Phase \in {"results", "incoming"} /\ Repeat
    <3>1. \A u \in S : Good(u) /\ Timely(Phase, TRUE, u)
      BY <2>2, <2>3, <2>5 DEF Timely, UdpPhases
    <3> QED
      BY Zenon, <2>1, <2>3, <2>5, <3>1, RepeatStep
  <2>6. CASE Phase = "take" /\ Visited(c)
    <3>1. \A u \in S : Good(u) /\ Timely(Phase, FALSE, u)
      BY <2>2, <2>3, <2>6 DEF Timely, UdpPhases
    <3> QED
      BY Zenon, <2>3, <2>6, <3>1, VisitStep
  <2> QED
    BY <1>2, <2>5, <2>6 DEF TakeResults
<1>3. CASE HandleResult(c)
  <2> DEFINE S == HandleServerResult(Rest(s), Head(s.batch))
  <2>1. /\ c \in todo /\ Phase \in {"results", "incoming", "routed"}
        /\ s.batch # <<>> /\ Repeat /\ Becomes(c, S)
    BY <1>3 DEF HandleResult, Rest, s
  <2>2. \A t \in S : Good(t)
    BY Zenon, <1>1, <2>1, HandleServerResultGood
  <2> HIDE DEF S
  <2>3. \A t \in S : Good(t) /\ Timely(Phase, TRUE, t)
    BY <2>1, <2>2 DEF Timely, UdpPhases
  <2> QED
    BY Zenon, <2>1, <2>3, RepeatStep
<1>4. CASE ResultsHandled(c)
  <2>1. /\ c \in todo /\ s.batch = <<>> /\ Visited(c)
        /\ \/ Phase \in {"results", "incoming"} /\ s.pending = <<>>
           \/ Phase = "routed"
    BY <1>4 DEF ResultsHandled, s
  <2>2. session = [session EXCEPT ![c] = s]
    BY DEF TablesInv, TypeOK, s
  <2>3. PICK S : S = {s} /\ Becomes(c, S)
    BY <1>4, <2>2, Zenon DEF ResultsHandled, Becomes
  <2>4. \A t \in S : Good(t) /\ Timely(Phase, FALSE, t)
    BY <1>1, <2>1, <2>3 DEF Timely, UdpPhases
  <2> QED
    BY Zenon, <2>1, <2>3, <2>4, VisitStep
<1>5. CASE DrainIncoming(c)
  <2>1. /\ c \in todo /\ Phase = "incoming" /\ s.batch = <<>> /\ Repeat
        /\ \E p \in s.held : Becomes(c, ConditionedPacket(s, p))
    BY <1>5 DEF DrainIncoming, Visiting, s
  <2>2. PICK p \in s.held : Becomes(c, ConditionedPacket(s, p))
    BY <2>1
  <2>3. PICK S : S = ConditionedPacket(s, p)
    OBVIOUS
  <2>4. \A t \in S : Good(t)
    BY Zenon, <1>1, <2>1, <2>3, ConditionedPacketGood
  <2>5. \A t \in S : Good(t) /\ Timely(Phase, TRUE, t)
    BY <2>1, <2>4 DEF Timely, UdpPhases
  <2> QED
    BY Zenon, <2>1, <2>2, <2>3, <2>5, RepeatStep
<1> QED
  BY <1>2, <1>3, <1>4, <1>5

(* disconnect_all clears the peers and their routes.                       *)
LEMMA DropPeerGood ==
  ASSUME NEW s, Good(s)
  PROVE  Good(DropPeer(s)) /\ DropPeer(s).batch = s.batch
<1> DEFINE t == DropPeer(s)
<1>1. s \in Session /\ Kept(s) /\ Rested(s)
  BY DEF Good
<1>2. /\ t \in Session /\ t.rtc = "none" /\ ~ t.route /\ ~ t.drained /\ t.held = {}
      /\ t.misused = s.misused /\ t.net = s.net /\ t.conn = s.conn
      /\ t.pending = s.pending /\ t.batch = s.batch /\ t.renet = s.renet
  BY <1>1, DropPeerOps
<1> HIDE DEF t
<1>3. HasSlot(t) <=> HasSlot(s)
  BY <1>2 DEF HasSlot
<1>4. Settles(s, t)
  BY <1>1, <1>2, <1>3, DropSettles
<1>5. Kept(t)
  BY <1>4 DEF Settles, Fares
<1>6. Rested(t)
  BY <1>1, <1>2 DEF Rested
<1>7. Good(t) /\ t.batch = s.batch
  BY <1>2, <1>5, <1>6 DEF Good
<1> QED
  BY Zenon, <1>7 DEF t

(* The loops over the peers keep the tables.                               *)
LEMMA PeerStepKeepsTables ==
  ASSUME TablesInv, NEW c \in Clients,
         DrainRemoval(c) \/ DrainOutgoing(c) \/ FlushOutput(c) \/ RouteSocketInput(c)
            \/ Pump(c) \/ SendPackets(c) \/ ClearPeers(c)
  PROVE  TablesInv'
<1> DEFINE s == session[c]
<1>1. Phase \in {"removals", "outgoing", "flush", "route", "pump", "send", "clear"}
  BY DEF DrainRemoval, DrainOutgoing, FlushOutput, RouteSocketInput, Pump, SendPackets,
         ClearPeers, Visiting
<1>2. /\ Good(s) /\ s.batch = <<>> /\ s \in Session
      /\ Phase = "route" => (Feeds(s) => s.conn)
  BY <1>1, AtRecord DEF Timely, Good
<1>3. Phase \notin {"results", "incoming", "routed", "take",
                    "update_clients", "disconnect_all", "disconnections"}
  BY <1>1
<1>4. Phase \in UdpPhases \cup {"idle", "route"} => Phase = "route"
  BY <1>1 DEF UdpPhases
<1>5. ASSUME NEW S, Becomes(c, S), Visited(c), Phase # "route",
             \A t \in S : Good(t) /\ t.batch = <<>>
      PROVE  TablesInv'
  BY <1>3, <1>4, <1>5, PlainStep DEF Loops
<1> HIDE DEF s
<1>6. CASE DrainRemoval(c)
  <2>1. Becomes(c, {Removal(s)}) /\ Visited(c) /\ Phase = "removals"
    BY <1>6 DEF DrainRemoval, Visiting, s
  <2>2. Good(Removal(s)) /\ Removal(s).batch = <<>>
    BY Zenon, <1>2, RemovalGood
  <2>3. PICK S : S = {Removal(s)} /\ Becomes(c, S)
    BY <2>1
  <2>4. \A t \in S : Good(t) /\ t.batch = <<>>
    BY Zenon, <2>2, <2>3
  <2> QED
    BY <1>5, <2>1, <2>3, <2>4
<1>7. CASE DrainOutgoing(c)
  <2> DEFINE sent == {[s EXCEPT !.deferred = FALSE]} \cup
                     SendToPeerBackend([s EXCEPT !.deferred = FALSE])
             S == {s} \cup (IF s.deferred THEN sent ELSE {})
  <2>1. Becomes(c, S) /\ Visited(c) /\ Phase = "outgoing"
    BY <1>7 DEF DrainOutgoing, Visiting, s
  <2>2. s.deferred => \A t \in sent : Good(t) /\ t.batch = <<>>
    BY Zenon, <1>2, DrainOutgoingGood
  <2> HIDE DEF sent
  <2>3. \A t \in S : Good(t) /\ t.batch = <<>>
    BY Zenon, <1>2, <2>2
  <2> HIDE DEF S
  <2> QED
    BY <1>5, <2>1, <2>3
<1>8. CASE FlushOutput(c)
  <2>1. Becomes(c, FlushPeerOutput(s)) /\ Visited(c) /\ Phase = "flush"
    BY <1>8 DEF FlushOutput, Visiting, s
  <2>2. \A t \in FlushPeerOutput(s) : Good(t) /\ t.batch = <<>>
    BY <1>2, FlushGood DEF Good, Rested
  <2> QED
    BY <1>5, <2>1, <2>2
<1>9. CASE RouteSocketInput(c)
  <2>1. Becomes(c, Datagram(s)) /\ Phase = "route" /\ s.rtc # "none" /\ Loops(c)
    BY <1>9 DEF RouteSocketInput, Visiting, Loops, s
  <2>2. \A t \in Datagram(s) : Good(t) /\ t.batch = <<>> /\ (Feeds(t) => t.conn)
    BY <1>2, <2>1, DatagramGood
  <2>3. PICK S : S = Datagram(s)
    OBVIOUS
  <2> QED
    BY Zenon, <1>3, <2>1, <2>2, <2>3, PlainStep
<1>10. CASE Pump(c)
  <2>1. Becomes(c, PumpPeer(s)) /\ Visited(c) /\ Phase = "pump"
    BY <1>10 DEF Pump, Visiting, s
  <2>2. \A t \in PumpPeer(s) : Good(t) /\ t.batch = <<>>
    BY <1>2, PumpPeerGood
  <2> QED
    BY <1>5, <2>1, <2>2, Zenon
<1>11. CASE SendPackets(c)
  <2>1. PICK S : S \subseteq {s} \cup {t \in SendToPeer(s) : HasSlot(s)} /\ Becomes(c, S)
    BY <1>11 DEF SendPackets, s
  <2>2. Visited(c) /\ Phase = "send"
    BY <1>11 DEF SendPackets, Visiting
  <2>3. HasSlot(s) => s.rtc = "none" \/ s.open
    BY <1>2 DEF Good, Kept
  <2>4. HasSlot(s) => \A t \in SendToPeer(s) : Good(t) /\ t.batch = s.batch
    BY <1>2, <2>3, SendToPeerGood, SendToPeerSame DEF Same
  <2>5. \A t \in S : Good(t) /\ t.batch = <<>>
    BY Zenon, <1>2, <2>1, <2>4
  <2> QED
    BY <1>5, <2>1, <2>2, <2>5
<1>12. CASE ClearPeers(c)
  <2>1. Becomes(c, {DropPeer(s)}) /\ Visited(c) /\ Phase = "clear"
    BY <1>12 DEF ClearPeers, Visiting, s
  <2>2. Good(DropPeer(s)) /\ DropPeer(s).batch = <<>>
    BY <1>2, DropPeerGood
  <2>3. PICK S : S = {DropPeer(s)} /\ Becomes(c, S)
    BY <2>1
  <2>4. \A t \in S : Good(t) /\ t.batch = <<>>
    BY Zenon, <2>2, <2>3
  <2> QED
    BY <1>5, <2>1, <2>3, <2>4, Zenon
<1> QED
  BY <1>6, <1>7, <1>8, <1>9, <1>10, <1>11, <1>12

(* The loops over netcode's clients keep the tables: a client that is      *)
(* disconnected has no login queued.                                       *)
LEMMA ClientStepKeepsTables ==
  ASSUME TablesInv, NEW c \in Clients,
         UpdateClient(c) \/ Disconnection(c) \/ DisconnectAll(c)
  PROVE  TablesInv'
<1> DEFINE s == session[c]
<1>1. c \in todo /\ Phase \in {"update_clients", "disconnections", "disconnect_all"} /\ Visited(c)
  BY DEF UpdateClient, Disconnection, DisconnectAll, Visiting
<1>2. Good(s) /\ s.batch = <<>> /\ Timely(Phase, TRUE, s)
  BY <1>1, AtRecord, Zenon
<1> HIDE DEF s
<1>3. Calm(s)
  <2>1. Phase \in {"update_clients", "disconnect_all"} => s.pending = <<>>
    BY <1>2 DEF Timely
  <2>2. Phase = "disconnections" => Calm(s)
    BY <1>2 DEF Timely
  <2> QED
    BY <1>1, <2>1, <2>2, EmptyQueue DEF Calm
<1>4. ASSUME NEW S, Becomes(c, S), \A t \in S : Good(t) /\ t.batch = <<>> /\ Calm(t)
      PROVE  TablesInv'
  <2>1. \A t \in S : Good(t) /\ Timely(Phase, FALSE, t)
    BY <1>1, <1>4 DEF Timely, UdpPhases
  <2> QED
    BY Zenon, <1>1, <1>4, <2>1, VisitStep
<1>5. \A t \in DisconnectClient(s) : Good(t) /\ t.batch = <<>> /\ Calm(t)
  BY Zenon, <1>2, <1>3, DisconnectClientGood
<1>6. HasSlot(s) => \A t \in HandleServerResult(s, "packet") :
                       Good(t) /\ t.batch = <<>> /\ Calm(t)
  <2> SUFFICES ASSUME HasSlot(s), NEW t \in SendToPeer(s)
               PROVE  Good(t) /\ t.batch = <<>> /\ Calm(t)
    BY Zenon, <1>2, <1>3 DEF HandleServerResult
  <2>1. (s.rtc = "none" \/ s.open) /\ s \in Session /\ s.net # "pending"
    BY <1>2 DEF Good, Kept, HasSlot
  <2>2. Good(t) /\ Fares(s, t)
    BY <1>2, <2>1, SendToPeerGood
  <2>3. t.batch = s.batch
    BY <2>1, SendToPeerSame DEF Same
  <2> QED
    BY <1>2, <1>3, <2>1, <2>2, <2>3 DEF Fares
<1>7. PICK S : /\ S \subseteq {s} \cup {t \in HandleServerResult(s, "packet") : HasSlot(s)}
                            \cup DisconnectClient(s)
               /\ Becomes(c, S)
  BY DEF UpdateClient, Disconnection, DisconnectAll, s
<1>8. \A t \in S : Good(t) /\ t.batch = <<>> /\ Calm(t)
  BY Zenon, <1>2, <1>3, <1>5, <1>6, <1>7
<1> QED
  BY <1>4, <1>7, <1>8

(* Every loop of the WebRTC transport keeps the tables.                    *)
LEMMA WebRtcStepKeepsTables ==
  ASSUME TablesInv, NEW c \in Clients, WebRtcStep(c)
  PROVE  TablesInv'
  BY ResultStepKeepsTables, PeerStepKeepsTables, ClientStepKeepsTables DEF WebRtcStep

(* Which phase follows which.                                              *)
LEMMA PhaseSuccession ==
  ASSUME call \in Calls, pc \in 1 .. Len(Program(call))
  PROVE  /\ pc = Len(Program(call)) => Phase = "results"
         /\ pc # Len(Program(call)) =>
              LET q == Program(call)[pc + 1]
              IN /\ q # "idle"
                 /\ Phase = "take" => q = "routed"
                 /\ q \in {"update_clients", "disconnect_all", "route"} => Phase = "results"
                 /\ q = "disconnections" => Phase = "update_clients"
                 /\ q \in UdpPhases => Phase \in UdpPhases
<1>1. CASE call = "update"
  BY <1>1 DEF Program, UpdateProgram, Phase, UdpPhases
<1>2. CASE call = "send_packets"
  BY <1>2 DEF Program, SendProgram, Phase, UdpPhases
<1>3. CASE call = "disconnect_all"
  BY <1>3 DEF Program, DisconnectAllProgram, Phase, UdpPhases
<1> QED
  BY <1>1, <1>2, <1>3 DEF Calls

(* A phase starts on records left in time by the phase before it.          *)
LEMMA StartPhaseKeepsTables ==
  ASSUME TablesInv, UNCHANGED session,
         NEW k \in Calls \cup {"idle"}, NEW n \in 1 .. Len(Program(k)), StartPhase(k, n),
         \A c \in Clients : Timely(Program(k)[n], k # "idle", session[c])
  PROVE  TablesInv'
<1>1. call' = k /\ pc' = n /\ Phase' = Program(k)[n]
  BY DEF StartPhase, Phase
<1>2. TypeOK'
  <2>1. session' \in [Clients -> Session]
    BY DEF TablesInv, TypeOK
  <2>2. todo' \subseteq Clients
    BY DEF StartPhase
  <2>3. seen' \in [Clients -> 0 .. Quota]
    BY ConstantTypes DEF StartPhase
  <2>4. pc' \in 1 .. Len(Program(call'))
    BY <1>1
  <2> QED
    BY <1>1, <2>1, <2>2, <2>3, <2>4 DEF TypeOK
<1>3. ASSUME NEW c \in Clients
      PROVE  Good(session'[c]) /\ Timely(Phase', c \in todo', session'[c])
  <2>1. session'[c] = session[c] /\ Good(session[c])
    BY AtRecord
  <2>2. (c \in todo') = (k # "idle")
    BY DEF StartPhase
  <2>3. Timely(Phase', k # "idle", session[c])
    BY <1>1
  <2> QED
    BY <2>1, <2>2, <2>3
<1> QED
  BY <1>2, <1>3 DEF TablesInv, Good

(* With nothing queued only a tracked client has payloads.                 *)
LEMMA QuietFeeds ==
  ASSUME NEW s, Good(s), s.batch = <<>>, s.pending = <<>>, Feeds(s)
  PROVE  s.conn
<1>1. s.net = "live"
  BY EmptyQueue DEF Feeds
<1>2. Announced(s)
  BY <1>1 DEF Good, Kept, HasSlot
<1> QED
  BY <1>2, EmptyQueue DEF Announced, Handled

(* Beginning a call, going to its next phase, leaving a phase early and a  *)
(* failed receive keep the tables.                                         *)
LEMMA ControlStepKeepsTables ==
  ASSUME TablesInv,
         (\E k \in Calls : Begin(k)) \/ NextPhase \/ ReceiveFails
            \/ \E c \in Clients : Skip(c)
  PROVE  TablesInv'
<1>1. call \in Calls \cup {"idle"} /\ pc \in 1 .. Len(Program(call)) /\ pc \in Nat
  BY DEF TablesInv, TypeOK
<1>2. ASSUME StartPhase("idle", 1), UNCHANGED session,
             \A c \in Clients : session[c].batch = <<>> /\ (Feeds(session[c]) => session[c].conn)
      PROVE  TablesInv'
  <2>1. 1 \in 1 .. Len(Program("idle")) /\ Program("idle")[1] = "idle"
    BY ProgramLengths DEF Program
  <2>2. \A c \in Clients : Timely("idle", FALSE, session[c])
    BY <1>2 DEF Timely
  <2>3. \A c \in Clients : Timely(Program("idle")[1], "idle" # "idle", session[c])
    BY <2>1, <2>2, Zenon
  <2> QED
    BY <1>2, <2>1, <2>3, StartPhaseKeepsTables
<1>3. CASE \E k \in Calls : Begin(k)
  <2>1. PICK k \in Calls : Begin(k)
    BY <1>3
  <2>2. call = "idle" /\ StartPhase(k, 1) /\ UNCHANGED session
    BY <2>1 DEF Begin
  <2>3. Program(k)[1] \in {"udp_receive", "removals", "udp_disconnect_all"} /\ k # "idle"
    BY DEF Calls, Program, UpdateProgram, SendProgram, DisconnectAllProgram
  <2>4. ASSUME NEW c \in Clients PROVE Timely(Program(k)[1], k # "idle", session[c])
    <3>1. session[c].batch = <<>> /\ (Feeds(session[c]) => session[c].conn)
      BY <2>2, AtRecord DEF Timely
    <3> QED
      BY <2>3, <3>1 DEF Timely
  <2>5. 1 \in 1 .. Len(Program(k))
    BY ProgramLengths
  <2> QED
    BY <2>2, <2>4, <2>5, StartPhaseKeepsTables
<1>4. ASSUME NextPhase, NEW c \in Clients
      PROVE  Good(session[c]) /\ Timely(Phase, FALSE, session[c])
  <2>1. (c \in todo) = FALSE
    BY <1>4 DEF NextPhase
  <2> QED
    BY <2>1, AtRecord, Zenon
<1>5. CASE NextPhase /\ pc # Len(Program(call))
  <2>1. StartPhase(call, pc + 1) /\ UNCHANGED session /\ call \in Calls /\ call # "idle"
    BY <1>1, <1>5 DEF NextPhase
  <2>2. pc + 1 \in 1 .. Len(Program(call))
    BY <1>1, <1>5, ProgramLengths
  <2> DEFINE q == Program(call)[pc + 1]
  <2>3. /\ q # "idle"
        /\ Phase = "take" => q = "routed"
        /\ q \in {"update_clients", "disconnect_all", "route"} => Phase = "results"
        /\ q = "disconnections" => Phase = "update_clients"
        /\ q \in UdpPhases => Phase \in UdpPhases
    BY <1>1, <1>5, <2>1, PhaseSuccession
  <2> HIDE DEF q
  <2>4. ASSUME NEW c \in Clients PROVE Timely(q, TRUE, session[c])
    <3> DEFINE s == session[c]
    <3>1. Good(s) /\ Timely(Phase, FALSE, s)
      BY <1>4, <1>5, Zenon
    <3> HIDE DEF s
    <3>2. Phase = "results" => s.batch = <<>> /\ s.pending = <<>>
      BY <3>1 DEF Timely
    <3>3. Phase = "results" => (Feeds(s) => s.conn)
      BY <3>1, <3>2, QuietFeeds
    <3>4. Timely(q, TRUE, s)
      BY <2>3, <3>1, <3>2, <3>3 DEF Timely
    <3> QED
      BY <3>4, Zenon DEF s
  <2>5. \A c \in Clients : Timely(Program(call)[pc + 1], call # "idle", session[c])
    BY <2>1, <2>4, Zenon DEF q
  <2> QED
    BY <2>1, <2>2, <2>5, StartPhaseKeepsTables
<1>6. CASE NextPhase /\ pc = Len(Program(call))
  <2>1. StartPhase("idle", 1) /\ UNCHANGED session /\ call \in Calls
    BY <1>1, <1>6 DEF NextPhase
  <2>2. Phase = "results"
    BY <1>1, <1>6, <2>1, PhaseSuccession
  <2>3. \A c \in Clients : session[c].batch = <<>> /\ (Feeds(session[c]) => session[c].conn)
    BY <1>4, <1>6, <2>2, QuietFeeds DEF Timely
  <2> QED
    BY <1>2, <2>1, <2>3
<1>7. CASE ReceiveFails
  <2>1. StartPhase("idle", 1) /\ UNCHANGED session /\ Phase \in {"udp_receive", "route"}
    BY <1>7 DEF ReceiveFails
  <2>2. \A c \in Clients : session[c].batch = <<>> /\ (Feeds(session[c]) => session[c].conn)
    BY <2>1, AtRecord DEF Timely, UdpPhases
  <2> QED
    BY <1>2, <2>1, <2>2
<1>8. CASE \E c \in Clients : Skip(c)
  <2>1. PICK c \in Clients : Skip(c)
    BY <1>8
  <2>2. Visited(c) /\ Phase \in {"udp_receive", "route"}
    BY <2>1 DEF Skip
  <2>3. session = [session EXCEPT ![c] = session[c]]
    BY DEF TablesInv, TypeOK
  <2>4. Becomes(c, {session[c]})
    BY <2>1, <2>3 DEF Skip, Becomes
  <2>5. /\ Good(session[c]) /\ session[c].batch = <<>>
        /\ Feeds(session[c]) => session[c].conn
    BY <2>2, AtRecord DEF Timely, UdpPhases
  <2> QED
    BY <2>2, <2>4, <2>5, PlainStepOne
<1> QED
  BY <1>3, <1>5, <1>6, <1>7, <1>8

-----------------------------------------------------------------------------
(* TablesInv is inductive for every set of clients, quota and failure      *)
(* flag, with no hypothesis on who uses which transport.                   *)
THEOREM TablesInvariant == Spec => []TablesInv
<1>1. Init => TablesInv
  <2> SUFFICES ASSUME Init PROVE TablesInv
    OBVIOUS
  <2>1. Fresh \in Session
    BY FreshTyped
  <2>2. TypeOK
    BY <2>1, ConstantTypes, ProgramLengths DEF Init, TypeOK
  <2>3. /\ Fresh.rtc = "none" /\ Fresh.net = "free" /\ Fresh.held = {}
        /\ Fresh.pending = <<>> /\ Fresh.batch = <<>>
    BY Zenon DEF Fresh
  <2>4. ~ Fresh.misused /\ ~ Fresh.drained /\ ~ Fresh.route /\ ~ Fresh.conn
    BY SMT DEF Fresh
  <2>5. ~ HasSlot(Fresh) /\ ~ Announced(Fresh) /\ ~ Feeds(Fresh)
    BY <2>3, <2>4, EmptyQueue, Zenon DEF HasSlot, Announced, Handled, Feeds
  <2>6. Rested(Fresh) /\ Kept(Fresh)
    BY <2>3, <2>4, <2>5, EmptyQueue, Zenon DEF Rested, Kept
  <2>7. Phase = "idle" /\ todo = {}
    BY DEF Init, Phase, Program
  <2>8. \A c \in Clients : Timely(Phase, c \in todo, Fresh)
    BY <2>3, <2>5, <2>7 DEF Timely
  <2> QED
    BY <2>2, <2>6, <2>8 DEF Init, TablesInv
<1>2. TablesInv /\ [Next]_vars => TablesInv'
  <2> SUFFICES ASSUME TablesInv, [Next]_vars PROVE TablesInv'
    OBVIOUS
  <2>1. CASE UNCHANGED vars
    BY Zenon, <2>1 DEF vars, TablesInv, TypeOK, Phase
  <2>2. CASE Next
    BY <2>2, ControlStepKeepsTables, ApplicationStepKeepsTables, UdpStepKeepsTables,
       WebRtcStepKeepsTables DEF Next
  <2> QED
    BY <2>1, <2>2
<1> QED
  BY <1>1, <1>2, PTL DEF Spec

(* str0m is never given a datagram, a write or a time-out while it still   *)
(* holds output.                                                           *)
THEOREM DrainedHolds == Spec => []DrainedBeforeMutation
<1>1. TablesInv => DrainedBeforeMutation
  BY DEF TablesInv, Rested, DrainedBeforeMutation
<1> QED
  BY <1>1, TablesInvariant, PTL

(* Routes lead to live peers or tracked connections, payloads go to Renet  *)
(* only for a client this transport added, and a replacement peer starts   *)
(* clean.                                                                  *)
THEOREM PeerTablesHold == Spec => []PeerTablesAgree
<1>1. ASSUME TablesInv, NEW c \in Clients
      PROVE  LET s == session[c] IN
             /\ s.route => s.rtc = "alive" \/ s.conn
             /\ Feeds(s) => s.conn \/ s.renet = "none"
             /\ s.rtc = "alive" /\ ~ s.open =>
                   /\ ~ HasSlot(s) /\ ~ s.conn /\ s.batch = <<>> /\ s.pending = <<>>
                   /\ s.held = {} /\ ~ s.deferred
  <2>1. session[c] \in Session /\ Kept(session[c]) /\ Rested(session[c])
    BY <1>1, AtRecord DEF Good
  <2>2. session[c].rtc \in {"none", "alive", "dead"}
    BY <2>1 DEF Session
  <2> QED
    BY <2>1, <2>2, Zenon DEF Kept, Rested
<1>2. TablesInv => PeerTablesAgree
  BY <1>1 DEF PeerTablesAgree
<1> QED
  BY <1>2, TablesInvariant, PTL

(* Handling the queued results always brings connected_client_ids back in  *)
(* line with netcode's slots, as long as no drain fails fatally: the       *)
(* hypothesis the run mixed_fatal_drain shows to be needed.                *)
THEOREM QueueHolds ==
  ASSUME ~ FatalDrain
  PROVE  Spec => []QueueConverges
<1>1. TablesInv => QueueConverges
  BY Zenon DEF TablesInv, Kept, QueueConverges
<1> QED
  BY <1>1, TablesInvariant, PTL

(* The records, queues and program counter keep their types. *)
THEOREM TypeCorrect == Spec => []TypeOK
<1>1. TablesInv => TypeOK
  BY DEF TablesInv
<1> QED
  BY <1>1, TablesInvariant, PTL

-----------------------------------------------------------------------------
(* disconnect_all: a slot that is given up stays free, although the last   *)
(* packets of the client may still be read while it is told.               *)

(* A client without a slot or a challenge gets no slot from one event.     *)
LEMMA EventNet ==
  ASSUME NEW s \in Session, s.net = "free", NEW e \in Events,
         NEW w \in Session, NEW r, <<w, r>> \in HandlePeerEvent(s, e)
  PROVE  w.net \in {"free", "pending"}
<1>1. /\ Kill(s).net = s.net /\ [s EXCEPT !.open = TRUE].net = s.net
      /\ \A n \in {"free", "pending"} : [s EXCEPT !.net = n].net = n
  BY DEF Kill, Session
<1>2. ~ HasSlot(s)
  BY DEF HasSlot
<1>3. CASE e \in Packets
  <2>1. [s EXCEPT !.held = @ \cup {e}].net = s.net
    BY DEF Session
  <2>2. e # "open" /\ e # "lost"
    BY <1>3 DEF Packets
  <2>3. \/ w = s \/ w = [s EXCEPT !.held = @ \cup {e}]
        \/ <<w, r>> \in ProcessPeerPacket(s, e)
    BY <2>2 DEF HandlePeerEvent, DeferIncoming
  <2>4. CASE <<w, r>> \in ProcessPeerPacket(s, e)
    <3>1. PacketOutcome(s, <<w, r>>)
      BY <1>3, <2>4, PacketOutcomes
    <3>2. w = s \/ w = Kill(s) \/ \E n \in {"free", "pending"} : w = [s EXCEPT !.net = n]
      BY <1>2, <3>1 DEF PacketOutcome
    <3> QED
      BY <1>1, <3>2, Zenon
  <2> QED
    BY <1>1, <2>1, <2>3, <2>4, Zenon
<1>4. CASE e = "open" \/ e = "lost"
  BY <1>1, <1>4, Zenon DEF HandlePeerEvent
<1> QED
  BY <1>3, <1>4 DEF Events

(* A flush answers at most one event, and may free the slot.               *)
LEMMA FlushNet ==
  ASSUME NEW s \in Session, NEW t \in FlushPeerOutput(s)
  PROVE  /\ s.net = "free" => t.net \in {"free", "pending"}
         /\ s.out \notin Events => t.net \in {s.net, "free"}
<1>1. ASSUME NEW u \in Session PROVE Reinsert(u).net \in {u.net, "free"}
  <2>1. DropPeer(u) \in Session /\ DropPeer(u).net = u.net
    BY DropPeerOps
  <2>2. HasSlot(u) => /\ Release(DropPeer(u)) \in Session
                      /\ Release(DropPeer(u)).net = "free"
    BY <2>1, ReleaseOps DEF HasSlot
  <2>3. \A v \in Session : Queued(v, "disconnected").net = v.net
    BY DEF Queued, Session
  <2> QED
    BY <2>1, <2>2, <2>3 DEF Reinsert
<1>2. CASE s.rtc # "alive"
  <2>1. CASE s.rtc = "none"
    BY <2>1 DEF FlushPeerOutput
  <2>2. CASE s.rtc = "dead"
    <3>1. t = Reinsert(s)
      BY <2>2 DEF FlushPeerOutput, Queued
    <3> QED
      BY <1>1, <3>1
  <2> QED
    BY <1>2, <2>1, <2>2 DEF Session
<1>3. CASE s.rtc = "alive"
  <2>1. PICK d \in DrivePeer(s) : t = Reinsert(Queued(d[1], d[2]))
    BY <1>3 DEF FlushPeerOutput
  <2>2. ASSUME NEW w \in Session, NEW r \in Results \cup {"none"}, d = <<w, r>>
        PROVE  t.net \in {w.net, "free"}
    <3>1. t = Reinsert(Queued(w, r)) /\ Queued(w, r) \in Session
      BY <2>1, <2>2, SimpleOps, Zenon DEF Same
    <3>2. Queued(w, r).net = w.net
      BY DEF Queued, Session
    <3> QED
      BY <1>1, <3>1, <3>2
  <2>3. \A w \in Session : /\ Completed(w).net = w.net /\ Yielded(w).net = w.net
                           /\ Kill(w).net = w.net /\ Polled(w).net = w.net
    BY DEF Completed, Yielded, Kill, Polled, Session
  <2>4. "none" \in Results \cup {"none"}
    OBVIOUS
  <2>5. DriveOutcome(s, d)
    BY <1>3, DriveOutcomes
  <2>6. CASE d = <<Polled(s), "none">> \/ d = <<Kill(Polled(s)), "none">>
    <3>1. /\ Polled(s) \in Session /\ Polled(s).net = s.net
          /\ Kill(Polled(s)) \in Session /\ Kill(Polled(s)).net = s.net
      <4>1. Polled(s) \in Session /\ Polled(s).net = s.net
        BY <2>3, PolledOps, Zenon
      <4> QED
        BY <2>3, <4>1, KillOps, Zenon
    <3>2. t.net \in {s.net, "free"}
      BY Zenon, <2>2, <2>4, <2>6, <3>1
    <3> QED
      BY <3>2
  <2>7. CASE \E w \in Session, r \in Results \cup {"none"} :
                /\ <<w, r>> \in Pumped(s)
                /\ \/ d = <<Completed(w), r>>
                   \/ d = <<Yielded(w), r>>
                   \/ d = <<Kill(w), "none">>
    <3>1. PICK w \in Session, r \in Results \cup {"none"} :
                 /\ <<w, r>> \in Pumped(s)
                 /\ \/ d = <<Completed(w), r>>
                    \/ d = <<Yielded(w), r>>
                    \/ d = <<Kill(w), "none">>
      BY <2>7
    <3>2. t.net \in {w.net, "free"}
      <4>1. Completed(w) \in Session /\ Yielded(w) \in Session /\ Kill(w) \in Session
        BY CompletedOps, YieldedOps, KillOps
      <4> QED
        BY Zenon, <2>2, <2>3, <2>4, <3>1, <4>1
    <3>3. Quiet(s) \in Session /\ Quiet(s).net = s.net
      BY QuietOps DEF Alike
    <3>4. s.out \notin Events => w.net = s.net
      BY <3>1, <3>3 DEF Pumped
    <3>5. s.net = "free" => w.net \in {"free", "pending"}
      <4>1. CASE s.out \in Events
        BY <3>1, <3>3, <4>1, EventNet DEF Pumped
      <4> QED
        BY <3>4, <4>1
    <3> QED
      BY <3>2, <3>4, <3>5
  <2> QED
    BY <2>5, <2>6, <2>7 DEF DriveOutcome
<1> QED
  BY <1>2, <1>3

(* So telling a client that it is disconnected gives it no new slot.       *)
LEMMA SendToPeerNet ==
  ASSUME NEW s \in Session, s.net = "free", NEW t \in SendToPeer(s)
  PROVE  ~ HasSlot(t)
<1>1. CASE t \in SendToPeerBackend(s)
  <2>1. PICK u \in FlushPeerOutput(s) :
               t \in IF u.rtc = "none" \/ ~u.drained \/ ~u.open THEN {u}
                     ELSE FlushPeerOutput(Mutate(u, "transmit"))
    BY <1>1 DEF SendToPeerBackend
  <2>2. u \in Session /\ u.net \in {"free", "pending"}
    BY FlushPeerOutputSame, FlushNet DEF Same
  <2>3. "transmit" \in Outputs /\ "transmit" \notin Events
    BY DEF Outputs, Events, Packets
  <2>4. /\ Mutate(u, "transmit") \in Session /\ Mutate(u, "transmit").net = u.net
        /\ Mutate(u, "transmit").out = "transmit"
    BY <2>2, <2>3, MutateAlike DEF Alike
  <2>5. t.net \in {"free", "pending"}
    BY <2>1, <2>2, <2>3, <2>4, FlushNet
  <2> QED
    BY <2>5 DEF HasSlot
<1>2. CASE t = s \/ t = [s EXCEPT !.deferred = TRUE]
  <2>1. [s EXCEPT !.deferred = TRUE].net = s.net
    BY DEF Session
  <2> QED
    BY <1>2, <2>1, Zenon DEF HasSlot
<1> QED
  BY <1>1, <1>2 DEF SendToPeer

(* disconnect_all gives up every slot.                                     *)
LEMMA DisconnectClientNet ==
  ASSUME NEW s \in Session, NEW t \in DisconnectClient(s)
  PROVE  ~ HasSlot(t)
<1>1. CASE HasSlot(s)
  <2> DEFINE x == Release(s)
             u == Shut(x)
  <2>1. x \in Session /\ x.net = "free"
    BY <1>1, ReleaseOps
  <2>2. u \in Session /\ u.net = "free"
    BY <2>1, ShutOps
  <2>3. t \in DropClient(x)
    BY <1>1 DEF DisconnectClient
  <2> HIDE DEF x
  <2>4. PICK v \in {u} \cup SendToPeer(u) : t = DropPeer(v)
    BY Zenon, <2>3 DEF DropClient, Shut
  <2> HIDE DEF u
  <2>5. v \in Session /\ ~ HasSlot(v)
    BY <2>2, <2>4, SendToPeerNet, SendToPeerSame DEF Same, HasSlot
  <2> QED
    BY <2>4, <2>5, DropPeerOps DEF HasSlot
<1>2. CASE ~ HasSlot(s)
  BY <1>2 DEF DisconnectClient
<1> QED
  BY <1>1, <1>2

(* Once its slot and its peer are gone, no queued result brings a client   *)
(* back, or orders a removal that nobody would carry out any more.         *)
LEMMA ClearedResult ==
  ASSUME NEW s, Good(s), s.batch # <<>>, s.rtc = "none", ~ HasSlot(s), ~ s.removal,
         NEW t \in HandleServerResult(Rest(s), Head(s.batch))
  PROVE  t.rtc = "none" /\ ~ HasSlot(t) /\ ~ t.removal
<1> DEFINE x == Rest(s)
           r == Head(s.batch)
<1>1. s \in Session /\ Kept(s) /\ Rested(s)
  BY DEF Good
<1>2. /\ x \in Session /\ x.rtc = "none" /\ x.net = s.net /\ x.conn = s.conn
      /\ x.renet = s.renet
  BY <1>1, RestOps
<1>3. s.batch \in Seq(Results) /\ r \in Results
  BY <1>1 DEF Session
<1>4. x.removal = s.removal
  BY <1>1 DEF Rest, Session
<1>5. r = "connected" => ~ s.conn
  <2>1. r = "connected" => Opens(s.batch)
    BY <1>3, TakeFirst, Zenon
  <2> QED
    BY <1>1, <2>1, Zenon DEF Kept
<1> HIDE DEF x, r
<1>6. ~ HasSlot(x) /\ ~ x.removal
  BY <1>2, <1>4 DEF HasSlot
<1>7. \A u \in Session : u.rtc = "none" => SendToPeer(u) = {u}
  BY DEF SendToPeer
<1>8. t \in HandleServerResult(x, r)
  BY DEF x, r
<1>9. CASE r \in {"packet", "payload"}
  <2>1. t = x
    BY <1>2, <1>7, <1>8, <1>9 DEF HandleServerResult
  <2> QED
    BY <1>2, <1>6, <2>1
<1>10. CASE r = "connected" /\ x.renet = "up"
  <2> DEFINE d == DropPeer(x)
             f == Release(d)
  <2>1. t = RemovePeer(x)
    BY Zenon, <1>6, <1>8, <1>10 DEF HandleServerResult, RejectDuplicate
  <2>2. d \in Session /\ d.rtc = "none" /\ d.net = x.net
    BY <1>2, DropPeerOps
  <2> HIDE DEF d
  <2>3. f \in Session /\ f.rtc = "none" /\ ~ HasSlot(f)
    BY <2>2, ReleaseOps
  <2>4. x.removal = FALSE /\ x.conn = FALSE
    BY <1>2, <1>5, <1>6, <1>10 DEF Session
  <2>5. PICK b \in BOOLEAN : b = (x.removal \/ x.conn)
    BY Zenon
  <2>6. b = FALSE
    BY <2>4, <2>5, Zenon
  <2>7. t = [f EXCEPT !.conn = FALSE, !.removal = b, !.pending = <<>>]
    BY <2>1, <2>5 DEF RemovePeer, d
  <2> HIDE DEF f
  <2>8. t.rtc = f.rtc /\ t.net = f.net /\ t.removal = FALSE
    BY <2>3, <2>6, <2>7 DEF Session
  <2> QED
    BY <2>3, <2>8 DEF HasSlot
<1>11. CASE r = "connected" /\ x.renet # "up"
  <2> DEFINE a == AddConnection(x, "webrtc")
             u == [a EXCEPT !.conn = TRUE, !.route = TRUE, !.net = a.net]
  <2>1. a \in Session /\ a.rtc = "none" /\ a.net = x.net /\ a.removal = x.removal
    BY <1>2, ConnectionOps, Zenon DEF Beside
  <2>2. t \in SendToPeer(u)
    BY <1>6, <1>8, <1>11 DEF HandleServerResult, AcceptClient
  <2> HIDE DEF a
  <2>3. u \in Session /\ u.rtc = a.rtc /\ u.net = a.net /\ u.removal = a.removal
    BY Zenon, <2>1 DEF Session
  <2> HIDE DEF u
  <2>4. t = u
    BY <1>7, <2>1, <2>2, <2>3
  <2> QED
    BY <1>6, <2>1, <2>3, <2>4 DEF HasSlot
<1>12. CASE r = "disconnected"
  <2> DEFINE u == Shut(x)
  <2>1. u \in Session /\ u.rtc = "none" /\ u.net = x.net
    BY <1>2, ShutOps
  <2>2. u.removal = x.removal
    <3>1. RemoveConnection([x EXCEPT !.conn = FALSE]).removal = x.removal
      BY <1>2 DEF RemoveConnection, Session
    <3> QED
      BY <1>2, <3>1 DEF Shut, RemoveConnection, Session
  <2>3. \E v \in {u} \cup SendToPeer(u) : t = DropPeer(v)
    BY Zenon, <1>8, <1>12 DEF HandleServerResult, DropClient, Shut
  <2> HIDE DEF u
  <2>4. t = DropPeer(u)
    BY <1>7, <2>1, <2>3
  <2>5. t.rtc = "none" /\ t.net = u.net /\ t.removal = u.removal
    BY <2>1, <2>4 DEF DropPeer, Session
  <2> QED
    BY <1>6, <2>1, <2>2, <2>5 DEF HasSlot
<1> QED
  BY <1>3, <1>9, <1>10, <1>11, <1>12 DEF Results

(* A loop leaves what the other loops did for the other clients.           *)
LEMMA EmptiedStep ==
  ASSUME EmptyInv, NEW c \in Clients, NEW S, Becomes(c, S), Loops(c),
         \A t \in S : Emptied(c, t)'
  PROVE  \A d \in Clients : Emptied(d, session[d])'
<1>1. PICK t \in S : session' = [session EXCEPT ![c] = t]
  BY Zenon DEF Becomes
<1>2. session \in [Clients -> Session]
  BY DEF EmptyInv, TablesInv, TypeOK
<1>3. call' = call /\ pc' = pc /\ (todo' = todo \/ todo' = todo \ {c})
  BY DEF Loops, Visited, Repeat
<1> SUFFICES ASSUME NEW d \in Clients PROVE Emptied(d, session[d])'
  OBVIOUS
<1>4. CASE d = c
  <2>1. session'[d] = t
    BY <1>1, <1>2, <1>4
  <2> QED
    BY <1>4, <2>1 DEF Emptied
<1>5. CASE d # c
  <2>1. session'[d] = session[d] /\ (d \in todo' <=> d \in todo)
    BY <1>1, <1>2, <1>3, <1>5
  <2>2. Emptied(d, session[d])
    BY DEF EmptyInv
  <2> QED
    BY <1>3, <2>1, <2>2 DEF Emptied
<1> QED
  BY <1>4, <1>5

(* The phases of disconnect_all.                                           *)
LEMMA EmptyingPhases ==
  ASSUME TypeOK, call = "disconnect_all"
  PROVE  /\ pc \in 1 .. 7
         /\ Phase = <<"udp_disconnect_all", "removals", "results", "disconnect_all",
                      "clear", "removals", "results">>[pc]
<1>1. Len(DisconnectAllProgram) = 7
  BY DEF DisconnectAllProgram
<1> QED
  BY <1>1 DEF TypeOK, Phase, Program, DisconnectAllProgram

(* The loops of disconnect_all do their part for every client, and undo    *)
(* none of the part of an earlier one.                                     *)
LEMMA LoopKeepsEmptied ==
  ASSUME EmptyInv, NEW c \in Clients, UdpStep(c) \/ WebRtcStep(c), call = "disconnect_all"
  PROVE  \A d \in Clients : Emptied(d, session[d])'
<1> DEFINE s == session[c]
<1>1. TypeOK /\ TablesInv /\ Good(s) /\ s \in Session /\ Emptied(c, s)
  BY AtRecord DEF EmptyInv, TablesInv, Good
<1>2. /\ pc \in 1 .. 7
      /\ Phase = <<"udp_disconnect_all", "removals", "results", "disconnect_all",
                   "clear", "removals", "results">>[pc]
  BY <1>1, EmptyingPhases
<1>3. CASE pc = 1
  <2>1. Phase = "udp_disconnect_all"
    BY <1>2, <1>3
  <2>2. UdpDisconnectAll(c)
    BY <2>1 DEF UdpStep, UdpReceive, UdpUpdateClient, UdpDisconnection, WebRtcStep,
         DrainRemoval, TakeResults, HandleResult, ResultsHandled, DrainIncoming,
         DrainOutgoing, FlushOutput, RouteSocketInput, Pump, UpdateClient, Disconnection,
         SendPackets, DisconnectAll, ClearPeers, Visiting
  <2>3. Visited(c) /\ Becomes(c, {IF s.udp THEN UdpDisconnected(s) ELSE s})
    BY <2>2 DEF UdpDisconnectAll
  <2>4. UdpDisconnected(s).udp = FALSE
    BY <1>1 DEF UdpDisconnected, RemoveConnection, Session
  <2>5. PICK S : Becomes(c, S) /\ \A t \in S : ~ t.udp
    BY <2>3, <2>4
  <2>6. \A t \in S : Emptied(c, t)'
    BY <1>3, <2>3, <2>5 DEF Emptied, Visited
  <2> QED
    BY <2>3, <2>5, <2>6, EmptiedStep DEF Loops
<1>4. CASE pc # 1
  <2>1. Phase \notin UdpPhases
    BY <1>2, <1>4 DEF UdpPhases
  <2>2. WebRtcStep(c)
    BY <2>1 DEF UdpStep, UdpReceive, UdpUpdateClient, UdpDisconnection, UdpDisconnectAll,
                Visiting, UdpPhases
  <2>3. ~ s.udp
    BY <1>1, <1>2, <1>4 DEF Emptied
  <2>4. session'[c].udp = s.udp
    BY <1>1, <2>2, WebRtcKeepsUdp
  <2>5. Loops(c) /\ \E u : session' = [session EXCEPT ![c] = u]
    <3>1. session = [session EXCEPT ![c] = s]
      BY <1>1 DEF TypeOK
    <3> QED
      BY <2>2, <3>1 DEF WebRtcStep, DrainRemoval, TakeResults, HandleResult, ResultsHandled,
         DrainIncoming, DrainOutgoing, FlushOutput, RouteSocketInput, Pump, UpdateClient,
         Disconnection, SendPackets, DisconnectAll, ClearPeers, Becomes, Loops
  <2>6. PICK t : session' = [session EXCEPT ![c] = t]
    BY <2>5, Zenon
  <2>7. t = session'[c] /\ ~ t.udp
    BY <1>1, <2>3, <2>4, <2>6 DEF TypeOK
  <2>8. ASSUME NEW S, Becomes(c, S) PROVE t \in S
    BY <1>1, <2>6, <2>8 DEF Becomes, TypeOK
  <2> HIDE DEF s
  <2>9. /\ pc >= 5 => ~ HasSlot(s)
        /\ pc >= 6 => s.rtc = "none"
        /\ pc = 7 => ~ s.removal
    BY <1>1, <1>2 DEF Emptied
  <2>10. /\ pc >= 4 => ~ HasSlot(t)
         /\ pc >= 5 => t.rtc = "none"
         /\ pc >= 6 => ~ t.removal
    <3>1. CASE pc = 4
      <4>1. Phase = "disconnect_all"
        BY <1>2, <3>1
      <4>2. Becomes(c, DisconnectClient(s))
        BY <2>2, <4>1 DEF WebRtcStep, DrainRemoval, TakeResults, HandleResult,
           ResultsHandled, DrainIncoming, DrainOutgoing, FlushOutput, RouteSocketInput, Pump,
           UpdateClient, Disconnection, SendPackets, DisconnectAll, ClearPeers, Visiting, s
      <4>3. t \in DisconnectClient(s)
        BY <2>8, <4>2
      <4> QED
        BY <1>1, <3>1, <4>3, DisconnectClientNet
    <3>2. CASE pc = 5
      <4>1. Phase = "clear"
        BY <1>2, <3>2
      <4>2. Becomes(c, {DropPeer(s)})
        BY <2>2, <4>1 DEF WebRtcStep, DrainRemoval, TakeResults, HandleResult,
           ResultsHandled, DrainIncoming, DrainOutgoing, FlushOutput, RouteSocketInput, Pump,
           UpdateClient, Disconnection, SendPackets, DisconnectAll, ClearPeers, Visiting, s
      <4>3. t = DropPeer(s)
        BY <2>8, <4>2
      <4> QED
        <5>1. t.rtc = "none" /\ t.net = s.net
          BY <1>1, <4>3, DropPeerOps, Zenon
        <5> QED
          BY <2>9, <3>2, <5>1 DEF HasSlot
    <3>3. CASE pc = 6
      <4>1. Phase = "removals"
        BY <1>2, <3>3
      <4>2. Becomes(c, {Removal(s)})
        BY <2>2, <4>1 DEF WebRtcStep, DrainRemoval, TakeResults, HandleResult,
           ResultsHandled, DrainIncoming, DrainOutgoing, FlushOutput, RouteSocketInput, Pump,
           UpdateClient, Disconnection, SendPackets, DisconnectAll, ClearPeers, Visiting, s
      <4>3. t = Removal(s)
        BY <2>8, <4>2
      <4>4. t.rtc = s.rtc /\ t.net = s.net
        BY <1>1, <4>3, ElsewhereOps, Zenon DEF Elsewhere
      <4>5. ~ t.removal
        BY <1>1, <4>3 DEF Removal, RemoveConnection, Session
      <4> QED
        BY <2>9, <3>3, <4>4, <4>5 DEF HasSlot
    <3>4. CASE pc = 7
      <4>1. Phase = "results"
        BY <1>2, <3>4
      <4>2. s.rtc = "none" /\ ~ HasSlot(s) /\ ~ s.removal
        BY <2>9, <3>4
      <4>3. TakeResults(c) \/ HandleResult(c) \/ ResultsHandled(c)
        BY <2>2, <4>1 DEF WebRtcStep, DrainRemoval, DrainIncoming, DrainOutgoing,
           FlushOutput, RouteSocketInput, Pump, UpdateClient, Disconnection, SendPackets,
           DisconnectAll, ClearPeers, Visiting
      <4>4. t.rtc = "none" /\ ~ HasSlot(t) /\ ~ t.removal
        <5>1. CASE TakeResults(c)
          <6> DEFINE q == s.batch \o s.pending
                     u == [s EXCEPT !.batch = q, !.pending = <<>>]
          <6>1. Becomes(c, {u})
            BY <5>1 DEF TakeResults, s
          <6>2. u.rtc = s.rtc /\ u.net = s.net /\ u.removal = s.removal
            BY Zenon, <1>1 DEF Session
          <6> HIDE DEF u
          <6>3. t = u
            BY <2>8, <6>1
          <6> QED
            BY <4>2, <6>2, <6>3 DEF HasSlot
        <5>2. CASE HandleResult(c)
          <6>1. s.batch # <<>> /\ Becomes(c, HandleServerResult(Rest(s), Head(s.batch)))
            BY <5>2 DEF HandleResult, Rest, s
          <6>2. t \in HandleServerResult(Rest(s), Head(s.batch))
            BY <2>8, <6>1
          <6> QED
            BY <1>1, <4>2, <6>1, <6>2, ClearedResult
        <5>3. CASE ResultsHandled(c)
          <6>1. t = s
            BY <2>7, <5>3 DEF ResultsHandled, s
          <6> QED
            BY <4>2, <6>1
        <5> QED
          BY <4>3, <5>1, <5>2, <5>3
      <4> QED
        BY <4>4
    <3> QED
      BY <1>2, <1>4, <3>1, <3>2, <3>3, <3>4
  <2>11. Emptied(c, t)'
    BY <1>2, <2>5, <2>7, <2>10 DEF Emptied, Loops, Visited, Repeat
  <2>12. PICK S : S = {t} /\ Becomes(c, S)
    BY <2>6, Zenon DEF Becomes
  <2>13. \A u \in S : Emptied(c, u)'
    BY <2>11, <2>12
  <2> QED
    BY <2>5, <2>12, <2>13, EmptiedStep
<1> QED
  BY <1>2, <1>3, <1>4

(* A phase starts with what the phases before it have done.                *)
LEMMA ControlKeepsEmptied ==
  ASSUME EmptyInv, (\E k \in Calls : Begin(k)) \/ NextPhase \/ ReceiveFails
  PROVE  \A d \in Clients : Emptied(d, session[d])'
<1>1. TypeOK /\ UNCHANGED session
  BY DEF EmptyInv, TablesInv, Begin, NextPhase, ReceiveFails
<1>2. pc \in Nat
  BY <1>1 DEF TypeOK
<1> SUFFICES ASSUME NEW d \in Clients, call' = "disconnect_all" PROVE Emptied(d, session[d])'
  BY DEF Emptied
<1>3. CASE \E k \in Calls : Begin(k)
  <2>1. pc' = 1 /\ d \in todo'
    BY <1>3 DEF Begin, StartPhase
  <2> QED
    BY <2>1 DEF Emptied
<1>4. CASE NextPhase
  <2>1. call = "disconnect_all" /\ pc' = pc + 1 /\ d \in todo' /\ d \notin todo
    BY <1>4 DEF NextPhase, StartPhase
  <2>2. session'[d] = session[d]
    BY <1>1
  <2> QED
    BY <1>2, <2>1, <2>2 DEF Emptied, EmptyInv
<1>5. CASE ReceiveFails
  BY <1>5 DEF ReceiveFails, StartPhase
<1> QED
  BY <1>3, <1>4, <1>5

(* EmptyInv is an invariant, with ownership and tables below it.           *)
THEOREM EmptyInvariant ==
  ASSUME DualIdsNotKicked
  PROVE  Spec => []EmptyInv
<1> DEFINE Passed == \A c \in Clients : Emptied(c, session[c])
<1>1. Init => Passed
  BY DEF Init, Emptied
<1>2. ASSUME OwnershipInv, TablesInv, Passed, [Next]_vars PROVE Passed'
  <2>1. EmptyInv /\ TypeOK
    BY <1>2 DEF EmptyInv, TablesInv
  <2>2. CASE UNCHANGED vars
    BY <1>2, <2>2 DEF vars, Emptied
  <2>3. CASE (\E k \in Calls : Begin(k)) \/ NextPhase \/ ReceiveFails
    BY <2>1, <2>3, ControlKeepsEmptied
  <2>4. ASSUME NEW c \in Clients, ApplicationStep(c) \/ UdpStep(c) \/ WebRtcStep(c) \/ Skip(c)
        PROVE  Passed'
    <3>1. call' = call
      BY <2>4 DEF ApplicationStep, AddPeerCall, RemovePeerCall, ServerDisconnect, UdpStep,
         UdpReceive, UdpUpdateClient, UdpDisconnection, UdpDisconnectAll, WebRtcStep,
         DrainRemoval, TakeResults, HandleResult, ResultsHandled, DrainIncoming,
         DrainOutgoing, FlushOutput, RouteSocketInput, Pump, UpdateClient, Disconnection,
         SendPackets, DisconnectAll, ClearPeers, Skip, Visited, Repeat
    <3>2. CASE call # "disconnect_all"
      BY <3>1, <3>2 DEF Emptied
    <3>3. CASE call = "disconnect_all"
      <4>1. ~ ApplicationStep(c)
        BY <3>3 DEF ApplicationStep, AddPeerCall, RemovePeerCall, ServerDisconnect
      <4>2. Phase \notin {"udp_receive", "route"}
        BY <2>1, <3>3, EmptyingPhases
      <4>3. UdpStep(c) \/ WebRtcStep(c)
        BY <2>4, <4>1, <4>2 DEF Skip
      <4> QED
        BY <2>1, <3>3, <4>3, LoopKeepsEmptied
    <3> QED
      BY <3>2, <3>3
  <2> QED
    BY <1>2, <2>2, <2>3, <2>4 DEF Next
<1>3. EmptyInv <=> OwnershipInv /\ TablesInv /\ Passed
  BY DEF EmptyInv
<1> HIDE DEF Passed
<1> QED
  BY <1>1, <1>2, <1>3, OwnershipInvariant, TablesInvariant, PTL DEF Spec

(* After disconnect_all neither transport nor Renet knows any client: the  *)
(* slots and peers are gone, a connection still tracked would be announced *)
(* without a slot, and one still owned would have a removal to do.         *)
THEOREM DisconnectAllHolds ==
  ASSUME DualIdsNotKicked, ~ FatalDrain
  PROVE  Spec => DisconnectAllEmpties
<1> DEFINE Empties ==
             call = "disconnect_all" /\ call' = "idle" =>
               \A c \in Clients :
                  /\ session'[c].renet = "none" /\ session'[c].rtc = "none"
                  /\ ~ HasSlot(session'[c]) /\ ~ session'[c].udp
<1>1. ASSUME EmptyInv, Next PROVE Empties
  <2> SUFFICES ASSUME call = "disconnect_all", call' = "idle", NEW c \in Clients
               PROVE  /\ session'[c].renet = "none" /\ session'[c].rtc = "none"
                      /\ ~ HasSlot(session'[c]) /\ ~ session'[c].udp
    OBVIOUS
  <2> DEFINE s == session[c]
  <2>1. TypeOK /\ TablesInv /\ Accounted(c, s, Early(c)) /\ Emptied(c, s)
    BY <1>1 DEF EmptyInv, TablesInv, OwnershipInv
  <2>2. /\ pc \in 1 .. 7
        /\ Phase = <<"udp_disconnect_all", "removals", "results", "disconnect_all",
                     "clear", "removals", "results">>[pc]
    BY <2>1, EmptyingPhases
  <2>3. NextPhase
    <3>1. ~ ReceiveFails
      BY <2>2 DEF ReceiveFails
    <3> QED
      BY <1>1, <3>1 DEF Next, Begin, ApplicationStep, AddPeerCall, RemovePeerCall,
         ServerDisconnect, UdpStep, UdpReceive, UdpUpdateClient, UdpDisconnection,
         UdpDisconnectAll, WebRtcStep, DrainRemoval, TakeResults, HandleResult,
         ResultsHandled, DrainIncoming, DrainOutgoing, FlushOutput, RouteSocketInput, Pump,
         UpdateClient, Disconnection, SendPackets, DisconnectAll, ClearPeers, Skip, Visited,
         Repeat
  <2>4. session' = session /\ (c \in todo) = FALSE /\ pc = 7
    <3>1. Len(DisconnectAllProgram) = 7 /\ Program(call) = DisconnectAllProgram
      BY DEF Program, DisconnectAllProgram
    <3>2. session' = session /\ todo = {} /\ pc = Len(Program(call))
      BY <2>3 DEF NextPhase, StartPhase
    <3> QED
      BY <3>1, <3>2
  <2>5. Phase = "results"
    BY <2>2, <2>4
  <2>6. Good(s) /\ Timely(Phase, FALSE, s)
    BY <2>1, <2>4, AtRecord, Zenon
  <2> HIDE DEF s
  <2>7. s.batch = <<>> /\ s.pending = <<>>
    BY <2>5, <2>6 DEF Timely
  <2>8. ~ s.udp /\ ~ HasSlot(s) /\ s.rtc = "none" /\ ~ s.removal
    BY <2>1, <2>4 DEF Emptied
  <2>9. ~ s.conn
    <3>1. s.conn => Announced(s)
      BY <2>7, EmptyQueue DEF Announced, Handled
    <3> QED
      BY <2>6, <2>8, <3>1, Zenon DEF Good, Kept
  <2>10. s.owner = "none"
    <3>1. s.owner \in {"none", "udp", "webrtc"}
      BY <2>6 DEF Good, Session
    <3> QED
      BY <2>1, <2>8, <2>9, <3>1 DEF Accounted, Owned
  <2>11. s.renet = "none"
    BY <2>1, <2>10 DEF Accounted, Owned
  <2> QED
    BY <2>4, <2>8, <2>11 DEF s
<1>2. EmptyInv /\ [Next]_vars => [Empties]_vars
  BY <1>1
<1> HIDE DEF Empties
<1>3. Spec => [][Empties]_vars
  BY <1>2, EmptyInvariant, PTL DEF Spec
<1> QED
  BY <1>3 DEF Empties, DisconnectAllEmpties
=============================================================================
