-------------------------- MODULE MixedServerProofs --------------------------
(***************************************************************************)
(* Proofs about MixedServer, for any set of clients and any value of the   *)
(* other constants.  Ownership of the shared Renet connections is not      *)
(* inductive by itself: a connection the application is closing may still  *)
(* be waiting for a removal that remove_peer scheduled, and a login that   *)
(* were handled in between would find an entry it does not own.            *)
(* OwnershipInv says that such a wait ends with the first removals of the  *)
(* call in progress, before any handler of a login runs.                   *)
(*                                                                         *)
(* The proof goes bottom up: what the packet functions leave alone (Same), *)
(* what each handler does to the account of one client, then one lemma per *)
(* group of actions.                                                       *)
(***************************************************************************)
EXTENDS MixedServer, TLAPS

(* What the functions that only move packets leave alone. *)
Same(s, t) ==
    /\ t \in Session
    /\ t.renet = s.renet /\ t.owner = s.owner /\ t.udp = s.udp
    /\ t.conn = s.conn /\ t.removal = s.removal /\ t.batch = s.batch

(* Leaving the ownership fields alone composes.                            *)
LEMMA SameTransitive ==
  ASSUME NEW s, NEW t, NEW u, Same(s, t), Same(t, u)
  PROVE  Same(s, u)
  BY DEF Same

(* Releasing a slot, killing an Rtc, dropping a peer, mutating the Rtc and *)
(* queueing a result (server.rs) leave the ownership fields alone.         *)
LEMMA SimpleOps ==
  ASSUME NEW s \in Session
  PROVE  /\ Same(s, s) /\ Same(s, Release(s)) /\ Same(s, Kill(s)) /\ Same(s, DropPeer(s))
         /\ \A o \in Outputs : Same(s, Mutate(s, o))
         /\ \A r \in Results \cup {"none"} : Same(s, Queued(s, r))
<1>1. Same(s, s)
  BY DEF Same
<1>2. Same(s, Release(s))
  <2>1. Same(s, [s EXCEPT !.net = "free"])
    BY Zenon DEF Same, Session
  <2> QED
    BY <1>1, <2>1 DEF Release
<1>3. Same(s, Kill(s))
  BY Zenon DEF Same, Session, Kill
<1>4. Same(s, DropPeer(s))
  BY Zenon DEF Same, Session, DropPeer
<1>5. ASSUME NEW o \in Outputs PROVE Same(s, Mutate(s, o))
  BY Zenon DEF Same, Session, Mutate
<1>6. ASSUME NEW r \in Results PROVE Same(s, [s EXCEPT !.pending = Append(@, r)])
  <2>1. Append(s.pending, r) \in Seq(Results)
    BY DEF Session
  <2> QED
    BY <2>1 DEF Same, Session
<1>7. ASSUME NEW r \in Results \cup {"none"} PROVE Same(s, Queued(s, r))
  BY <1>1, <1>6 DEF Queued
<1> QED
  BY <1>1, <1>2, <1>3, <1>4, <1>5, <1>7

(* An outcome of a str0m event: a record like s and a result or none.      *)
Outcome(s, d) == Same(s, d[1]) /\ d[2] \in Results \cup {"none"}

(* A client begins with a well-formed record.                              *)
LEMMA FreshTyped == Fresh \in Session
<1>1. <<>> \in Seq(Results) /\ {} \in SUBSET Packets
  OBVIOUS
<1> QED
  BY <1>1, Zenon DEF Fresh, Session

(* RenetServer::add_connection and remove_connection touch the entry of    *)
(* the shared server and nothing else.                                     *)
Beside(s, t) ==
    /\ t.rtc = s.rtc /\ t.out = s.out /\ t.misused = s.misused /\ t.drained = s.drained
    /\ t.open = s.open /\ t.route = s.route /\ t.held = s.held /\ t.deferred = s.deferred
    /\ t.net = s.net /\ t.conn = s.conn /\ t.removal = s.removal
    /\ t.pending = s.pending /\ t.batch = s.batch /\ t.udp = s.udp

LEMMA ConnectionOps ==
  ASSUME NEW s \in Session, NEW o \in {"udp", "webrtc"}
  PROVE  /\ AddConnection(s, o) \in Session /\ Beside(s, AddConnection(s, o))
         /\ RemoveConnection(s) \in Session /\ Beside(s, RemoveConnection(s))
         /\ RemoveConnection(s).renet = "none" /\ RemoveConnection(s).owner = "none"
<1>1. AddConnection(s, o) \in Session /\ Beside(s, AddConnection(s, o))
  <2>1. [s EXCEPT !.renet = "up", !.owner = o] \in Session
    BY Zenon DEF Session
  <2>2. Beside(s, [s EXCEPT !.renet = "up", !.owner = o])
    BY DEF Session, Beside
  <2>3. Beside(s, s)
    BY DEF Beside
  <2> QED
    BY <2>1, <2>2, <2>3, Zenon DEF AddConnection
<1>2. RemoveConnection(s) \in Session
  BY Zenon DEF Session, RemoveConnection
<1>3. /\ Beside(s, RemoveConnection(s))
      /\ RemoveConnection(s).renet = "none" /\ RemoveConnection(s).owner = "none"
  BY DEF Session, RemoveConnection, Beside
<1> QED
  BY <1>1, <1>2, <1>3, Zenon

(* process_peer_packet changes the netcode slot and yields a result, no    *)
(* more.                                                                   *)
LEMMA ProcessPeerPacketSame ==
  ASSUME NEW s \in Session, NEW p \in Packets, NEW d \in ProcessPeerPacket(s, p)
  PROVE  Outcome(s, d)
<1>1. \A n \in {"free", "pending", "used", "live"} : Same(s, [s EXCEPT !.net = n])
  BY Zenon DEF Same, Session
<1>2. Same(s, s) /\ Same(s, Release(s)) /\ Same(s, Kill(s))
  BY SimpleOps
<1>4. CASE p = "hello"
  BY <1>1, <1>2, <1>4 DEF ProcessPeerPacket, Results, Outcome
<1>5. CASE p = "connect"
  BY <1>1, <1>2, <1>5 DEF ProcessPeerPacket, Results, Outcome
<1>6. CASE p = "payload"
  BY <1>1, <1>2, <1>6 DEF ProcessPeerPacket, Results, Outcome
<1>7. CASE p = "bye"
  BY <1>1, <1>2, <1>7 DEF ProcessPeerPacket, Results, Outcome
<1>8. CASE p = "foreign"
  BY <1>1, <1>2, <1>8 DEF ProcessPeerPacket, Results, Outcome
<1> QED
  BY <1>4, <1>5, <1>6, <1>7, <1>8 DEF Packets

(* handle_peer_event leaves the ownership fields alone and yields a        *)
(* result.                                                                 *)
LEMMA HandlePeerEventSame ==
  ASSUME NEW s \in Session, NEW e \in Events, NEW d \in HandlePeerEvent(s, e)
  PROVE  Outcome(s, d)
<1>0. Same(s, [s EXCEPT !.open = TRUE])
  BY Zenon DEF Same, Session
<1>1. Same(s, s) /\ Same(s, Kill(s)) /\ Same(s, [s EXCEPT !.open = TRUE])
  BY <1>0, SimpleOps
<1>2. CASE e = "open"
  <2>1. d = <<[s EXCEPT !.open = TRUE], "none">>
    BY <1>2 DEF HandlePeerEvent
  <2> QED
    BY <1>1, <2>1 DEF Outcome
<1>3. CASE e = "lost"
  <2>1. d = <<Kill(s), "none">>
    BY <1>3 DEF HandlePeerEvent
  <2> QED
    BY <1>1, <2>1 DEF Outcome
<1>4. CASE e \in Packets
  <2>1. Same(s, [s EXCEPT !.held = @ \cup {e}])
    BY Zenon, <1>4 DEF Same, Session
  <2>2. \A t \in DeferIncoming(s, e) : Same(s, t)
    BY <1>1, <2>1 DEF DeferIncoming
  <2>3. d \in ProcessPeerPacket(s, e) \/ d = <<s, "none">>
        \/ \E t \in DeferIncoming(s, e) : d = <<t, "none">>
    BY <1>4 DEF HandlePeerEvent, Packets
  <2> QED
    BY <1>1, <1>4, <2>2, <2>3, ProcessPeerPacketSame DEF Outcome
<1> QED
  BY <1>2, <1>3, <1>4 DEF Events

(* drive_peer_with_limit leaves the ownership fields alone.                *)
LEMMA DrivePeerSame ==
  ASSUME NEW s \in Session, NEW d \in DrivePeer(s)
  PROVE  Outcome(s, d)
<1> DEFINE polled == [s EXCEPT !.drained = FALSE]
           quiet == [polled EXCEPT !.out = "none"]
           handled == IF s.out \in Events THEN HandlePeerEvent(quiet, s.out)
                                          ELSE {<<quiet, "none">>}
<1>1. Same(s, polled) /\ Same(s, quiet)
  BY Zenon DEF Same, Session
<1>2. ASSUME NEW h \in handled PROVE Outcome(s, h)
  <2>1. quiet \in Session
    BY <1>1 DEF Same
  <2>2. CASE s.out \in Events
    <3>1. Outcome(quiet, h)
      BY <1>2, <2>1, <2>2, HandlePeerEventSame
    <3> QED
      BY <1>1, <3>1, SameTransitive DEF Outcome
  <2>3. CASE s.out \notin Events
    BY <1>1, <1>2, <2>3 DEF Outcome
  <2> QED
    BY <2>2, <2>3
<1>3. ASSUME NEW t, Same(s, t)
      PROVE  /\ Same(s, [t EXCEPT !.drained = TRUE])
             /\ Same(s, [t EXCEPT !.out = "transmit"])
             /\ Same(s, Kill(t))
  <2>1. t \in Session
    BY <1>3 DEF Same
  <2>2. Same(t, [t EXCEPT !.drained = TRUE])
    BY Zenon, <2>1 DEF Same, Session
  <2>3. Same(t, [t EXCEPT !.out = "transmit"])
    BY Zenon, <2>1 DEF Same, Session, Outputs
  <2> QED
    BY <1>3, <2>1, <2>2, <2>3, SimpleOps, SameTransitive
<1>4. \/ \E h \in handled : d = <<[h[1] EXCEPT !.drained = TRUE], h[2]>>
      \/ d = <<polled, "none">>
      \/ \E h \in handled : d = <<[h[1] EXCEPT !.out = "transmit"], h[2]>>
      \/ d = <<Kill(polled), "none">>
      \/ \E h \in handled : d = <<Kill(h[1]), "none">>
  <2> HIDE DEF polled, quiet
  <2> QED
    BY DEF DrivePeer, polled, quiet
<1>5. ASSUME NEW t, NEW r, Same(s, t), r \in Results \cup {"none"}, d = <<t, r>>
      PROVE  Outcome(s, d)
  BY <1>5 DEF Outcome
<1> HIDE DEF handled, polled, quiet
<1>6. ASSUME NEW h \in handled PROVE Same(s, h[1]) /\ h[2] \in Results \cup {"none"}
  BY <1>2, <1>6 DEF Outcome
<1> QED
  BY Zenon, <1>1, <1>3, <1>4, <1>5, <1>6

(* Putting a driven peer back, or dropping it dead, only queues results.   *)
LEMMA ReinsertSame ==
  ASSUME NEW s \in Session
  PROVE  Same(s, Reinsert(s)) /\ Reinsert(s).rtc # "dead"
<1> DEFINE dropped == DropPeer(s)
           freed == Release(dropped)
           told == Queued(freed, "disconnected")
<1>1. Same(s, dropped) /\ dropped.rtc = "none"
  BY Zenon, SimpleOps DEF DropPeer, Session
<1>2. Same(s, freed) /\ freed.rtc = "none"
  <2>1. dropped \in Session
    BY <1>1 DEF Same
  <2>2. freed.rtc = dropped.rtc
    BY <2>1 DEF Release, Session
  <2> QED
    BY <1>1, <2>1, <2>2, SimpleOps, SameTransitive
<1>3. Same(s, told) /\ told.rtc = "none"
  <2>1. freed \in Session
    BY <1>2 DEF Same
  <2>2. told.rtc = freed.rtc
    BY <2>1 DEF Queued, Session
  <2> QED
    BY <1>2, <2>1, <2>2, SimpleOps, SameTransitive DEF Results
<1> HIDE DEF dropped, freed, told
<1>5. Same(s, s)
  BY SimpleOps
<1> QED
  BY <1>1, <1>3, <1>5 DEF Reinsert, dropped, freed, told

(* flush_peer_output leaves the ownership fields alone.                    *)
LEMMA FlushPeerOutputSame ==
  ASSUME NEW s \in Session, NEW t \in FlushPeerOutput(s)
  PROVE  Same(s, t) /\ (s.rtc = "none" => t = s)
<1>1. CASE s.rtc = "none"
  BY <1>1, SimpleOps DEF FlushPeerOutput
<1>2. CASE s.rtc # "none"
  <2>1. PICK d \in IF s.rtc = "alive" THEN DrivePeer(s) ELSE {<<s, "none">>} :
               t = Reinsert(Queued(d[1], d[2]))
    BY <1>2 DEF FlushPeerOutput
  <2>2. Outcome(s, d)
    BY <2>1, DrivePeerSame, SimpleOps DEF Outcome
  <2>3. Same(s, Queued(d[1], d[2]))
    BY <2>2, SimpleOps, SameTransitive DEF Outcome, Same
  <2> QED
    BY <1>2, <2>1, <2>3, ReinsertSame, SameTransitive DEF Same
<1> QED
  BY <1>1, <1>2

(* send_to_peer_backend leaves the ownership fields alone.                 *)
LEMMA SendToPeerBackendSame ==
  ASSUME NEW s \in Session, NEW t \in SendToPeerBackend(s)
  PROVE  Same(s, t) /\ (s.rtc = "none" => t = s)
<1>1. PICK u \in FlushPeerOutput(s) :
             t \in IF u.rtc = "none" \/ ~u.drained \/ ~u.open THEN {u}
                   ELSE FlushPeerOutput(Mutate(u, "transmit"))
  BY DEF SendToPeerBackend
<1>2. Same(s, u) /\ u \in Session
  BY FlushPeerOutputSame DEF Same
<1>3. Same(u, Mutate(u, "transmit"))
  BY <1>2, SimpleOps DEF Outputs
<1>4. CASE t = u
  BY <1>2, <1>4, FlushPeerOutputSame
<1>5. CASE u.rtc # "none" /\ t \in FlushPeerOutput(Mutate(u, "transmit"))
  <2>1. Same(Mutate(u, "transmit"), t)
    BY <1>3, <1>5, FlushPeerOutputSame DEF Same
  <2>2. s.rtc # "none"
    BY <1>5, FlushPeerOutputSame
  <2> QED
    BY <1>2, <1>3, <2>1, <2>2, SameTransitive
<1> QED
  BY <1>1, <1>4, <1>5

(* send_to_peer, conditioned or not, leaves the ownership fields alone.    *)
LEMMA SendToPeerSame ==
  ASSUME NEW s \in Session, NEW t \in SendToPeer(s)
  PROVE  Same(s, t) /\ (s.rtc = "none" => t = s)
<1>1. Same(s, s)
  BY SimpleOps
<1>2. Same(s, [s EXCEPT !.deferred = TRUE])
  BY Zenon DEF Same, Session
<1>3. t = s \/ (s.rtc # "none" /\ t \in SendToPeerBackend(s))
      \/ (s.rtc # "none" /\ t = [s EXCEPT !.deferred = TRUE])
  BY DEF SendToPeer
<1> QED
  BY Zenon, <1>1, <1>2, <1>3, SendToPeerBackendSame

(* Packet movement as the invariant sees it: the record keeps its owner,   *)
(* and a client without a peer is not touched.                             *)
Moves(s, t) == Same(s, t) /\ (s.rtc = "none" => t = s)

(* A step that leaves the ownership fields of a WebRTC client alone keeps  *)
(* its account.                                                            *)
LEMMA MovesKeepsAccount ==
  ASSUME NEW c, NEW s \in Session, NEW t, NEW early,
         Accounted(c, s, early), Moves(s, t)
  PROVE  t \in Session /\ Accounted(c, t, early)
  BY DEF Accounted, Moves, Same, Owned, Inert

(* Dropping the peer of any client keeps its account.                      *)
LEMMA DropPeerKeepsAccount ==
  ASSUME NEW c, NEW s \in Session, NEW early, Accounted(c, s, early)
  PROVE  DropPeer(s) \in Session /\ Accounted(c, DropPeer(s), early)
<1>1. Same(s, DropPeer(s))
  BY SimpleOps
<1>2. /\ DropPeer(s).rtc = "none" /\ DropPeer(s).net = s.net
      /\ DropPeer(s).pending = s.pending /\ DropPeer(s).held = {}
  BY DEF DropPeer, Session
<1> QED
  BY <1>1, <1>2 DEF Accounted, Same, Owned, Inert, HasSlot

(* What remove_peer sets after it dropped the peer and freed its slot.     *)
Forget(u, b) == [u EXCEPT !.conn = FALSE, !.removal = b, !.pending = <<>>]

(* The other fields stay.                                                  *)
LEMMA ForgetOps ==
  ASSUME NEW u \in Session, NEW b \in BOOLEAN
  PROVE  /\ Forget(u, b) \in Session /\ Forget(u, b).conn = FALSE /\ Forget(u, b).removal = b
         /\ Forget(u, b).renet = u.renet /\ Forget(u, b).owner = u.owner
         /\ Forget(u, b).udp = u.udp
<1>1. <<>> \in Seq(Results)
  OBVIOUS
<1>2. Forget(u, b) \in Session
  BY Zenon, <1>1 DEF Session, Forget
<1>3. /\ Forget(u, b).conn = FALSE /\ Forget(u, b).removal = b
      /\ Forget(u, b).renet = u.renet /\ Forget(u, b).owner = u.owner
      /\ Forget(u, b).udp = u.udp
  BY DEF Session, Forget
<1> QED
  BY <1>2, <1>3

(* remove_peer turns a tracked connection into a scheduled removal.        *)
LEMMA RemovePeerOps ==
  ASSUME NEW s \in Session
  PROVE  LET t == RemovePeer(s)
         IN /\ t \in Session /\ t.conn = FALSE /\ t.removal = (s.removal \/ s.conn)
            /\ t.renet = s.renet /\ t.owner = s.owner /\ t.udp = s.udp
<1> DEFINE u == Release(DropPeer(s))
<1>1. Same(s, u) /\ u \in Session
  BY SimpleOps, SameTransitive DEF Same
<1>2. PICK b \in BOOLEAN : b = (s.removal \/ s.conn)
  BY Zenon
<1>3. RemovePeer(s) = Forget(u, b)
  BY <1>2 DEF RemovePeer, Forget
<1> HIDE DEF u
<1>4. /\ Forget(u, b) \in Session /\ Forget(u, b).conn = FALSE /\ Forget(u, b).removal = b
      /\ Forget(u, b).renet = u.renet /\ Forget(u, b).owner = u.owner
      /\ Forget(u, b).udp = u.udp
  BY Zenon, <1>1, ForgetOps
<1>5. u.renet = s.renet /\ u.owner = s.owner /\ u.udp = s.udp
  BY <1>1 DEF Same
<1> QED
  BY Zenon, <1>2, <1>3, <1>4, <1>5

(* So it keeps the account.                                                *)
LEMMA RemovePeerKeepsAccount ==
  ASSUME NEW c \in WebIds, NEW s \in Session, NEW early, Accounted(c, s, early),
         early \/ s.renet # "closing"
  PROVE  RemovePeer(s) \in Session /\ Accounted(c, RemovePeer(s), early)
<1> DEFINE t == RemovePeer(s)
<1>1. /\ t \in Session /\ t.conn = FALSE /\ t.removal = (s.removal \/ s.conn)
      /\ t.renet = s.renet /\ t.owner = s.owner /\ t.udp = s.udp
  BY RemovePeerOps, Zenon
<1> HIDE DEF t
<1>2. s.conn \in BOOLEAN /\ s.removal \in BOOLEAN
  BY DEF Session
<1> QED
  BY <1>1, <1>2 DEF Accounted, Owned, t

(* Rejecting a duplicate WebRTC login keeps the account of the connection  *)
(* that was there first.                                                   *)
LEMMA RejectDuplicateKeepsAccount ==
  ASSUME NEW c \in WebIds, NEW s \in Session, Accounted(c, s, FALSE), s.renet = "up",
         NEW t \in RejectDuplicate(s)
  PROVE  t \in Session /\ Accounted(c, t, FALSE)
<1>1. PICK u \in IF HasSlot(s) THEN SendToPeer(Release(s)) ELSE {s} : t = RemovePeer(u)
  BY DEF RejectDuplicate
<1>2. Same(s, Release(s)) /\ Same(s, s)
  BY SimpleOps
<1>3. Same(s, u)
  BY <1>1, <1>2, SendToPeerSame, SameTransitive DEF Same
<1>4. u \in Session /\ Accounted(c, u, FALSE) /\ u.renet = "up"
  BY <1>3 DEF Accounted, Same, Owned
<1> QED
  BY Zenon, <1>1, <1>4, RemovePeerKeepsAccount

(* Accepting a WebRTC login finds no entry of another owner in the shared  *)
(* server.                                                                 *)
LEMMA AcceptClientKeepsAccount ==
  ASSUME NEW c \in WebIds, NEW s \in Session, Accounted(c, s, FALSE), s.renet # "up",
         DualIdsNotKicked, NEW t \in AcceptClient(s)
  PROVE  t \in Session /\ Accounted(c, t, FALSE)
<1> DEFINE a == AddConnection(s, "webrtc")
           n == IF HasSlot(s) THEN "live" ELSE s.net
           u == [a EXCEPT !.conn = TRUE, !.route = TRUE, !.net = n]
<1>1. a \in Session /\ a.udp = FALSE /\ a.owner = "webrtc" /\ a.removal = FALSE
      /\ a.renet # "none" /\ (a.renet = "closing" => c \in Kickable) /\ a.net = s.net
  <2>1. CASE s.renet = "none"
    <3>1. s.owner = "none" /\ s.udp = FALSE /\ s.removal = FALSE
      BY <2>1 DEF Accounted, Owned, Session
    <3>2. a = [s EXCEPT !.renet = "up", !.owner = "webrtc"]
      BY <2>1 DEF AddConnection
    <3> HIDE DEF a
    <3> QED
      BY Zenon, <3>1, <3>2 DEF Session
  <2>2. CASE s.renet = "closing"
    <3>1. c \notin UdpIds
      BY <2>2 DEF Accounted, DualIdsNotKicked
    <3>2. s.udp = FALSE /\ s.owner = "webrtc" /\ s.removal = FALSE
      BY <2>2, <3>1 DEF Accounted, Owned, Session
    <3>3. a = s
      BY <2>2 DEF AddConnection
    <3> QED
      BY <2>2, <3>2, <3>3 DEF Accounted
  <2> QED
    BY Zenon, <2>1, <2>2 DEF Session
<1>2. n \in {"free", "pending", "used", "live"}
  BY DEF Session
<1> HIDE DEF a, n
<1>3. /\ u \in Session /\ u.conn = TRUE /\ u.renet = a.renet /\ u.owner = a.owner
      /\ u.removal = a.removal /\ u.udp = a.udp
  BY Zenon, <1>1, <1>2 DEF Session
<1>4. t \in SendToPeer(u)
  <2>1. AcceptClient(s) = SendToPeer([a EXCEPT !.conn = TRUE, !.route = TRUE,
                                       !.net = IF HasSlot(s) THEN "live" ELSE a.net])
    BY DEF AcceptClient, a
  <2> QED
    BY <1>1, <2>1 DEF n
<1> HIDE DEF u
<1>5. Accounted(c, u, FALSE)
  BY <1>1, <1>3 DEF Accounted, Owned
<1>6. Moves(u, t)
  BY <1>3, <1>4, SendToPeerSame DEF Moves
<1> QED
  BY Zenon, <1>3, <1>5, <1>6, MovesKeepsAccount

(* A netcode disconnection removes the shared connection exactly when      *)
(* WebRTC tracks it.                                                       *)
LEMMA DropClientKeepsAccount ==
  ASSUME NEW c \in WebIds, NEW s \in Session, NEW early, Accounted(c, s, early),
         NEW t \in DropClient(s)
  PROVE  t \in Session /\ Accounted(c, t, early)
<1> DEFINE gone == IF s.conn THEN RemoveConnection([s EXCEPT !.conn = FALSE]) ELSE s
           shut == [gone EXCEPT !.route = FALSE]
<1>1. gone \in Session /\ Accounted(c, gone, early)
  <2>1. CASE s.conn
    <3>1. s.udp = FALSE /\ s.removal = FALSE
      BY <2>1 DEF Accounted, Owned, Session
    <3>2. gone = [s EXCEPT !.conn = FALSE, !.renet = "none", !.owner = "none"]
      BY <2>1 DEF RemoveConnection, Session
    <3> HIDE DEF gone
    <3>3. /\ gone \in Session /\ gone.conn = FALSE /\ gone.renet = "none"
          /\ gone.owner = "none" /\ gone.udp = s.udp /\ gone.removal = s.removal
      BY Zenon, <3>2 DEF Session
    <3> QED
      BY <3>1, <3>3 DEF Accounted, Owned
  <2> QED
    BY <2>1
<1> HIDE DEF gone
<1>2. Same(gone, shut) /\ shut.rtc = gone.rtc
  BY Zenon, <1>1 DEF Same, Session
<1>3. shut \in Session /\ Accounted(c, shut, early)
  BY <1>1, <1>2 DEF Accounted, Owned, Same
<1>4. PICK u \in {shut} \cup SendToPeer(shut) : t = DropPeer(u)
  BY Zenon DEF DropClient, gone
<1> HIDE DEF shut
<1>5. Moves(shut, u)
  BY <1>3, SimpleOps, SendToPeerSame DEF Moves
<1> QED
  BY <1>3, <1>4, <1>5, MovesKeepsAccount, DropPeerKeepsAccount

(* handle_server_result keeps the account once earlier removals are done.  *)
LEMMA HandleServerResultKeepsAccount ==
  ASSUME NEW c \in WebIds, NEW s \in Session, Accounted(c, s, FALSE), DualIdsNotKicked,
         NEW r \in Results, NEW t \in HandleServerResult(s, r)
  PROVE  t \in Session /\ Accounted(c, t, FALSE)
<1>1. CASE r = "packet"
  <2>1. t = s \/ t \in SendToPeer(s)
    BY <1>1 DEF HandleServerResult
  <2>2. Moves(s, t)
    BY <2>1, SimpleOps, SendToPeerSame DEF Moves
  <2> QED
    BY Zenon, <2>2, MovesKeepsAccount
<1>2. CASE r = "payload"
  <2>1. t = s
    BY <1>2 DEF HandleServerResult
  <2> QED
    BY Zenon, <2>1
<1>3. CASE r = "connected"
  <2>1. \/ s.renet = "up" /\ t \in RejectDuplicate(s)
        \/ s.renet # "up" /\ t \in AcceptClient(s)
    BY <1>3 DEF HandleServerResult
  <2> QED
    BY Zenon, <2>1, RejectDuplicateKeepsAccount, AcceptClientKeepsAccount
<1>4. CASE r = "disconnected"
  <2>1. t \in DropClient(s)
    BY <1>4 DEF HandleServerResult
  <2> QED
    BY Zenon, <2>1, DropClientKeepsAccount
<1> QED
  BY Zenon, <1>1, <1>2, <1>3, <1>4 DEF Results

(* Disconnecting one netcode client and handling the result keeps the      *)
(* account.                                                                *)
LEMMA DisconnectClientKeepsAccount ==
  ASSUME NEW c, NEW s \in Session, NEW early, Accounted(c, s, early),
         NEW t \in DisconnectClient(s)
  PROVE  t \in Session /\ Accounted(c, t, early)
<1>1. CASE HasSlot(s)
  <2>1. c \in WebIds
    BY <1>1 DEF Accounted, Inert
  <2>2. Same(s, Release(s))
    BY SimpleOps
  <2>3. Release(s) \in Session /\ Accounted(c, Release(s), early)
    BY <2>1, <2>2 DEF Accounted, Owned, Same
  <2>4. t \in DropClient(Release(s))
    BY <1>1 DEF DisconnectClient
  <2> QED
    BY <2>1, <2>3, <2>4, DropClientKeepsAccount
<1>2. CASE ~ HasSlot(s)
  BY <1>2 DEF DisconnectClient
<1> QED
  BY <1>1, <1>2

(* Working off a scheduled removal keeps the account, whatever remains of  *)
(* the call.                                                               *)
LEMMA RemovalKeepsAccount ==
  ASSUME NEW c, NEW s \in Session, NEW early, NEW early2, Accounted(c, s, early)
  PROVE  Removal(s) \in Session /\ Accounted(c, Removal(s), early2)
<1>1. CASE s.removal
  <2>1. c \in WebIds /\ s.udp = FALSE /\ s.conn = FALSE
    BY <1>1 DEF Accounted, Owned, Inert, Session
  <2> DEFINE u == [s EXCEPT !.removal = FALSE]
  <2>2. /\ u \in Session /\ u.removal = FALSE /\ u.udp = s.udp /\ u.conn = s.conn
        /\ Removal(s) = RemoveConnection(u)
    BY Zenon, <1>1 DEF Session, Removal
  <2> HIDE DEF u
  <2>3. /\ Removal(s) \in Session /\ Removal(s).removal = FALSE /\ Removal(s).renet = "none"
        /\ Removal(s).owner = "none" /\ Removal(s).udp = s.udp /\ Removal(s).conn = s.conn
    BY <2>2, ConnectionOps DEF Beside
  <2> QED
    BY <2>1, <2>3 DEF Accounted, Owned
<1>2. CASE ~ s.removal
  BY <1>2 DEF Removal, Accounted
<1> QED
  BY <1>1, <1>2

(* A conditioned packet moves packets; then the scheduled removal is done. *)
LEMMA ConditionedPacketRemoval ==
  ASSUME NEW s \in Session, NEW p \in Packets, NEW t \in ConditionedPacket(s, p)
  PROVE  \E u : Same(s, u) /\ t = Removal(u)
<1> DEFINE rest == [s EXCEPT !.held = @ \ {p}]
<1>1. Same(s, rest)
  BY Zenon DEF Same, Session
<1>2. PICK d \in ProcessPeerPacket(rest, p) :
             \E u \in FlushPeerOutput(Queued(d[1], d[2])) : t = Removal(u)
  <2> HIDE DEF rest
  <2> QED
    BY Zenon DEF ConditionedPacket, rest
<1> HIDE DEF rest
<1>3. Outcome(rest, d)
  BY <1>1, ProcessPeerPacketSame DEF Same
<1>4. Same(d[1], Queued(d[1], d[2]))
  BY <1>3, SimpleOps DEF Outcome, Same
<1>5. Same(s, Queued(d[1], d[2])) /\ Queued(d[1], d[2]) \in Session
  BY <1>1, <1>3, <1>4, SameTransitive DEF Outcome, Same
<1> PICK u \in FlushPeerOutput(Queued(d[1], d[2])) : t = Removal(u)
  BY <1>2
<1>6. Same(s, u)
  BY <1>5, FlushPeerOutputSame, SameTransitive
<1> QED
  BY <1>6

(* One conditioned packet, with the removals after it, keeps the account.  *)
LEMMA ConditionedPacketKeepsAccount ==
  ASSUME NEW c \in WebIds, NEW s \in Session, NEW early, Accounted(c, s, early),
         NEW p \in Packets, NEW t \in ConditionedPacket(s, p)
  PROVE  t \in Session /\ Accounted(c, t, early)
<1>1. PICK u : Same(s, u) /\ t = Removal(u)
  BY ConditionedPacketRemoval
<1>2. u \in Session /\ Accounted(c, u, early)
  BY <1>1 DEF Accounted, Owned, Same
<1> QED
  BY <1>1, <1>2, RemovalKeepsAccount

(* A datagram given to a peer leaves the ownership fields alone.           *)
LEMMA DatagramSame ==
  ASSUME NEW s \in Session, NEW t \in Datagram(s)
  PROVE  Same(s, t)
<1>1. CASE ~ s.drained
  BY <1>1, FlushPeerOutputSame DEF Datagram
<1>2. CASE s.drained
  <2>1. PICK u \in {Kill(s)} \cup {Mutate(s, o) : o \in Outputs} : t \in FlushPeerOutput(u)
    BY <1>2 DEF Datagram
  <2>2. Same(s, u)
    BY <2>1, SimpleOps
  <2> QED
    BY <2>1, <2>2, FlushPeerOutputSame, SameTransitive DEF Same
<1> QED
  BY <1>1, <1>2

(* Pumping a peer leaves the ownership fields alone.                       *)
LEMMA PumpPeerMoves ==
  ASSUME NEW s \in Session, NEW t \in PumpPeer(s)
  PROVE  Moves(s, t)
<1> DEFINE later(u) == {u} \cup (IF u.rtc = "alive" /\ u.drained
                        THEN {Kill(u)} \cup {Mutate(u, o) : o \in {"transmit", "lost"}}
                        ELSE {})
<1>0. PICK u \in FlushPeerOutput(s) : \E v \in later(u) : t \in FlushPeerOutput(v)
  BY DEF PumpPeer
<1>1. PICK v \in later(u) : t \in FlushPeerOutput(v)
  BY <1>0
<1>2. Moves(s, u) /\ u \in Session
  BY FlushPeerOutputSame DEF Moves, Same
<1>3. Same(u, Kill(u)) /\ Same(u, u) /\ \A o \in {"transmit", "lost"} : Same(u, Mutate(u, o))
  BY <1>2, SimpleOps DEF Outputs, Events
<1>4. Same(u, v) /\ (u.rtc = "none" => v = u)
  BY <1>3
<1>5. Moves(v, t)
  BY <1>1, <1>4, FlushPeerOutputSame DEF Moves, Same
<1> QED
  BY <1>2, <1>4, <1>5, SameTransitive DEF Moves

-----------------------------------------------------------------------------
(* A native login (udp_server.rs:244) keeps the account.                   *)
LEMMA UdpConnectedKeepsAccount ==
  ASSUME NEW c \in UdpIds, NEW s \in Session, Accounted(c, s, TRUE), ~ s.udp, DualIdsNotKicked
  PROVE  UdpConnected(s) \in Session /\ Accounted(c, UdpConnected(s), TRUE)
<1> DEFINE t == UdpConnected(s)
<1>1. CASE s.renet = "up"
  <2>1. s.udp = FALSE
    BY DEF Session
  <2>2. t = [s EXCEPT !.udp = FALSE]
    BY <1>1 DEF UdpConnected
  <2> HIDE DEF t
  <2>3. Same(s, t) /\ t.rtc = s.rtc /\ t.net = s.net /\ t.held = s.held
        /\ t.pending = s.pending
    BY Zenon, <2>1, <2>2 DEF Same, Session
  <2> QED
    BY <2>3 DEF Accounted, Owned, Same, Inert, HasSlot, t
<1>2. CASE s.renet = "none"
  <2>1. s.owner = "none" /\ s.conn = FALSE /\ s.removal = FALSE
    BY <1>2 DEF Accounted, Owned, Session
  <2>2. t = [s EXCEPT !.udp = TRUE, !.renet = "up", !.owner = "udp"]
    BY <1>2 DEF UdpConnected, AddConnection, Session
  <2> HIDE DEF t
  <2>3. /\ t \in Session /\ t.udp = TRUE /\ t.renet = "up" /\ t.owner = "udp"
        /\ t.conn = s.conn /\ t.removal = s.removal
        /\ t.rtc = s.rtc /\ t.net = s.net /\ t.held = s.held
        /\ t.pending = s.pending /\ t.batch = s.batch
    BY Zenon, <2>2 DEF Session
  <2> QED
    BY <2>1, <2>3 DEF Accounted, Owned, Inert, HasSlot, t
<1>3. s.renet # "closing"
  <2> SUFFICES ASSUME s.renet = "closing" PROVE FALSE
    OBVIOUS
  <2>1. c \notin WebIds
    BY DEF Accounted, DualIdsNotKicked
  <2>2. s.owner = "none"
    BY <2>1 DEF Accounted, Owned, Inert, Session
  <2> QED
    BY <2>2 DEF Accounted, Owned
<1> QED
  BY Zenon, <1>1, <1>2, <1>3 DEF Session

(* A native disconnection removes the connection UDP owns.                 *)
LEMMA UdpDisconnectedKeepsAccount ==
  ASSUME NEW c, NEW s \in Session, Accounted(c, s, TRUE), s.udp
  PROVE  UdpDisconnected(s) \in Session /\ Accounted(c, UdpDisconnected(s), TRUE)
<1> DEFINE t == UdpDisconnected(s)
<1>1. s.conn = FALSE /\ s.removal = FALSE
  BY DEF Accounted, Owned, Session
<1>2. t = [s EXCEPT !.udp = FALSE, !.renet = "none", !.owner = "none"]
  BY DEF UdpDisconnected, RemoveConnection, Session
<1> HIDE DEF t
<1>3. /\ t \in Session /\ t.udp = FALSE /\ t.renet = "none" /\ t.owner = "none"
      /\ t.conn = s.conn /\ t.removal = s.removal
      /\ t.rtc = s.rtc /\ t.net = s.net /\ t.held = s.held
        /\ t.pending = s.pending /\ t.batch = s.batch
  BY Zenon, <1>2 DEF Session
<1> QED
  BY <1>1, <1>3 DEF Accounted, Owned, Inert, HasSlot, t

(* The phases of UDP precede the first removals of a call, those of the    *)
(* WebRTC handlers follow it.                                              *)
LEMMA PhaseOrder ==
  ASSUME call \in Calls \cup {"idle"}, pc \in 1 .. Len(Program(call))
  PROVE  /\ Phase \in UdpPhases => call # "idle" /\ pc < FirstRemovals(call)
         /\ Phase = "removals" => call # "idle" /\ pc >= FirstRemovals(call)
         /\ Phase \notin UdpPhases \cup {"removals", "idle"} =>
              call # "idle" /\ pc > FirstRemovals(call)
<1>1. CASE call = "update"
  BY <1>1 DEF Program, UpdateProgram, Phase, UdpPhases, FirstRemovals
<1>2. CASE call = "send_packets"
  BY <1>2 DEF Program, SendProgram, Phase, UdpPhases, FirstRemovals
<1>3. CASE call = "disconnect_all"
  BY <1>3 DEF Program, DisconnectAllProgram, Phase, UdpPhases, FirstRemovals
<1>4. CASE call = "idle"
  BY <1>4 DEF Program, Phase, UdpPhases, FirstRemovals
<1> QED
  BY <1>1, <1>2, <1>3, <1>4 DEF Calls

(* A step that rewrites the record of one client keeps the invariant if    *)
(* the new record is accounted for.                                        *)
LEMMA RecordStep ==
  ASSUME OwnershipInv, NEW c \in Clients, NEW S, Becomes(c, S), NEW early \in BOOLEAN,
         call' = call, pc' = pc, todo' = todo \/ todo' = todo \ {c},
         seen' \in [Clients -> 0 .. Quota],
         early => Early(c)',
         \A t \in S : t \in Session /\ Accounted(c, t, early)
  PROVE  OwnershipInv'
<1>1. PICK t \in S : session' = [session EXCEPT ![c] = t]
  BY Zenon DEF Becomes
<1>2. t \in Session /\ Accounted(c, t, Early(c)')
  BY DEF Accounted
<1>3. TypeOK'
  BY <1>1, <1>2 DEF OwnershipInv, TypeOK
<1>4. ASSUME NEW d \in Clients, d # c PROVE Accounted(d, session'[d], Early(d)')
  <2>1. session'[d] = session[d]
    BY <1>1, <1>4 DEF OwnershipInv, TypeOK
  <2>2. Early(d) => Early(d)'
    BY <1>4 DEF Early
  <2> QED
    BY <2>1, <2>2 DEF OwnershipInv, Accounted
<1>5. session'[c] = t
  BY <1>1 DEF OwnershipInv, TypeOK
<1> QED
  BY <1>2, <1>3, <1>4, <1>5 DEF OwnershipInv

(* RecordStep for a deterministic step.                                    *)
LEMMA RecordStepOne ==
  ASSUME OwnershipInv, NEW c \in Clients, NEW t, Becomes(c, {t}),
         call' = call, pc' = pc, todo' = todo \/ todo' = todo \ {c},
         seen' \in [Clients -> 0 .. Quota], Early(c)',
         t \in Session, Accounted(c, t, TRUE)
  PROVE  OwnershipInv'
<1>1. PICK S : S = {t} /\ Becomes(c, S)
  OBVIOUS
<1>2. \A u \in S : u \in Session /\ Accounted(c, u, TRUE)
  BY Zenon, <1>1
<1> QED
  BY Zenon, <1>1, <1>2, RecordStep

(* The facts every step on a client starts from. *)
LEMMA AtClient ==
  ASSUME OwnershipInv, NEW c \in Clients
  PROVE  /\ session[c] \in Session /\ Accounted(c, session[c], TRUE)
         /\ Phase \notin UdpPhases \cup {"removals", "idle"} =>
              Accounted(c, session[c], FALSE)
         /\ Phase \in UdpPhases /\ call' = call /\ pc' = pc => Early(c)'
         /\ call = "idle" => Phase = "idle"
<1>1. session[c] \in Session /\ Accounted(c, session[c], Early(c))
  BY DEF OwnershipInv, TypeOK
<1>2. call \in Calls \cup {"idle"} /\ pc \in 1 .. Len(Program(call))
  BY DEF OwnershipInv, TypeOK
<1>3. Phase \notin UdpPhases \cup {"removals", "idle"} => ~ Early(c)
  <2>1. FirstRemovals(call) \in Nat
    BY <1>2 DEF FirstRemovals, Calls
  <2>2. pc \in Nat
    BY <1>2
  <2> QED
    BY <1>2, <2>1, <2>2, PhaseOrder DEF Early
<1>4. Phase \in UdpPhases /\ call' = call /\ pc' = pc => Early(c)'
  BY <1>2, PhaseOrder DEF Early, FirstRemovals
<1>5. call = "idle" => Phase = "idle"
  BY <1>2 DEF Phase, Program
<1> QED
  BY <1>1, <1>3, <1>4, <1>5 DEF Accounted

(* add_peer, remove_peer and a disconnect request of the application keep  *)
(* the invariant.                                                          *)
LEMMA ApplicationStepKeepsInv ==
  ASSUME OwnershipInv, NEW c \in Clients, ApplicationStep(c)
  PROVE  OwnershipInv'
<1> DEFINE s == session[c]
<1>1. call = "idle" /\ Repeat
  BY DEF ApplicationStep, AddPeerCall, RemovePeerCall, ServerDisconnect
<1>2. s \in Session /\ Accounted(c, s, TRUE)
  BY Zenon, AtClient
<1>3. Early(c)' /\ call' = call /\ pc' = pc /\ todo' = todo /\ seen' \in [Clients -> 0 .. Quota]
  BY <1>1 DEF Repeat, Early, OwnershipInv, TypeOK
<1>4. CASE AddPeerCall(c)
  <2>1. c \in WebIds /\ Becomes(c, {AddPeer(s)})
    BY <1>4 DEF AddPeerCall
  <2>2. RemovePeer(s) \in Session /\ Accounted(c, RemovePeer(s), TRUE)
    BY Zenon, <1>2, <2>1, RemovePeerKeepsAccount
  <2>3. Same(RemovePeer(s), AddPeer(s))
    BY Zenon, <2>2 DEF Same, Session, AddPeer, Outputs
  <2>4. AddPeer(s) \in Session /\ Accounted(c, AddPeer(s), TRUE)
    BY <2>1, <2>2, <2>3 DEF Accounted, Owned, Same
  <2> QED
    BY Zenon, <1>3, <2>1, <2>4, RecordStepOne
<1>5. CASE RemovePeerCall(c)
  <2>1. c \in WebIds /\ Becomes(c, {RemovePeer(s)})
    BY <1>5 DEF RemovePeerCall
  <2>2. RemovePeer(s) \in Session /\ Accounted(c, RemovePeer(s), TRUE)
    BY Zenon, <1>2, <2>1, RemovePeerKeepsAccount
  <2> QED
    BY Zenon, <1>3, <2>1, <2>2, RecordStepOne
<1>6. CASE ServerDisconnect(c)
  <2> DEFINE t == [s EXCEPT !.renet = "closing"]
  <2>1. c \in Kickable /\ s.renet = "up" /\ Becomes(c, {t})
    BY <1>6 DEF ServerDisconnect
  <2>2. /\ t \in Session /\ t.renet = "closing" /\ t.owner = s.owner /\ t.udp = s.udp
        /\ t.conn = s.conn /\ t.removal = s.removal /\ t.batch = s.batch
        /\ t.rtc = s.rtc /\ t.net = s.net /\ t.held = s.held
        /\ t.pending = s.pending
    BY <1>2 DEF Session
  <2> HIDE DEF t
  <2>3. t \in Session /\ Accounted(c, t, TRUE)
    BY <1>2, <2>1, <2>2 DEF Accounted, Owned, Inert, HasSlot
  <2> QED
    BY Zenon, <1>3, <2>1, <2>3, RecordStepOne
<1> QED
  BY <1>4, <1>5, <1>6 DEF ApplicationStep

(* Every loop of the UDP transport keeps the invariant.                    *)
LEMMA UdpStepKeepsInv ==
  ASSUME OwnershipInv, DualIdsNotKicked, NEW c \in Clients, UdpStep(c)
  PROVE  OwnershipInv'
<1> DEFINE s == session[c]
<1>1. s \in Session /\ Accounted(c, s, TRUE)
  BY Zenon, AtClient
<1>2. s.udp => UdpDisconnected(s) \in Session /\ Accounted(c, UdpDisconnected(s), TRUE)
  BY Zenon, <1>1, UdpDisconnectedKeepsAccount
<1>3. Phase \in UdpPhases
  BY DEF UdpStep, UdpReceive, UdpUpdateClient, UdpDisconnection, UdpDisconnectAll,
         Visiting, UdpPhases
<1>4. call' = call /\ pc' = pc
  BY DEF UdpStep, UdpReceive, UdpUpdateClient, UdpDisconnection, UdpDisconnectAll, Visited
<1>5. Early(c)'
  BY Zenon, <1>3, <1>4, AtClient
<1>6. CASE UdpReceive(c)
  <2>1. c \in UdpIds /\ todo' = todo /\ seen' \in [Clients -> 0 .. Quota]
    <3>1. seen \in [Clients -> 0 .. Quota] /\ Quota \in Nat
      BY ConstantTypes DEF OwnershipInv, TypeOK
    <3> QED
      BY <1>6, <3>1 DEF UdpReceive
  <2>2. CASE ~ s.udp /\ Becomes(c, {UdpConnected(s)})
    <3>1. UdpConnected(s) \in Session /\ Accounted(c, UdpConnected(s), TRUE)
      BY Zenon, <1>1, <2>1, <2>2, UdpConnectedKeepsAccount
    <3> QED
      BY Zenon, <1>4, <1>5, <2>1, <2>2, <3>1, RecordStepOne
  <2>3. CASE s.udp /\ Becomes(c, {UdpDisconnected(s)})
    BY Zenon, <1>2, <1>4, <1>5, <2>1, <2>3, RecordStepOne
  <2> QED
    BY <1>6, <2>2, <2>3 DEF UdpReceive
<1>7. CASE ~ UdpReceive(c)
  <2>1. PICK S : S \subseteq {s} \cup {u \in {UdpDisconnected(s)} : s.udp} /\ Becomes(c, S)
    BY <1>7 DEF UdpStep, UdpUpdateClient, UdpDisconnection, UdpDisconnectAll
  <2>2. \A t \in S : t \in Session /\ Accounted(c, t, TRUE)
    BY Zenon, <1>1, <1>2, <2>1
  <2>3. todo' = todo \ {c} /\ seen' \in [Clients -> 0 .. Quota]
    BY <1>7 DEF UdpStep, UdpUpdateClient, UdpDisconnection, UdpDisconnectAll, Visited,
               OwnershipInv, TypeOK
  <2> QED
    BY Zenon, <1>4, <1>5, <2>1, <2>2, <2>3, RecordStep
<1> QED
  BY <1>6, <1>7

(* A step of a phase after the first removals, on one client. *)
LEMMA LateStep ==
  ASSUME OwnershipInv, NEW c \in Clients, NEW S, Becomes(c, S),
         Visited(c) \/ Repeat \/ (UNCHANGED <<call, pc, todo>>
                                  /\ seen' = [seen EXCEPT ![c] = @ + 1] /\ seen[c] < Quota),
         \A t \in S : t \in Session /\ Accounted(c, t, FALSE)
  PROVE  OwnershipInv'
<1>1. call' = call /\ pc' = pc /\ (todo' = todo \/ todo' = todo \ {c})
  BY DEF Visited, Repeat
<1>2. seen' \in [Clients -> 0 .. Quota]
  <2>1. seen \in [Clients -> 0 .. Quota] /\ Quota \in Nat
    BY ConstantTypes DEF OwnershipInv, TypeOK
  <2>2. CASE seen' = seen
    BY <2>1, <2>2
  <2>3. CASE seen' = [seen EXCEPT ![c] = @ + 1] /\ seen[c] < Quota
    BY <2>1, <2>3
  <2> QED
    BY <2>2, <2>3 DEF Visited, Repeat
<1> QED
  BY Zenon, <1>1, <1>2, RecordStep

(* LateStep for a deterministic step.                                      *)
LEMMA LateStepOne ==
  ASSUME OwnershipInv, NEW c \in Clients, NEW t, Becomes(c, {t}), Visited(c) \/ Repeat,
         t \in Session, Accounted(c, t, FALSE)
  PROVE  OwnershipInv'
<1>1. PICK S : S = {t} /\ Becomes(c, S)
  OBVIOUS
<1>2. \A u \in S : u \in Session /\ Accounted(c, u, FALSE)
  BY Zenon, <1>1
<1> QED
  BY Zenon, <1>1, <1>2, LateStep

(* The removals at the head of apply_pending_results keep the invariant.   *)
LEMMA DrainRemovalKeepsInv ==
  ASSUME OwnershipInv, NEW c \in Clients, DrainRemoval(c)
  PROVE  OwnershipInv'
<1> DEFINE s == session[c]
<1>1. s \in Session /\ Accounted(c, s, TRUE)
  BY Zenon, AtClient
<1>2. Removal(s) \in Session /\ Accounted(c, Removal(s), FALSE)
  BY Zenon, <1>1, RemovalKeepsAccount
<1>3. Becomes(c, {Removal(s)}) /\ Visited(c)
  BY DEF DrainRemoval
<1> QED
  BY Zenon, <1>2, <1>3, LateStepOne

(* Every loop of the WebRTC transport keeps the invariant.                 *)
LEMMA WebRtcStepKeepsInv ==
  ASSUME OwnershipInv, DualIdsNotKicked, NEW c \in Clients, WebRtcStep(c)
  PROVE  OwnershipInv'
<1> DEFINE s == session[c]
           Fine(t) == t \in Session /\ Accounted(c, t, FALSE)
<1>1. CASE DrainRemoval(c)
  BY <1>1, DrainRemovalKeepsInv
<1>2. CASE ~ DrainRemoval(c)
  <2>1. Phase \notin UdpPhases \cup {"removals", "idle"}
    BY <1>2 DEF WebRtcStep, TakeResults, HandleResult, ResultsHandled, DrainIncoming,
         DrainOutgoing, FlushOutput, RouteSocketInput, Pump, UpdateClient, Disconnection,
         SendPackets, DisconnectAll, ClearPeers, Visiting, UdpPhases
  <2>2. Fine(s) /\ s \in Session
    BY Zenon, <2>1, AtClient
  <2>3. ASSUME NEW t, Moves(s, t) PROVE Fine(t)
    BY Zenon, <2>2, <2>3, MovesKeepsAccount
  <2>4. Moves(s, s)
    BY <2>2, SimpleOps DEF Moves
  <2>5. c \notin WebIds => Inert(s)
    BY <2>2 DEF Accounted
  <2> HIDE DEF s
  <2>6. CASE TakeResults(c)
    <3> DEFINE q == s.batch \o s.pending
               t == [s EXCEPT !.batch = q, !.pending = <<>>]
    <3>1. Becomes(c, {t}) /\ (Repeat \/ Visited(c))
      BY <2>6 DEF TakeResults, s
    <3>2. s.batch = <<>> /\ s.pending \in Seq(Results) /\ q = s.pending
      BY <2>2, <2>6 DEF TakeResults, Session, s
    <3> HIDE DEF q
    <3>3. /\ t \in Session /\ t.renet = s.renet /\ t.owner = s.owner /\ t.udp = s.udp
          /\ t.conn = s.conn /\ t.removal = s.removal /\ t.rtc = s.rtc /\ t.net = s.net
          /\ t.held = s.held /\ t.batch = q /\ t.pending = <<>>
      BY Zenon, <2>2, <3>2 DEF Session
    <3> HIDE DEF t
    <3>4. Fine(t)
      BY <2>2, <3>2, <3>3 DEF Accounted, Owned, Inert, HasSlot
    <3> QED
      BY Zenon, <3>1, <3>4, LateStepOne
  <2>7. CASE HandleResult(c)
    <3> DEFINE u == [s EXCEPT !.batch = Tail(@)]
               r == Head(s.batch)
    <3>1. s.batch # <<>> /\ Repeat /\ Becomes(c, HandleServerResult(u, r))
      BY <2>7 DEF HandleResult, s
    <3>2. s.batch \in Seq(Results) /\ r \in Results /\ Tail(s.batch) \in Seq(Results)
      BY <2>2, <3>1 DEF Session
    <3>3. c \in WebIds
      BY <2>5, <3>1 DEF Inert
    <3>4. /\ u \in Session /\ u.renet = s.renet /\ u.owner = s.owner /\ u.udp = s.udp
          /\ u.conn = s.conn /\ u.removal = s.removal
      BY Zenon, <2>2, <3>2 DEF Session
    <3> HIDE DEF u, r
    <3>5. Fine(u)
      BY <2>2, <3>3, <3>4 DEF Accounted, Owned
    <3>6. \A t \in HandleServerResult(u, r) : Fine(t)
      BY Zenon, <3>2, <3>3, <3>5, HandleServerResultKeepsAccount
    <3> QED
      BY Zenon, <3>1, <3>6, LateStep
  <2>8. CASE ResultsHandled(c)
    <3>1. Becomes(c, {s}) /\ Visited(c)
      <4>1. session = [session EXCEPT ![c] = s]
        BY DEF OwnershipInv, TypeOK, s
      <4> QED
        BY <2>8, <4>1 DEF ResultsHandled, Becomes
    <3> QED
      BY Zenon, <2>2, <3>1, LateStepOne
  <2>9. CASE DrainIncoming(c)
    <3>1. PICK p \in s.held : Becomes(c, ConditionedPacket(s, p))
      BY <2>9 DEF DrainIncoming, s
    <3>2. p \in Packets /\ c \in WebIds
      BY <2>2, <2>5, <3>1 DEF Session, Inert
    <3>3. \A t \in ConditionedPacket(s, p) : Fine(t)
      BY Zenon, <2>2, <3>2, ConditionedPacketKeepsAccount
    <3>4. Repeat
      BY <2>9 DEF DrainIncoming
    <3> QED
      BY Zenon, <3>1, <3>3, <3>4, LateStep
  <2>10. CASE DrainOutgoing(c)
    <3> DEFINE sent == [s EXCEPT !.deferred = FALSE]
               S == {s} \cup (IF s.deferred THEN {sent} \cup SendToPeerBackend(sent) ELSE {})
    <3>1. Becomes(c, S) /\ Visited(c)
      BY <2>10 DEF DrainOutgoing, s
    <3>2. /\ Same(s, sent) /\ sent.rtc = s.rtc /\ sent.net = s.net
          /\ sent.held = s.held /\ sent.pending = s.pending
      BY Zenon, <2>2 DEF Same, Session
    <3>3. Fine(sent)
      BY <2>2, <3>2 DEF Accounted, Owned, Same, Inert, HasSlot
    <3> HIDE DEF sent
    <3>4. \A t \in SendToPeerBackend(sent) : Moves(sent, t)
      BY <3>3, SendToPeerBackendSame DEF Moves
    <3>5. \A t \in SendToPeerBackend(sent) : Fine(t)
      BY Zenon, <3>3, <3>4, MovesKeepsAccount
    <3>6. \A t \in S : Fine(t)
      BY Zenon, <2>2, <3>3, <3>5
    <3> HIDE DEF S
    <3> QED
      BY Zenon, <3>1, <3>6, LateStep
  <2>11. CASE FlushOutput(c)
    <3>1. \A t \in FlushPeerOutput(s) : Fine(t)
      BY Zenon, <2>2, <2>3, FlushPeerOutputSame DEF Moves
    <3>2. Becomes(c, FlushPeerOutput(s)) /\ Visited(c)
      BY <2>11 DEF FlushOutput, s
    <3> QED
      BY Zenon, <3>1, <3>2, LateStep
  <2>12. CASE RouteSocketInput(c)
    <3>1. c \in WebIds
      BY <2>5, <2>12 DEF RouteSocketInput, Inert, s
    <3>2. \A t \in Datagram(s) : Same(s, t)
      BY <2>2, DatagramSame
    <3>3. \A t \in Datagram(s) : Fine(t)
      BY <2>2, <3>1, <3>2 DEF Accounted, Owned, Same
    <3>4. /\ Becomes(c, Datagram(s)) /\ UNCHANGED <<call, pc, todo>>
          /\ seen' = [seen EXCEPT ![c] = @ + 1] /\ seen[c] < Quota
      BY <2>12 DEF RouteSocketInput, s
    <3> QED
      BY Zenon, <3>3, <3>4, LateStep
  <2>13. CASE Pump(c)
    <3>1. \A t \in PumpPeer(s) : Fine(t)
      BY Zenon, <2>2, <2>3, PumpPeerMoves
    <3>2. Becomes(c, PumpPeer(s)) /\ Visited(c)
      BY <2>13 DEF Pump, s
    <3> QED
      BY Zenon, <3>1, <3>2, LateStep
  <2>14. \A t \in SendToPeer(s) : Fine(t)
    BY Zenon, <2>2, <2>3, SendToPeerSame DEF Moves
  <2>15. \A t \in DisconnectClient(s) : Fine(t)
    BY Zenon, <2>2, DisconnectClientKeepsAccount
  <2>16. \A t \in HandleServerResult(s, "packet") : Fine(t)
    BY Zenon, <2>2, <2>14 DEF HandleServerResult
  <2>17. CASE UpdateClient(c)
    <3>1. PICK S : /\ S \subseteq {s} \cup HandleServerResult(s, "packet") \cup DisconnectClient(s)
                   /\ Becomes(c, S)
      BY <2>17 DEF UpdateClient, s
    <3>2. Visited(c)
      BY <2>17 DEF UpdateClient
    <3>3. \A t \in S : Fine(t)
      BY Zenon, <2>2, <2>15, <2>16, <3>1
    <3> QED
      BY Zenon, <3>1, <3>2, <3>3, LateStep
  <2>18. CASE Disconnection(c)
    <3>1. PICK S : S \subseteq {s} \cup DisconnectClient(s) /\ Becomes(c, S)
      BY <2>18 DEF Disconnection, s
    <3>2. Visited(c)
      BY <2>18 DEF Disconnection
    <3>3. \A t \in S : Fine(t)
      BY Zenon, <2>2, <2>15, <3>1
    <3> QED
      BY Zenon, <3>1, <3>2, <3>3, LateStep
  <2>19. CASE SendPackets(c)
    <3>1. PICK S : S \subseteq {s} \cup SendToPeer(s) /\ Becomes(c, S)
      BY <2>19 DEF SendPackets, s
    <3>2. Visited(c)
      BY <2>19 DEF SendPackets
    <3>3. \A t \in S : Fine(t)
      BY Zenon, <2>2, <2>14, <3>1
    <3> QED
      BY Zenon, <3>1, <3>2, <3>3, LateStep
  <2>20. CASE DisconnectAll(c)
    <3>1. Becomes(c, DisconnectClient(s)) /\ Visited(c)
      BY <2>20 DEF DisconnectAll, s
    <3> QED
      BY Zenon, <2>15, <3>1, LateStep
  <2>21. CASE ClearPeers(c)
    <3>1. Becomes(c, {DropPeer(s)}) /\ Visited(c)
      BY <2>21 DEF ClearPeers, s
    <3>2. Fine(DropPeer(s))
      BY Zenon, <2>2, DropPeerKeepsAccount
    <3> QED
      BY Zenon, <3>1, <3>2, LateStepOne
  <2> QED
    BY <1>2, <2>6, <2>7, <2>8, <2>9, <2>10, <2>11, <2>12, <2>13, <2>17, <2>18, <2>19,
       <2>20, <2>21 DEF WebRtcStep
<1> QED
  BY <1>1, <1>2

(* Every call has at least one phase.                                      *)
LEMMA ProgramLengths ==
  \A k \in Calls \cup {"idle"} : Len(Program(k)) \in Nat \ {0}
<1>1. Len(UpdateProgram) = 26 /\ Len(SendProgram) = 13 /\ Len(DisconnectAllProgram) = 7
  BY DEF UpdateProgram, SendProgram, DisconnectAllProgram
<1>2. /\ Program("update") = UpdateProgram /\ Program("send_packets") = SendProgram
      /\ Program("disconnect_all") = DisconnectAllProgram /\ Program("idle") = <<"idle">>
  BY DEF Program
<1>3. Len(<<"idle">>) = 1
  OBVIOUS
<1>4. /\ Len(Program("update")) \in Nat \ {0} /\ Len(Program("send_packets")) \in Nat \ {0}
      /\ Len(Program("disconnect_all")) \in Nat \ {0} /\ Len(Program("idle")) \in Nat \ {0}
  <2>1. 26 \in Nat \ {0} /\ 13 \in Nat \ {0} /\ 7 \in Nat \ {0} /\ 1 \in Nat \ {0}
    OBVIOUS
  <2> QED
    BY Zenon, <1>1, <1>2, <1>3, <2>1
<1> QED
  BY Zenon, <1>4 DEF Calls

(* A step that only moves the program counter to the start of a phase.     *)
LEMMA StartPhaseKeepsInv ==
  ASSUME OwnershipInv, UNCHANGED session,
         NEW k \in Calls \cup {"idle"}, NEW n \in 1 .. Len(Program(k)), StartPhase(k, n),
         \A c \in Clients : Early(c) => Early(c)'
  PROVE  OwnershipInv'
<1>1. TypeOK'
  <2>1. session' \in [Clients -> Session] /\ call' = k /\ pc' = n
    BY DEF OwnershipInv, TypeOK, StartPhase
  <2>2. todo' \subseteq Clients
    BY DEF StartPhase
  <2>3. seen' \in [Clients -> 0 .. Quota]
    BY ConstantTypes DEF StartPhase
  <2>4. pc' \in 1 .. Len(Program(call'))
    BY <2>1
  <2> QED
    BY <2>1, <2>2, <2>3, <2>4 DEF TypeOK
<1>2. ASSUME NEW c \in Clients PROVE Accounted(c, session'[c], Early(c)')
  BY DEF OwnershipInv, Accounted
<1> QED
  BY <1>1, <1>2 DEF OwnershipInv

(* Beginning a call, going to its next phase, leaving a phase early and a  *)
(* failed receive keep the invariant.                                      *)
LEMMA ControlStepKeepsInv ==
  ASSUME OwnershipInv,
         (\E k \in Calls : Begin(k)) \/ NextPhase \/ ReceiveFails
            \/ \E c \in Clients : Skip(c)
  PROVE  OwnershipInv'
<1> USE ConstantTypes
<1>1. call \in Calls \cup {"idle"} /\ pc \in 1 .. Len(Program(call)) /\ todo \subseteq Clients
  BY DEF OwnershipInv, TypeOK
<1>2. \A k \in Calls : FirstRemovals(k) \in Nat /\ FirstRemovals(k) >= 1
  BY DEF FirstRemovals, Calls
<1>3. ASSUME StartPhase("idle", 1), UNCHANGED session PROVE OwnershipInv'
  <2>1. \A c \in Clients : Early(c)'
    BY <1>3 DEF StartPhase, Early
  <2>2. 1 \in 1 .. Len(Program("idle"))
    BY ProgramLengths
  <2> QED
    BY <1>3, <2>1, <2>2, StartPhaseKeepsInv
<1>4. CASE \E k \in Calls : Begin(k)
  <2>1. PICK k \in Calls : StartPhase(k, 1) /\ UNCHANGED session
    BY <1>4 DEF Begin
  <2>2. k # "idle"
    BY DEF Calls
  <2>3. \A c \in Clients : Early(c)'
    <3>1. call' = k /\ pc' = 1 /\ todo' = Clients
      BY <2>1, <2>2 DEF StartPhase
    <3>2. FirstRemovals(call') >= 1 /\ FirstRemovals(call') \in Nat
      BY <1>2, <3>1
    <3> QED
      BY <3>1, <3>2 DEF Early
  <2>4. 1 \in 1 .. Len(Program(k))
    BY ProgramLengths
  <2> QED
    BY <2>1, <2>3, <2>4, StartPhaseKeepsInv
<1>5. CASE NextPhase /\ pc # Len(Program(call))
  <2>1. StartPhase(call, pc + 1) /\ UNCHANGED session /\ call \in Calls /\ todo = {}
        /\ call # "idle"
    BY <1>1, <1>5 DEF NextPhase
  <2>2. pc + 1 \in 1 .. Len(Program(call)) /\ pc \in Nat
    BY <1>1, <1>5, ProgramLengths
  <2>3. call' = call /\ pc' = pc + 1 /\ todo' = Clients
    BY <2>1 DEF StartPhase
  <2>4. FirstRemovals(call) \in Nat /\ FirstRemovals(call') = FirstRemovals(call)
    BY <1>2, <2>1, <2>3
  <2>5. \A c \in Clients : Early(c) => Early(c)'
    BY <2>1, <2>2, <2>3, <2>4 DEF Early
  <2> QED
    BY <2>1, <2>2, <2>5, StartPhaseKeepsInv
<1>6. CASE NextPhase /\ pc = Len(Program(call))
  BY <1>3, <1>6 DEF NextPhase
<1>7. CASE ReceiveFails
  BY <1>3, <1>7 DEF ReceiveFails
<1>8. CASE \E c \in Clients : Skip(c)
  <2>1. PICK c \in Clients : Skip(c)
    BY <1>8
  <2>2. Becomes(c, {session[c]})
    <3>1. session = [session EXCEPT ![c] = session[c]]
      BY DEF OwnershipInv, TypeOK
    <3> QED
      BY <2>1, <3>1 DEF Skip, Becomes
  <2>3. /\ call' = call /\ pc' = pc /\ todo' = todo \ {c} /\ seen' \in [Clients -> 0 .. Quota]
    BY <2>1 DEF Skip, Visited, OwnershipInv, TypeOK
  <2>4. CASE Phase = "udp_receive"
    <3>1. Early(c)'
      BY Zenon, <2>3, <2>4, AtClient DEF UdpPhases
    <3> QED
      BY Zenon, <2>2, <2>3, <3>1, AtClient, RecordStepOne
  <2>5. CASE Phase = "route"
    <3>1. session[c] \in Session /\ Accounted(c, session[c], FALSE)
      BY Zenon, <2>5, AtClient DEF UdpPhases
    <3>2. Visited(c)
      BY <2>1 DEF Skip
    <3> QED
      BY Zenon, <2>2, <3>1, <3>2, LateStepOne
  <2> QED
    BY <2>1, <2>4, <2>5 DEF Skip
<1> QED
  BY <1>4, <1>5, <1>6, <1>7, <1>8

-----------------------------------------------------------------------------
(* OwnershipInv is inductive for every set of clients, quota and failure   *)
(* flag, as long as no id that may use both transports is kicked: the      *)
(* hypothesis the run mixed_dual_kick shows to be needed.                  *)
THEOREM OwnershipInvariant ==
  ASSUME DualIdsNotKicked
  PROVE  Spec => []OwnershipInv
<1>1. Init => OwnershipInv
  <2> SUFFICES ASSUME Init PROVE OwnershipInv
    OBVIOUS
  <2>1. Fresh \in Session
    BY FreshTyped
  <2>2. TypeOK
    BY <2>1, ConstantTypes, ProgramLengths DEF Init, TypeOK
  <2>3. ASSUME NEW c \in Clients PROVE Accounted(c, session[c], Early(c))
    <3>1. /\ Fresh.udp = FALSE /\ Fresh.conn = FALSE /\ Fresh.removal = FALSE
          /\ Fresh.renet = "none" /\ Fresh.owner = "none"
      BY SMT DEF Fresh
    <3>2. /\ Fresh.rtc = "none" /\ Fresh.net = "free" /\ Fresh.held = {}
          /\ Fresh.pending = <<>> /\ Fresh.batch = <<>>
      BY Zenon DEF Fresh
    <3>3. Owned(Fresh)
      BY <3>1 DEF Owned
    <3>4. Inert(Fresh)
      BY <3>1, <3>2 DEF Inert, HasSlot
    <3>5. Accounted(c, Fresh, Early(c))
      BY <3>1, <3>3, <3>4 DEF Accounted
    <3> QED
      BY <3>5 DEF Init
  <2> QED
    BY <2>2, <2>3 DEF OwnershipInv
<1>2. OwnershipInv /\ [Next]_vars => OwnershipInv'
  <2> SUFFICES ASSUME OwnershipInv, [Next]_vars PROVE OwnershipInv'
    OBVIOUS
  <2>1. CASE UNCHANGED vars
    BY Zenon, <2>1 DEF vars, OwnershipInv, TypeOK, Early
  <2>2. CASE Next
    BY <2>2, ControlStepKeepsInv, ApplicationStepKeepsInv, UdpStepKeepsInv,
       WebRtcStepKeepsInv DEF Next
  <2> QED
    BY <2>1, <2>2
<1> QED
  BY <1>1, <1>2, PTL DEF Spec

(* Every Renet connection is owned by exactly the transport that added it. *)
THEOREM Ownership ==
  ASSUME DualIdsNotKicked
  PROVE  Spec => []OwnershipAgrees
<1>1. OwnershipInv => OwnershipAgrees
  BY DEF OwnershipInv, OwnershipAgrees, Accounted
<1> QED
  BY <1>1, OwnershipInvariant, PTL

-----------------------------------------------------------------------------
(* The handlers of the WebRTC transport do not know UDP's clients.         *)
LEMMA HandlersKeepUdp ==
  ASSUME NEW s \in Session
  PROVE  /\ RemovePeer(s).udp = s.udp /\ AddPeer(s).udp = s.udp /\ Removal(s).udp = s.udp
         /\ \A t \in AcceptClient(s) \cup RejectDuplicate(s) \cup DropClient(s) : t.udp = s.udp
<1>1. \A u \in Session : RemovePeer(u).udp = u.udp /\ RemovePeer(u) \in Session
  BY RemovePeerOps, Zenon
<1>2. AddPeer(s).udp = s.udp
  BY <1>1 DEF AddPeer, Session
<1>3. Removal(s).udp = s.udp
  BY DEF Removal, RemoveConnection, Session
<1>4. ASSUME NEW t \in AcceptClient(s) PROVE t.udp = s.udp
  <2> DEFINE a == AddConnection(s, "webrtc")
             n == IF HasSlot(s) THEN "live" ELSE a.net
             u == [a EXCEPT !.conn = TRUE, !.route = TRUE, !.net = n]
  <2>1. a \in Session /\ a.udp = s.udp
    BY ConnectionOps, Zenon DEF Beside
  <2>2. n \in {"free", "pending", "used", "live"}
    BY <2>1 DEF Session
  <2>3. t \in SendToPeer(u)
    BY <1>4 DEF AcceptClient
  <2> HIDE DEF a, n
  <2>4. u \in Session /\ u.udp = a.udp
    BY Zenon, <2>1, <2>2 DEF Session
  <2> HIDE DEF u
  <2> QED
    BY <2>1, <2>3, <2>4, SendToPeerSame DEF Same
<1>5. ASSUME NEW t \in RejectDuplicate(s) PROVE t.udp = s.udp
  <2>1. PICK u \in IF HasSlot(s) THEN SendToPeer(Release(s)) ELSE {s} : t = RemovePeer(u)
    BY <1>5 DEF RejectDuplicate
  <2>2. Same(s, Release(s)) /\ Same(s, s)
    BY SimpleOps
  <2>3. Same(s, u)
    BY <2>1, <2>2, SendToPeerSame, SameTransitive DEF Same
  <2> QED
    BY <1>1, <2>1, <2>3 DEF Same
<1>6. ASSUME NEW t \in DropClient(s) PROVE t.udp = s.udp
  <2> DEFINE left == [s EXCEPT !.conn = FALSE]
             gone == IF s.conn THEN RemoveConnection(left) ELSE s
             shut == [gone EXCEPT !.route = FALSE]
  <2>1. gone \in Session /\ gone.udp = s.udp
    <3>1. left \in Session /\ left.udp = s.udp
      BY Zenon DEF Session
    <3> HIDE DEF left
    <3>2. RemoveConnection(left) \in Session /\ RemoveConnection(left).udp = left.udp
      BY <3>1, ConnectionOps, Zenon DEF Beside
    <3> QED
      BY <3>1, <3>2, Zenon
  <2>2. PICK u \in {shut} \cup SendToPeer(shut) : t = DropPeer(u)
    BY Zenon, <1>6 DEF DropClient
  <2> HIDE DEF gone
  <2>3. shut \in Session /\ shut.udp = gone.udp
    BY Zenon, <2>1 DEF Session
  <2> HIDE DEF shut
  <2>4. Same(shut, u)
    BY <2>2, <2>3, SimpleOps, SendToPeerSame
  <2>5. Same(u, DropPeer(u))
    BY <2>4, SimpleOps DEF Same
  <2> QED
    BY <2>1, <2>2, <2>3, <2>4, <2>5 DEF Same
<1> QED
  BY <1>1, <1>2, <1>3, <1>4, <1>5, <1>6

(* No step outside the loops of UDP changes udp_server.rs's clients.       *)
LEMMA WebRtcKeepsUdp ==
  ASSUME TypeOK, NEW c \in Clients, ApplicationStep(c) \/ WebRtcStep(c), NEW d \in Clients
  PROVE  session'[d].udp = session[d].udp
<1> DEFINE s == session[c]
<1>1. s \in Session /\ session \in [Clients -> Session]
  BY DEF TypeOK
<1>2. ASSUME NEW S, Becomes(c, S), \A t \in S : t.udp = s.udp
      PROVE  session'[d].udp = session[d].udp
  <2>1. PICK t \in S : session' = [session EXCEPT ![c] = t]
    BY Zenon, <1>2 DEF Becomes
  <2> QED
    BY <1>1, <1>2, <2>1
<1>3. \A u \in Session : Same(s, u) => u.udp = s.udp
  BY DEF Same
<1> HIDE DEF s
<1>4. CASE ApplicationStep(c)
  <2>1. PICK S : Becomes(c, S) /\ S \subseteq {AddPeer(s), RemovePeer(s), [s EXCEPT !.renet = "closing"]}
    BY <1>4 DEF ApplicationStep, AddPeerCall, RemovePeerCall, ServerDisconnect, s
  <2>2. [s EXCEPT !.renet = "closing"].udp = s.udp
    BY <1>1 DEF Session
  <2>3. \A t \in S : t.udp = s.udp
    BY Zenon, <1>1, <2>1, <2>2, HandlersKeepUdp
  <2> QED
    BY <1>2, <2>1, <2>3
<1>5. \A t \in HandleServerResult(s, "packet") \cup SendToPeer(s) : t.udp = s.udp
  BY Zenon, <1>1, SendToPeerSame DEF HandleServerResult, Same
<1>6. \A t \in DisconnectClient(s) : t.udp = s.udp
  <2>1. Release(s) \in Session /\ Release(s).udp = s.udp
    BY <1>1, SimpleOps DEF Same
  <2> QED
    BY <1>1, <2>1, HandlersKeepUdp DEF DisconnectClient
<1>7. CASE HandleResult(c)
  <2> DEFINE u == [s EXCEPT !.batch = Tail(@)]
             r == Head(s.batch)
  <2>1. s.batch # <<>> /\ Becomes(c, HandleServerResult(u, r))
    BY <1>7 DEF HandleResult, s
  <2>2. r \in Results /\ Tail(s.batch) \in Seq(Results)
    BY <1>1, <2>1 DEF Session
  <2>3. u \in Session /\ u.udp = s.udp
    BY Zenon, <1>1, <2>2 DEF Session
  <2> HIDE DEF u, r
  <2>4. HandleServerResult(u, r) \subseteq
          {u} \cup SendToPeer(u) \cup AcceptClient(u) \cup RejectDuplicate(u) \cup DropClient(u)
    BY Zenon, <2>2 DEF HandleServerResult, Results
  <2>5. \A t \in SendToPeer(u) : t.udp = u.udp
    BY <2>3, SendToPeerSame DEF Same
  <2>6. \A t \in HandleServerResult(u, r) : t.udp = s.udp
    BY Zenon, <2>3, <2>4, <2>5, HandlersKeepUdp
  <2> QED
    <3>1. PICK t \in HandleServerResult(u, r) : session' = [session EXCEPT ![c] = t]
      BY <2>1, Zenon DEF Becomes
    <3>2. t.udp = s.udp
      BY <2>6, <3>1, Zenon
    <3> QED
      BY <1>1, <3>1, <3>2 DEF s
<1>8. CASE DrainIncoming(c)
  <2>1. PICK p \in s.held : Becomes(c, ConditionedPacket(s, p))
    BY <1>8 DEF DrainIncoming, s
  <2>2. p \in Packets
    BY <1>1 DEF Session
  <2>3. \A t \in ConditionedPacket(s, p) : \E u : Same(s, u) /\ t = Removal(u)
    BY Zenon, <1>1, <2>2, ConditionedPacketRemoval
  <2>4. \A t \in ConditionedPacket(s, p) : t.udp = s.udp
    BY <2>3, HandlersKeepUdp DEF Same
  <2> QED
    BY <1>2, <2>1, <2>4
<1>9. CASE DrainOutgoing(c)
  <2> DEFINE sent == [s EXCEPT !.deferred = FALSE]
             S == {s} \cup (IF s.deferred THEN {sent} \cup SendToPeerBackend(sent) ELSE {})
  <2>1. Becomes(c, S)
    BY <1>9 DEF DrainOutgoing, s
  <2>2. sent \in Session /\ sent.udp = s.udp
    BY Zenon, <1>1 DEF Session
  <2> HIDE DEF sent
  <2>3. \A t \in SendToPeerBackend(sent) : t.udp = s.udp
    BY <2>2, SendToPeerBackendSame DEF Same
  <2>4. \A t \in S : t.udp = s.udp
    BY Zenon, <2>2, <2>3
  <2> HIDE DEF S
  <2> QED
    BY <1>2, <2>1, <2>4
<1>10. CASE DrainRemoval(c) \/ TakeResults(c) \/ ResultsHandled(c) \/ ClearPeers(c)
  <2> DEFINE q == s.batch \o s.pending
             taken == [s EXCEPT !.batch = q, !.pending = <<>>]
  <2>1. taken.udp = s.udp /\ DropPeer(s).udp = s.udp /\ Removal(s).udp = s.udp
    BY Zenon, <1>1, HandlersKeepUdp DEF Session, DropPeer
  <2>2. session = [session EXCEPT ![c] = s]
    BY <1>1 DEF s
  <2>3. ResultsHandled(c) => Becomes(c, {s})
    BY <2>2 DEF ResultsHandled, Becomes
  <2>4. TakeResults(c) => Becomes(c, {taken})
    BY DEF TakeResults, s
  <2> HIDE DEF taken
  <2>5. PICK S : Becomes(c, S) /\ S \subseteq {s, taken, DropPeer(s), Removal(s)}
    BY <1>10, <2>3, <2>4 DEF DrainRemoval, ClearPeers, s
  <2>6. \A t \in S : t.udp = s.udp
    BY Zenon, <2>1, <2>5
  <2> QED
    BY <1>2, <2>5, <2>6
<1>11. CASE FlushOutput(c) \/ RouteSocketInput(c) \/ Pump(c) \/ SendPackets(c)
  <2>1. PICK S : /\ Becomes(c, S)
                 /\ S \subseteq FlushPeerOutput(s) \cup Datagram(s) \cup PumpPeer(s)
                                \cup {s} \cup SendToPeer(s)
    BY <1>11 DEF FlushOutput, RouteSocketInput, Pump, SendPackets, s
  <2>2. \A t \in FlushPeerOutput(s) \cup Datagram(s) \cup PumpPeer(s) : t.udp = s.udp
    BY <1>1, FlushPeerOutputSame, DatagramSame, PumpPeerMoves DEF Moves, Same
  <2>3. \A t \in S : t.udp = s.udp
    BY Zenon, <1>5, <2>1, <2>2
  <2> QED
    BY <1>2, <2>1, <2>3
<1>12. CASE UpdateClient(c) \/ Disconnection(c) \/ DisconnectAll(c)
  <2>1. PICK S : /\ Becomes(c, S)
                 /\ S \subseteq {s} \cup HandleServerResult(s, "packet") \cup DisconnectClient(s)
    BY <1>12 DEF UpdateClient, Disconnection, DisconnectAll, s
  <2>2. \A t \in S : t.udp = s.udp
    BY Zenon, <1>5, <1>6, <2>1
  <2> QED
    BY <1>2, <2>1, <2>2
<1> QED
  BY <1>4, <1>7, <1>8, <1>9, <1>10, <1>11, <1>12 DEF WebRtcStep

(* Nor does a step of the UDP loops touch what WebRTC tracks.              *)
LEMMA UdpKeepsWebRtc ==
  ASSUME TypeOK, NEW c \in Clients, UdpStep(c), NEW d \in Clients
  PROVE  session'[d].conn = session[d].conn /\ session'[d].removal = session[d].removal
<1> DEFINE s == session[c]
<1>1. s \in Session /\ session \in [Clients -> Session]
  BY DEF TypeOK
<1>2. PICK S : S \subseteq {s, UdpConnected(s), UdpDisconnected(s)} /\ Becomes(c, S)
  BY DEF UdpStep, UdpReceive, UdpUpdateClient, UdpDisconnection, UdpDisconnectAll
<1>3. PICK t \in S : session' = [session EXCEPT ![c] = t]
  BY Zenon, <1>2 DEF Becomes
<1>4. t.conn = s.conn /\ t.removal = s.removal
  <2>1. UdpConnected(s).conn = s.conn /\ UdpConnected(s).removal = s.removal
    BY <1>1 DEF UdpConnected, AddConnection, Session
  <2>2. UdpDisconnected(s).conn = s.conn /\ UdpDisconnected(s).removal = s.removal
    BY <1>1 DEF UdpDisconnected, RemoveConnection, Session
  <2> QED
    BY Zenon, <1>2, <2>1, <2>2
<1> QED
  BY <1>1, <1>3, <1>4

(* A teardown in one transport never removes the connection the other      *)
(* transport added: a connection that goes loses the only claim on it, and *)
(* each transport gives up its own claims only.                            *)
THEOREM NoForeignRemovalHolds ==
  ASSUME DualIdsNotKicked
  PROVE  Spec => NoForeignRemoval
<1> DEFINE Fair == \A c \in Clients :
                      Removes(c) => (session[c].owner = "udp" <=> Phase \in UdpPhases)
<1>1. ASSUME OwnershipInv, OwnershipInv', Next PROVE Fair
  <2> SUFFICES ASSUME NEW d \in Clients, Removes(d)
               PROVE  session[d].owner = "udp" <=> Phase \in UdpPhases
    OBVIOUS
  <2>1. TypeOK /\ Owned(session[d]) /\ Owned(session'[d])
    BY <1>1 DEF OwnershipInv, Accounted
  <2>2. session[d].renet # "none" /\ session'[d].renet = "none"
    BY DEF Removes
  <2>3. CASE UNCHANGED session
    BY <2>2, <2>3
  <2>4. ASSUME NEW c \in Clients, ApplicationStep(c) \/ WebRtcStep(c)
        PROVE  session[d].owner = "udp" <=> Phase \in UdpPhases
    <3>1. session'[d].udp = session[d].udp
      BY <2>1, <2>4, WebRtcKeepsUdp
    <3>2. session[d].owner # "udp"
      BY <2>1, <2>2, <3>1 DEF Owned
    <3>3. ApplicationStep(c) => Phase = "idle"
      BY <2>1 DEF ApplicationStep, AddPeerCall, RemovePeerCall, ServerDisconnect, Phase,
                  Program, TypeOK
    <3>4. WebRtcStep(c) => Phase \notin UdpPhases
      BY DEF WebRtcStep, DrainRemoval, TakeResults, HandleResult, ResultsHandled,
         DrainIncoming, DrainOutgoing, FlushOutput, RouteSocketInput, Pump, UpdateClient,
         Disconnection, SendPackets, DisconnectAll, ClearPeers, Visiting, UdpPhases
    <3> QED
      BY <2>4, <3>2, <3>3, <3>4 DEF UdpPhases
  <2>5. ASSUME NEW c \in Clients, UdpStep(c)
        PROVE  session[d].owner = "udp" <=> Phase \in UdpPhases
    <3>1. session'[d].conn = session[d].conn /\ session'[d].removal = session[d].removal
      BY <2>1, <2>5, UdpKeepsWebRtc
    <3>2. session[d] \in Session
      BY <2>1 DEF TypeOK
    <3>3. session[d].owner = "udp"
      BY <2>1, <2>2, <3>1, <3>2 DEF Owned, Session
    <3>4. Phase \in UdpPhases
      BY <2>5 DEF UdpStep, UdpReceive, UdpUpdateClient, UdpDisconnection, UdpDisconnectAll,
                  Visiting, UdpPhases
    <3> QED
      BY <3>3, <3>4
  <2> QED
    BY <1>1, <2>3, <2>4, <2>5 DEF Next, Begin, NextPhase, ReceiveFails, Skip
<1>2. OwnershipInv /\ OwnershipInv' /\ [Next]_vars => [Fair]_vars
  BY <1>1
<1> HIDE DEF Fair
<1>3. Spec => [][Fair]_vars
  BY <1>2, OwnershipInvariant, PTL DEF Spec
<1> QED
  BY <1>3 DEF Fair, NoForeignRemoval

-----------------------------------------------------------------------------
(***************************************************************************)
(* The tables of one client, function by function (MixedTablesProofs goes  *)
(* on with the handlers and the actions).  TablesInv speaks of queues      *)
(* only through four predicates (LogsIn, Silent, Ordered, Opens): the      *)
(* first lemmas say what appending a result and taking the first one do to *)
(* them, and no later proof looks into a queue.  Then the packet functions *)
(* of server.rs: a client whose tables are Kept and whose Rtc is Rested is *)
(* left so.  No hypothesis on kicked ids is needed for this.               *)
(***************************************************************************)

(* The predicates of an empty queue.                                       *)
LEMMA EmptyQueue ==
  /\ Silent(<<>>) /\ ~ LogsIn(<<>>) /\ Ordered(<<>>) /\ ~ Opens(<<>>)
  /\ "payload" \notin Range(<<>>)
<1>1. Len(<<>>) = 0 /\ 1 .. 0 = {}
  OBVIOUS
<1>2. DOMAIN <<>> = {}
  OBVIOUS
<1> QED
  BY <1>1, <1>2 DEF Silent, LogsIn, Ordered, Opens, Range

(* Appending a result to a queue (pending_server_results.push).            *)
LEMMA AppendResult ==
  ASSUME NEW q \in Seq(Results), NEW r \in Results
  PROVE  LET p == Append(q, r)
         IN /\ Silent(p) <=> r \notin Lifecycle /\ Silent(q)
            /\ LogsIn(p) <=> r = "connected" \/ (r # "disconnected" /\ LogsIn(q))
            /\ Ordered(p) <=> Ordered(q) /\ (r = "connected" => ~ LogsIn(q))
            /\ Opens(p) <=> Opens(q) \/ (r = "connected" /\ Silent(q))
            /\ "payload" \in Range(p) <=> r = "payload" \/ "payload" \in Range(q)
<1> DEFINE p == Append(q, r)
           n == Len(q)
<1>1. n \in Nat /\ Len(p) = n + 1 /\ p[n + 1] = r /\ \A i \in 1 .. n : p[i] = q[i]
  OBVIOUS
<1>2. DOMAIN q = 1 .. n /\ DOMAIN p = 1 .. n + 1
  BY <1>1
<1> HIDE DEF p, n
<1>3. Silent(p) <=> r \notin Lifecycle /\ Silent(q)
  BY <1>1 DEF Silent, n
<1>4. LogsIn(p) <=> r = "connected" \/ (r # "disconnected" /\ LogsIn(q))
  <2>1. ASSUME LogsIn(p) PROVE r = "connected" \/ (r # "disconnected" /\ LogsIn(q))
    BY <1>1, <2>1 DEF LogsIn, n, Lifecycle
  <2>2. ASSUME r = "connected" PROVE LogsIn(p)
    BY <1>1, <2>2 DEF LogsIn
  <2>3. ASSUME r \notin Lifecycle, LogsIn(q) PROVE LogsIn(p)
    BY <1>1, <2>3 DEF LogsIn, n
  <2> QED
    BY <2>1, <2>2, <2>3 DEF Lifecycle
<1>5. Ordered(p) <=> Ordered(q) /\ (r = "connected" => ~ LogsIn(q))
  <2>1. ASSUME Ordered(p) PROVE Ordered(q)
    BY <1>1, <2>1 DEF Ordered, n
  <2>2. ASSUME Ordered(p), r = "connected" PROVE ~ LogsIn(q)
    BY <1>1, <2>2 DEF Ordered, LogsIn, n
  <2>3. ASSUME Ordered(q), r = "connected" => ~ LogsIn(q) PROVE Ordered(p)
    <3> SUFFICES ASSUME NEW i \in 1 .. n + 1, NEW j \in 1 .. n + 1, i < j,
                        p[i] = "connected", p[j] = "connected"
                 PROVE  \E k \in i + 1 .. j - 1 : p[k] \in Lifecycle
      BY <1>1 DEF Ordered
    <3>1. CASE j \in 1 .. n
      BY <1>1, <2>3, <3>1 DEF Ordered, n
    <3>2. CASE j = n + 1
      <4>1. i \in 1 .. n /\ q[i] = "connected" /\ ~ LogsIn(q)
        BY <1>1, <2>3, <3>2
      <4>2. PICK k \in i + 1 .. n : q[k] \in Lifecycle
        BY <4>1 DEF LogsIn, n
      <4> QED
        BY <1>1, <3>2, <4>1, <4>2
    <3> QED
      BY <1>1, <3>1, <3>2
  <2> QED
    BY <2>1, <2>2, <2>3
<1>6. Opens(p) <=> Opens(q) \/ (r = "connected" /\ Silent(q))
  BY <1>1 DEF Opens, Silent, n
<1>7. "payload" \in Range(p) <=> r = "payload" \/ "payload" \in Range(q)
  BY <1>1, <1>2 DEF Range
<1> QED
  BY <1>3, <1>4, <1>5, <1>6, <1>7 DEF p

(* A queued departure ends whatever the queue announced.                   *)
LEMMA AppendDisconnected ==
  ASSUME NEW q \in Seq(Results), NEW p, p = Append(q, "disconnected")
  PROVE  /\ ~ LogsIn(p) /\ ~ Silent(p)
         /\ Ordered(p) <=> Ordered(q)
         /\ Opens(p) <=> Opens(q)
         /\ "payload" \in Range(p) <=> "payload" \in Range(q)
<1> DEFINE r == "disconnected"
<1>1. r \in Results /\ r \in Lifecycle /\ r # "connected" /\ r # "payload"
  BY DEF Results, Lifecycle
<1>2. p = Append(q, r)
  OBVIOUS
<1>3. /\ Silent(p) <=> r \notin Lifecycle /\ Silent(q)
      /\ LogsIn(p) <=> r = "connected" \/ (r # "disconnected" /\ LogsIn(q))
      /\ Ordered(p) <=> Ordered(q) /\ (r = "connected" => ~ LogsIn(q))
      /\ Opens(p) <=> Opens(q) \/ (r = "connected" /\ Silent(q))
      /\ "payload" \in Range(p) <=> r = "payload" \/ "payload" \in Range(q)
  <2> HIDE DEF r
  <2> QED
    BY <1>1, <1>2, AppendResult
<1> QED
  BY <1>1, <1>3, Zenon

(* Taking the first result out of a queue.                                 *)
LEMMA TakeFirst ==
  ASSUME NEW q \in Seq(Results), q # <<>>
  PROVE  LET h == Head(q)
             p == Tail(q)
         IN /\ h \in Results /\ p \in Seq(Results)
            /\ Silent(q) <=> h \notin Lifecycle /\ Silent(p)
            /\ LogsIn(q) <=> LogsIn(p) \/ (h = "connected" /\ Silent(p))
            /\ Ordered(q) => Ordered(p) /\ (h = "connected" => ~ Opens(p))
            /\ Opens(q) <=> h = "connected" \/ (h \notin Lifecycle /\ Opens(p))
            /\ "payload" \in Range(q) <=> h = "payload" \/ "payload" \in Range(p)
<1> DEFINE h == Head(q)
           p == Tail(q)
           n == Len(p)
<1>1. /\ n \in Nat /\ Len(q) = n + 1 /\ h = q[1] /\ h \in Results /\ p \in Seq(Results)
      /\ \A i \in 1 .. n : p[i] = q[i + 1]
  OBVIOUS
<1>2. DOMAIN p = 1 .. n /\ DOMAIN q = 1 .. n + 1
  BY <1>1
<1>0. ASSUME NEW i \in 1 .. n + 1
      PROVE  i = 1 \/ \E j \in 1 .. n : i = j + 1 /\ q[i] = p[j]
  <2>1. i # 1 => i - 1 \in 1 .. n /\ i = (i - 1) + 1
    BY <1>1
  <2> QED
    BY <1>1, <2>1
<1> HIDE DEF h, p, n
<1>3. Silent(q) <=> h \notin Lifecycle /\ Silent(p)
  <2>1. ASSUME Silent(q) PROVE h \notin Lifecycle /\ Silent(p)
    BY <1>1, <2>1 DEF Silent, n
  <2>2. ASSUME h \notin Lifecycle, Silent(p) PROVE Silent(q)
    BY <1>0, <1>1, <2>2 DEF Silent, n
  <2> QED
    BY <2>1, <2>2
<1>4. LogsIn(q) <=> LogsIn(p) \/ (h = "connected" /\ Silent(p))
  <2>1. ASSUME LogsIn(q) PROVE LogsIn(p) \/ (h = "connected" /\ Silent(p))
    <3>1. PICK i \in 1 .. n + 1 : q[i] = "connected"
                                  /\ \A j \in i + 1 .. n + 1 : q[j] \notin Lifecycle
      BY <1>1, <2>1 DEF LogsIn
    <3>2. \A j \in i .. n : p[j] \notin Lifecycle
      BY <1>1, <3>1
    <3>3. CASE i = 1
      BY <1>1, <3>1, <3>2, <3>3 DEF Silent, n
    <3>4. CASE i # 1
      <4>1. PICK j \in 1 .. n : i = j + 1 /\ q[i] = p[j]
        BY <1>0, <3>4
      <4> QED
        BY <3>1, <3>2, <4>1 DEF LogsIn, n
    <3> QED
      BY <3>3, <3>4
  <2>2. ASSUME LogsIn(p) PROVE LogsIn(q)
    <3>1. PICK i \in 1 .. n : p[i] = "connected" /\ \A j \in i + 1 .. n : p[j] \notin Lifecycle
      BY <2>2 DEF LogsIn, n
    <3>2. ASSUME NEW k \in i + 2 .. n + 1 PROVE q[k] \notin Lifecycle
      <4>1. PICK j \in 1 .. n : k = j + 1 /\ q[k] = p[j]
        BY <1>0, <1>1
      <4> QED
        BY <1>1, <3>1, <4>1
    <3>3. i + 1 \in 1 .. Len(q) /\ q[i + 1] = "connected"
      BY <1>1, <3>1
    <3> QED
      BY <1>1, <3>2, <3>3 DEF LogsIn
  <2>3. ASSUME h = "connected", Silent(p) PROVE LogsIn(q)
    <3>1. ASSUME NEW k \in 1 + 1 .. n + 1 PROVE q[k] \notin Lifecycle
      <4>1. PICK m \in 1 .. n : k = m + 1 /\ q[k] = p[m]
        BY <1>0, <1>1
      <4> QED
        BY <2>3, <4>1 DEF Silent, n
    <3>2. 1 \in 1 .. Len(q) /\ q[1] = "connected" /\ Len(q) = n + 1
      BY <1>1, <2>3
    <3> QED
      BY <3>1, <3>2 DEF LogsIn
  <2> QED
    BY <2>1, <2>2, <2>3
<1>5. Ordered(q) => Ordered(p) /\ (h = "connected" => ~ Opens(p))
  <2>1. ASSUME Ordered(q) PROVE Ordered(p)
    <3> SUFFICES ASSUME NEW i \in 1 .. n, NEW j \in 1 .. n, i < j,
                        p[i] = "connected", p[j] = "connected"
                 PROVE  \E k \in i + 1 .. j - 1 : p[k] \in Lifecycle
      BY DEF Ordered, n
    <3>1. /\ i + 1 \in 1 .. Len(q) /\ j + 1 \in 1 .. Len(q) /\ i + 1 < j + 1
          /\ q[i + 1] = "connected" /\ q[j + 1] = "connected"
      BY <1>1
    <3>2. PICK k \in i + 2 .. j : q[k] \in Lifecycle
      <4>1. \E k \in (i + 1) + 1 .. (j + 1) - 1 : q[k] \in Lifecycle
        BY <2>1, <3>1 DEF Ordered
      <4> QED
        BY <4>1
    <3>3. PICK m \in 1 .. n : k = m + 1 /\ q[k] = p[m]
      BY <1>0, <1>1, <3>2
    <3> QED
      BY <3>2, <3>3
  <2>2. ASSUME Ordered(q), h = "connected", Opens(p) PROVE FALSE
    <3>1. PICK i \in 1 .. n : p[i] = "connected" /\ \A j \in 1 .. i - 1 : p[j] \notin Lifecycle
      BY <2>2 DEF Opens, n
    <3>2. i + 1 \in 1 .. Len(q) /\ q[i + 1] = "connected" /\ 1 \in 1 .. Len(q) /\ 1 < i + 1
          /\ q[1] = "connected"
      BY <1>1, <2>2, <3>1
    <3>3. PICK k \in 2 .. i : q[k] \in Lifecycle
      <4>1. \E k \in 1 + 1 .. (i + 1) - 1 : q[k] \in Lifecycle
        BY <2>2, <3>2 DEF Ordered
      <4> QED
        BY <4>1
    <3>4. PICK m \in 1 .. n : k = m + 1 /\ q[k] = p[m]
      BY <1>0, <1>1, <3>3
    <3> QED
      BY <3>1, <3>3, <3>4
  <2> QED
    BY <2>1, <2>2
<1>6. Opens(q) <=> h = "connected" \/ (h \notin Lifecycle /\ Opens(p))
  <2>1. ASSUME Opens(q), h # "connected" PROVE h \notin Lifecycle /\ Opens(p)
    <3>1. PICK i \in 1 .. n + 1 : q[i] = "connected" /\ \A j \in 1 .. i - 1 : q[j] \notin Lifecycle
      BY <1>1, <2>1 DEF Opens
    <3>2. PICK m \in 1 .. n : i = m + 1 /\ q[i] = p[m]
      BY <1>0, <1>1, <2>1, <3>1
    <3>3. p[m] = "connected" /\ q[1] \notin Lifecycle
      BY <3>1, <3>2
    <3>4. \A j \in 1 .. m - 1 : p[j] \notin Lifecycle
      BY <1>1, <3>1, <3>2
    <3> QED
      BY <1>1, <3>3, <3>4 DEF Opens, n
  <2>2. ASSUME h = "connected" PROVE Opens(q)
    <3>1. 1 \in 1 .. Len(q) /\ q[1] = "connected" /\ 1 .. 1 - 1 = {}
      BY <1>1, <2>2
    <3> QED
      BY <3>1 DEF Opens
  <2>3. ASSUME h \notin Lifecycle, Opens(p) PROVE Opens(q)
    <3>1. PICK i \in 1 .. n : p[i] = "connected" /\ \A j \in 1 .. i - 1 : p[j] \notin Lifecycle
      BY <2>3 DEF Opens, n
    <3>2. i + 1 \in 1 .. Len(q) /\ q[i + 1] = "connected"
      BY <1>1, <3>1
    <3>3. ASSUME NEW k \in 1 .. (i + 1) - 1 PROVE q[k] \notin Lifecycle
      <4>1. CASE k = 1
        BY <1>1, <2>3, <4>1
      <4>2. CASE k # 1
        <5>1. PICK m \in 1 .. n : k = m + 1 /\ q[k] = p[m]
          BY <1>0, <1>1, <4>2
        <5> QED
          BY <3>1, <5>1
      <4> QED
        BY <4>1, <4>2
    <3> QED
      BY <3>2, <3>3 DEF Opens
  <2> QED
    BY <2>1, <2>2, <2>3
<1>7. "payload" \in Range(q) <=> h = "payload" \/ "payload" \in Range(p)
  <2>1. ASSUME NEW i \in 1 .. n + 1, q[i] = "payload", i # 1 PROVE "payload" \in Range(p)
    <3>1. PICK m \in 1 .. n : i = m + 1 /\ q[i] = p[m]
      BY <1>0, <1>1, <2>1
    <3> QED
      BY <1>2, <2>1, <3>1 DEF Range
  <2>2. ASSUME NEW i \in 1 .. n, p[i] = "payload" PROVE "payload" \in Range(q)
    <3>1. i + 1 \in 1 .. n + 1 /\ q[i + 1] = "payload"
      BY <1>1, <2>2
    <3> QED
      BY <1>2, <3>1 DEF Range
  <2>3. h \in Range(q)
    BY <1>1, <1>2 DEF Range
  <2> QED
    BY <1>1, <1>2, <2>1, <2>2, <2>3 DEF Range
<1> QED
  BY <1>1, <1>3, <1>4, <1>5, <1>6, <1>7 DEF h, p

-----------------------------------------------------------------------------
(* How the functions that move packets treat the tables of a client: they  *)
(* stay Kept, no payload appears from nowhere, and a client that is not in *)
(* the middle of a handshake stays Calm; Settles rules out a new login.    *)
Fares(s, t) == Kept(t) /\ (Feeds(t) => Feeds(s)) /\ (s.net # "pending" /\ Calm(s) => Calm(t))

Settles(s, t) == Kept(t) /\ (Feeds(t) => Feeds(s)) /\ (Calm(s) => Calm(t))

(* Settling composes with itself and with faring.                          *)
LEMMA FaresCompose ==
  ASSUME NEW s, NEW t, NEW u, Settles(t, u)
  PROVE  (Fares(s, t) => Fares(s, u)) /\ (Settles(s, t) => Settles(s, u) /\ Fares(s, u))
  BY DEF Fares, Settles

(* The tables of t are those of s, the queues of the packet gate aside     *)
(* once the channel is open.                                               *)
Alike(s, t) ==
    /\ t.rtc = "none" <=> s.rtc = "none"
    /\ t.route = s.route /\ t.net = s.net /\ t.conn = s.conn /\ t.renet = s.renet
    /\ t.pending = s.pending /\ t.batch = s.batch
    /\ t.rtc = "none" => t.held = s.held
    /\ t.rtc # "none" => t.open \/ (~ s.open /\ t.held = s.held /\ t.deferred = s.deferred)

(* The same tables are as good.                                            *)
LEMMA AlikeSettles ==
  ASSUME NEW s \in Session, NEW t \in Session, Kept(s), Alike(s, t)
  PROVE  Settles(s, t)
<1>1. (HasSlot(t) <=> HasSlot(s)) /\ (Announced(t) <=> Announced(s)) /\ (Handled(t) <=> Handled(s))
  BY DEF Alike, HasSlot, Announced, Handled
<1>2. (Feeds(t) <=> Feeds(s)) /\ (Calm(t) <=> Calm(s))
  BY <1>1 DEF Alike, Feeds, Calm
<1>3. Kept(t)
  BY <1>1, <1>2, Zenon DEF Kept, Alike
<1> QED
  BY <1>2, <1>3 DEF Settles

(* The same tables fare as well.                                           *)
LEMMA AlikeFares ==
  ASSUME NEW s \in Session, NEW t \in Session, NEW u, Alike(s, t), Fares(t, u)
  PROVE  Fares(s, u)
<1>1. (HasSlot(t) <=> HasSlot(s)) /\ (Feeds(t) <=> Feeds(s)) /\ (Calm(t) <=> Calm(s))
  BY DEF Alike, HasSlot, Feeds, Calm
<1> QED
  BY <1>1 DEF Fares, Alike

(* What netcode may do to the tables of a client with an open channel: let *)
(* it in with a queued login, let it go with a queued departure, or queue  *)
(* something else; payloads come from confirmed clients.                   *)
Pushes(s, t) ==
    \/ t.pending = s.pending /\ (HasSlot(t) <=> HasSlot(s))
    \/ t.pending = Append(s.pending, "packet") /\ (HasSlot(t) <=> HasSlot(s))
    \/ t.pending = Append(s.pending, "payload") /\ (HasSlot(t) <=> HasSlot(s)) /\ s.net = "live"
    \/ t.pending = Append(s.pending, "connected") /\ HasSlot(t) /\ s.net = "pending"
    \/ t.pending = Append(s.pending, "disconnected") /\ ~ HasSlot(t) /\ HasSlot(s)

(* Such a step keeps the tables.                                           *)
LEMMA PushFares ==
  ASSUME NEW s \in Session, NEW t \in Session, Kept(s), Pushes(s, t),
         s.rtc # "none", t.rtc # "none", s.open, t.open, t.net = "live" => s.net = "live",
         t.conn = s.conn, t.batch = s.batch, t.renet = s.renet
  PROVE  Fares(s, t)
<1>1. Handled(t) <=> Handled(s)
  BY DEF Handled
<1>2. s.pending \in Seq(Results) /\ Results = {"packet", "payload", "connected", "disconnected"}
  BY DEF Session, Results
<1>3. ~ HasSlot(s) => ~ Announced(s)
  BY DEF Kept
<1>4. t.open /\ s.open /\ Ordered(t.batch) /\ (t.conn => ~ Opens(t.batch))
  BY DEF Kept
<1>5. SUFFICES /\ HasSlot(t) <=> Announced(t)
               /\ Ordered(t.pending) /\ (Handled(t) => ~ Opens(t.pending))
               /\ Feeds(t) => Feeds(s)
               /\ s.net # "pending" /\ Calm(s) => Calm(t)
  BY <1>4, Zenon DEF Fares, Kept
<1>6. HasSlot(s) <=> Announced(s)
  BY <1>3, Zenon DEF Kept
<1>7. Ordered(s.pending) /\ (Handled(s) => ~ Opens(s.pending))
  BY DEF Kept
<1>8. CASE t.pending = s.pending /\ (HasSlot(t) <=> HasSlot(s))
  BY <1>1, <1>6, <1>7, <1>8 DEF Announced, Calm, Feeds
<1>9. CASE t.pending = Append(s.pending, "packet") /\ (HasSlot(t) <=> HasSlot(s))
  <2>1. /\ Silent(t.pending) <=> Silent(s.pending)
        /\ LogsIn(t.pending) <=> LogsIn(s.pending)
        /\ Ordered(t.pending) <=> Ordered(s.pending)
        /\ Opens(t.pending) <=> Opens(s.pending)
        /\ "payload" \in Range(t.pending) <=> "payload" \in Range(s.pending)
    BY <1>2, <1>9, AppendResult DEF Lifecycle
  <2> QED
    BY <1>1, <1>6, <1>7, <1>9, <2>1 DEF Announced, Calm, Feeds
<1>10. CASE /\ t.pending = Append(s.pending, "payload") /\ (HasSlot(t) <=> HasSlot(s))
            /\ s.net = "live"
  <2>1. /\ Silent(t.pending) <=> Silent(s.pending)
        /\ LogsIn(t.pending) <=> LogsIn(s.pending)
        /\ Ordered(t.pending) <=> Ordered(s.pending)
        /\ Opens(t.pending) <=> Opens(s.pending)
    BY <1>2, <1>10, AppendResult DEF Lifecycle
  <2> QED
    BY <1>1, <1>6, <1>7, <1>10, <2>1 DEF Announced, Calm, Feeds
<1>11. CASE t.pending = Append(s.pending, "connected") /\ HasSlot(t) /\ s.net = "pending"
  <2>1. /\ LogsIn(t.pending)
        /\ Ordered(t.pending) <=> Ordered(s.pending) /\ ~ LogsIn(s.pending)
        /\ Opens(t.pending) <=> Opens(s.pending) \/ Silent(s.pending)
        /\ "payload" \in Range(t.pending) <=> "payload" \in Range(s.pending)
    BY <1>2, <1>11, AppendResult
  <2>2. ~ HasSlot(s)
    BY <1>11 DEF HasSlot
  <2> QED
    BY <1>1, <1>6, <1>7, <1>11, <2>1, <2>2 DEF Announced, Calm, Feeds
<1>12. CASE t.pending = Append(s.pending, "disconnected") /\ ~ HasSlot(t) /\ HasSlot(s)
  <2>1. /\ ~ LogsIn(t.pending) /\ ~ Silent(t.pending)
        /\ Ordered(t.pending) <=> Ordered(s.pending)
        /\ Opens(t.pending) <=> Opens(s.pending)
        /\ "payload" \in Range(t.pending) <=> "payload" \in Range(s.pending)
    BY <1>2, <1>12, AppendResult DEF Lifecycle
  <2> QED
    BY <1>1, <1>6, <1>7, <1>12, <2>1 DEF Announced, Calm, Feeds
<1> QED
  BY <1>8, <1>9, <1>10, <1>11, <1>12 DEF Pushes

(* A peer that leaves the map keeps the tables if its slot stays as it     *)
(* was, if its departure is queued, or, after a fatal drain, if the slot   *)
(* was given up already.                                                   *)
LEMMA DropSettles ==
  ASSUME NEW s \in Session, NEW t \in Session, Kept(s),
         t.rtc = "none", ~ t.route, t.held = {},
         t.conn = s.conn, t.batch = s.batch, t.renet = s.renet,
         t.net = "live" => s.net = "live",
         \/ t.pending = s.pending /\ (HasSlot(t) <=> HasSlot(s))
         \/ t.pending = Append(s.pending, "disconnected") /\ ~ HasSlot(t)
         \/ FatalDrain /\ t.pending = s.pending /\ ~ HasSlot(t)
  PROVE  Settles(s, t)
<1>1. Handled(t) <=> Handled(s)
  BY DEF Handled
<1>2. s.pending \in Seq(Results) /\ "disconnected" \in Results
  BY DEF Session, Results
<1>3. CASE t.pending = Append(s.pending, "disconnected") /\ ~ HasSlot(t)
  <2>1. /\ ~ LogsIn(t.pending) /\ ~ Silent(t.pending)
        /\ Ordered(t.pending) <=> Ordered(s.pending)
        /\ Opens(t.pending) <=> Opens(s.pending)
        /\ "payload" \in Range(t.pending) <=> "payload" \in Range(s.pending)
    BY <1>2, <1>3, AppendDisconnected, Zenon
  <2>2. ~ Announced(t) /\ (Feeds(t) => Feeds(s)) /\ Calm(t)
    BY <1>3, <2>1 DEF Announced, Feeds, Calm
  <2> QED
    BY <1>1, <1>3, <2>1, <2>2, Zenon DEF Kept, Settles
<1>4. CASE t.pending = s.pending /\ (HasSlot(t) <=> HasSlot(s))
  <2>1. (Announced(t) <=> Announced(s)) /\ (Feeds(t) => Feeds(s)) /\ (Calm(s) => Calm(t))
    BY <1>1, <1>4 DEF Announced, Feeds, Calm
  <2> QED
    BY <1>1, <1>4, <2>1, Zenon DEF Kept, Settles
<1>5. CASE FatalDrain /\ t.pending = s.pending /\ ~ HasSlot(t)
  <2>1. (Feeds(t) => Feeds(s)) /\ Calm(t)
    BY <1>5 DEF Feeds, Calm
  <2> QED
    BY <1>1, <1>5, <2>1, Zenon DEF Kept, Settles
<1> QED
  BY <1>3, <1>4, <1>5

-----------------------------------------------------------------------------
(* The outcomes of NetcodeServer::process_packet and the identity check.   *)
PacketOutcome(s, d) ==
    \/ d = <<s, "none">>
    \/ d = <<s, "packet">>
    \/ ~ HasSlot(s) /\ \E n \in {"free", "pending"} : d = <<[s EXCEPT !.net = n], "packet">>
    \/ s.net = "pending" /\ d = <<[s EXCEPT !.net = "used"], "connected">>
    \/ s.net = "live" /\ d = <<s, "payload">>
    \/ HasSlot(s) /\ d = <<[s EXCEPT !.net = "free"], "disconnected">>
    \/ d = <<Kill(s), "none">>

(* process_peer_packet has no other outcome.                               *)
LEMMA PacketOutcomes ==
  ASSUME NEW s \in Session, NEW p \in Packets, NEW d \in ProcessPeerPacket(s, p)
  PROVE  PacketOutcome(s, d)
<1>1. CASE p = "hello"
  BY <1>1 DEF ProcessPeerPacket, PacketOutcome
<1>2. CASE p = "connect"
  <2>1. s.net = "pending" => ~ HasSlot(s)
    BY DEF HasSlot
  <2> QED
    BY <1>2, <2>1 DEF ProcessPeerPacket, PacketOutcome
<1>3. CASE p = "payload"
  BY <1>3 DEF ProcessPeerPacket, PacketOutcome
<1>4. CASE p = "bye"
  BY <1>4 DEF ProcessPeerPacket, PacketOutcome, Release
<1>5. CASE p = "foreign"
  BY <1>5 DEF ProcessPeerPacket, PacketOutcome
<1> QED
  BY <1>1, <1>2, <1>3, <1>4, <1>5 DEF Packets

(* What a str0m event leaves alone until its result is queued.             *)
Steady(s, t) ==
    /\ t.rtc # "none" /\ t.pending = s.pending
    /\ t.out = s.out /\ t.drained = s.drained /\ t.misused = s.misused

(* handle_peer_event returns a pair, and does not touch the Rtc's output.  *)
LEMMA EventSteady ==
  ASSUME NEW s \in Session, s.rtc # "none", NEW e \in Events, NEW d \in HandlePeerEvent(s, e)
  PROVE  \E w \in Session, r \in Results \cup {"none"} :
            d = <<w, r>> /\ Same(s, w) /\ Steady(s, w)
<1>1. Outcome(s, d)
  BY HandlePeerEventSame
<1>2. d[1] \in Session /\ d[2] \in Results \cup {"none"} /\ Same(s, d[1])
  BY <1>1 DEF Outcome, Same
<1> SUFFICES d = <<d[1], d[2]>> /\ Steady(s, d[1])
  BY <1>2
<1>3. /\ Steady(s, s) /\ Steady(s, Kill(s)) /\ Steady(s, [s EXCEPT !.open = TRUE])
      /\ \A n \in {"free", "pending", "used", "live"} : Steady(s, [s EXCEPT !.net = n])
  BY DEF Steady, Kill, Session
<1>4. CASE e \in Packets
  <2>1. Steady(s, [s EXCEPT !.held = @ \cup {e}])
    BY DEF Steady, Session
  <2>2. e # "open" /\ e # "lost"
    BY <1>4 DEF Packets
  <2>3. \/ d = <<s, "none">> \/ d = <<[s EXCEPT !.held = @ \cup {e}], "none">>
        \/ d \in ProcessPeerPacket(s, e)
    BY <2>2 DEF HandlePeerEvent, DeferIncoming
  <2>4. CASE d \in ProcessPeerPacket(s, e)
    BY <1>3, <1>4, <2>4, PacketOutcomes DEF PacketOutcome
  <2> QED
    BY <1>3, <2>1, <2>3, <2>4
<1>5. CASE e = "open"
  <2>1. d = <<[s EXCEPT !.open = TRUE], "none">>
    BY <1>5 DEF HandlePeerEvent
  <2> QED
    BY <1>3, <2>1
<1>6. CASE e = "lost"
  <2>1. d = <<Kill(s), "none">>
    BY <1>6 DEF HandlePeerEvent
  <2> QED
    BY <1>3, <2>1
<1> QED
  BY <1>4, <1>5, <1>6 DEF Events

-----------------------------------------------------------------------------
(* The parts of a drain: poll_output is called, the output it held is      *)
(* taken and handled, and then str0m has nothing more or the step limit    *)
(* ends the drain.                                                         *)
Polled(s) == [s EXCEPT !.drained = FALSE]

Quiet(s) == [Polled(s) EXCEPT !.out = "none"]

Pumped(s) == IF s.out \in Events THEN HandlePeerEvent(Quiet(s), s.out) ELSE {<<Quiet(s), "none">>}

Completed(s) == [s EXCEPT !.drained = TRUE]

Yielded(s) == [s EXCEPT !.out = "transmit"]

(* What these parts change.                                                *)
LEMMA PolledOps ==
  ASSUME NEW s \in Session
  PROVE  /\ Polled(s) \in Session /\ Alike(s, Polled(s)) /\ Same(s, Polled(s))
         /\ Polled(s).misused = s.misused /\ ~ Polled(s).drained
<1>1. Polled(s) \in Session
  BY Zenon DEF Session, Polled
<1>2. /\ Alike(s, Polled(s))
      /\ Polled(s).misused = s.misused /\ ~ Polled(s).drained
  BY DEF Session, Polled, Alike
<1>3. Same(s, Polled(s))
  BY <1>1 DEF Session, Polled, Same
<1> QED
  BY <1>1, <1>2, <1>3

(* The peer that handle_peer_event meets: its output is taken.             *)
LEMMA QuietOps ==
  ASSUME NEW s \in Session
  PROVE  /\ Quiet(s) \in Session /\ Alike(s, Quiet(s)) /\ Same(s, Quiet(s))
         /\ Quiet(s).misused = s.misused /\ ~ Quiet(s).drained /\ Quiet(s).out = "none"
<1>1. Quiet(s) \in Session
  BY Zenon DEF Session, Polled, Quiet
<1>2. /\ Alike(s, Quiet(s))
      /\ Quiet(s).misused = s.misused /\ ~ Quiet(s).drained /\ Quiet(s).out = "none"
  BY DEF Session, Polled, Quiet, Alike
<1>3. Same(s, Quiet(s))
  BY <1>1 DEF Session, Polled, Quiet, Same
<1> QED
  BY <1>1, <1>2, <1>3

(* The peer whose output has run out.                                      *)
LEMMA CompletedOps ==
  ASSUME NEW s \in Session
  PROVE  /\ Completed(s) \in Session /\ Alike(s, Completed(s))
         /\ Completed(s).misused = s.misused /\ Completed(s).out = s.out
<1>1. Completed(s) \in Session
  BY Zenon DEF Session, Completed
<1>2. Alike(s, Completed(s)) /\ Completed(s).misused = s.misused /\ Completed(s).out = s.out
  BY DEF Session, Completed, Alike
<1> QED
  BY <1>1, <1>2

(* The peer that has a transmit left over.                                 *)
LEMMA YieldedOps ==
  ASSUME NEW s \in Session
  PROVE  /\ Yielded(s) \in Session /\ Alike(s, Yielded(s))
         /\ Yielded(s).misused = s.misused /\ Yielded(s).drained = s.drained
<1>1. Yielded(s) \in Session
  BY Zenon DEF Session, Yielded, Outputs
<1>2. Alike(s, Yielded(s)) /\ Yielded(s).misused = s.misused /\ Yielded(s).drained = s.drained
  BY DEF Session, Yielded, Alike
<1> QED
  BY <1>1, <1>2

(* The peer whose connection has failed.                                   *)
LEMMA KillOps ==
  ASSUME NEW s \in Session
  PROVE  /\ Kill(s) \in Session /\ Kill(s).rtc = "dead"
         /\ Kill(s).misused = s.misused /\ Kill(s).drained = s.drained
         /\ Kill(s).pending = s.pending /\ Kill(s).conn = s.conn
         /\ Kill(s).batch = s.batch /\ Kill(s).renet = s.renet
<1>1. Kill(s) \in Session
  BY Zenon DEF Session, Kill
<1> QED
  BY <1>1 DEF Session, Kill

(* The outcomes of drive_peer_with_limit.                                  *)
DriveOutcome(s, d) ==
    \/ d = <<Polled(s), "none">>
    \/ FatalDrain /\ d = <<Kill(Polled(s)), "none">>
    \/ \E w \in Session, r \in Results \cup {"none"} :
          /\ <<w, r>> \in Pumped(s) /\ Same(s, w) /\ Steady(Quiet(s), w)
          /\ \/ d = <<Completed(w), r>>
             \/ d = <<Yielded(w), r>>
             \/ FatalDrain /\ d = <<Kill(w), "none">>

(* drive_peer_with_limit has no other outcome.                             *)
LEMMA DriveOutcomes ==
  ASSUME NEW s \in Session, s.rtc # "none", NEW d \in DrivePeer(s)
  PROVE  DriveOutcome(s, d)
<1>1. \/ \E h \in Pumped(s) : d = <<Completed(h[1]), h[2]>>
      \/ d = <<Polled(s), "none">>
      \/ \E h \in Pumped(s) : d = <<Yielded(h[1]), h[2]>>
      \/ FatalDrain /\ d = <<Kill(Polled(s)), "none">>
      \/ FatalDrain /\ \E h \in Pumped(s) : d = <<Kill(h[1]), "none">>
  <2> DEFINE polled == [s EXCEPT !.drained = FALSE]
             quiet == [polled EXCEPT !.out = "none"]
  <2>1. Pumped(s) = IF s.out \in Events THEN HandlePeerEvent(quiet, s.out)
                                        ELSE {<<quiet, "none">>}
    BY DEF Pumped, Quiet, Polled
  <2>2. Polled(s) = polled
    BY DEF Polled
  <2> HIDE DEF polled, quiet
  <2> QED
    BY <2>1, <2>2 DEF DrivePeer, polled, quiet, Completed, Yielded
<1>2. ASSUME NEW h \in Pumped(s)
      PROVE  \E w \in Session, r \in Results \cup {"none"} :
                h = <<w, r>> /\ Same(s, w) /\ Steady(Quiet(s), w)
  <2>1. Quiet(s) \in Session /\ Same(s, Quiet(s)) /\ Quiet(s).rtc # "none"
    BY QuietOps DEF Alike
  <2>2. CASE s.out \in Events
    <3>1. h \in HandlePeerEvent(Quiet(s), s.out)
      BY <1>2, <2>2 DEF Pumped
    <3> QED
      BY <2>1, <2>2, <3>1, EventSteady, SameTransitive
  <2>3. CASE s.out \notin Events
    <3>1. h = <<Quiet(s), "none">> /\ Steady(Quiet(s), Quiet(s))
      BY <1>2, <2>1, <2>3 DEF Pumped, Steady
    <3> QED
      BY <2>1, <3>1
  <2> QED
    BY <2>2, <2>3
<1>3. ASSUME NEW h \in Pumped(s),
             \/ d = <<Completed(h[1]), h[2]>>
             \/ d = <<Yielded(h[1]), h[2]>>
             \/ FatalDrain /\ d = <<Kill(h[1]), "none">>
      PROVE  DriveOutcome(s, d)
  <2>1. PICK w \in Session, r \in Results \cup {"none"} :
               h = <<w, r>> /\ Same(s, w) /\ Steady(Quiet(s), w)
    BY <1>2
  <2>2. h[1] = w /\ h[2] = r /\ <<w, r>> \in Pumped(s)
    BY <2>1
  <2> QED
    BY <1>3, <2>1, <2>2 DEF DriveOutcome
<1> QED
  BY <1>1, <1>3 DEF DriveOutcome

-----------------------------------------------------------------------------
(* The Rtc: what may be given to str0m next.                               *)

(* NetcodeServer::disconnect frees the slot and nothing else.              *)
LEMMA ReleaseOps ==
  ASSUME NEW s \in Session
  PROVE  LET t == Release(s)
         IN /\ t \in Session /\ ~ HasSlot(t) /\ (HasSlot(s) => t.net = "free")
            /\ t.rtc = s.rtc /\ t.out = s.out /\ t.misused = s.misused /\ t.drained = s.drained
            /\ t.open = s.open /\ t.route = s.route /\ t.held = s.held
            /\ t.deferred = s.deferred /\ t.conn = s.conn /\ t.pending = s.pending
            /\ t.batch = s.batch /\ t.renet = s.renet
<1>1. CASE HasSlot(s)
  BY <1>1, Zenon DEF Release, Session, HasSlot
<1>2. CASE ~ HasSlot(s)
  BY <1>2 DEF Release
<1> QED
  BY <1>1, <1>2

(* A peer leaves the maps with its routes and its gate queues.             *)
LEMMA DropPeerOps ==
  ASSUME NEW s \in Session
  PROVE  LET t == DropPeer(s)
         IN /\ t \in Session /\ t.rtc = "none" /\ ~ t.route /\ ~ t.drained /\ ~ t.open
            /\ t.held = {} /\ ~ t.deferred /\ t.misused = s.misused /\ t.net = s.net
            /\ t.conn = s.conn /\ t.pending = s.pending /\ t.batch = s.batch
            /\ t.renet = s.renet
  BY Zenon DEF DropPeer, Session

(* A flushed peer goes back into the map resting.                          *)
LEMMA ReinsertRests ==
  ASSUME NEW u \in Session, ~ u.misused, u.rtc = "dead" \/ (u.drained => u.out = "none")
  PROVE  Rested(Reinsert(u))
<1>1. Reinsert(u).rtc # "dead"
  BY ReinsertSame
<1>2. CASE u.rtc # "dead"
  BY <1>1, <1>2 DEF Reinsert, Rested
<1>3. CASE u.rtc = "dead"
  <2> DEFINE d == DropPeer(u)
             f == Release(d)
             q == Queued(f, "disconnected")
  <2>1. d \in Session /\ ~ d.misused /\ ~ d.drained
    BY DropPeerOps
  <2> HIDE DEF d
  <2>2. f \in Session /\ ~ f.misused /\ ~ f.drained
    BY <2>1, ReleaseOps
  <2> HIDE DEF f
  <2>3. ~ q.misused /\ ~ q.drained
    BY <2>2 DEF Queued, Session
  <2>4. Reinsert(u) = d \/ Reinsert(u) = q
    BY <1>3 DEF Reinsert, d, f
  <2> QED
    BY <1>1, <2>1, <2>3, <2>4 DEF Rested
<1> QED
  BY <1>2, <1>3

(* flush_peer_output leaves the Rtc of a peer resting unless it was        *)
(* mutated too early.                                                      *)
LEMMA FlushRests ==
  ASSUME NEW s \in Session, NEW t \in FlushPeerOutput(s),
         ~ s.misused, s.rtc = "none" => Rested(s)
  PROVE  Rested(t)
<1>1. CASE s.rtc = "none"
  BY <1>1 DEF FlushPeerOutput
<1>2. CASE s.rtc = "dead"
  <2>1. t = Reinsert(s)
    BY <1>2 DEF FlushPeerOutput, Queued
  <2> QED
    BY <1>2, <2>1, ReinsertRests
<1>3. CASE s.rtc = "alive"
  <2>1. PICK d \in DrivePeer(s) : t = Reinsert(Queued(d[1], d[2]))
    BY <1>3 DEF FlushPeerOutput
  <2>2. ASSUME NEW w \in Session, NEW r \in Results \cup {"none"}, d = <<w, r>>,
               ~ w.misused, w.drained => w.out = "none"
        PROVE  Rested(t)
    <3>1. t = Reinsert(Queued(w, r)) /\ Queued(w, r) \in Session
      BY <2>1, <2>2, SimpleOps DEF Same
    <3>2. ~ Queued(w, r).misused /\ (Queued(w, r).drained => Queued(w, r).out = "none")
      BY <2>2 DEF Queued, Session
    <3> QED
      BY <3>1, <3>2, ReinsertRests
  <2>3. "none" \in Results \cup {"none"}
    OBVIOUS
  <2>4. DriveOutcome(s, d)
    BY <1>3, DriveOutcomes
  <2>5. CASE d = <<Polled(s), "none">>
    BY <2>2, <2>3, <2>5, PolledOps
  <2>6. CASE d = <<Kill(Polled(s)), "none">>
    BY <2>2, <2>3, <2>6, PolledOps, KillOps
  <2>7. CASE \E w \in Session, r \in Results \cup {"none"} :
                /\ Steady(Quiet(s), w)
                /\ \/ d = <<Completed(w), r>>
                   \/ d = <<Yielded(w), r>>
                   \/ d = <<Kill(w), "none">>
    <3>1. PICK w \in Session, r \in Results \cup {"none"} :
                 /\ Steady(Quiet(s), w)
                 /\ \/ d = <<Completed(w), r>>
                    \/ d = <<Yielded(w), r>>
                    \/ d = <<Kill(w), "none">>
      BY <2>7
    <3>2. ~ w.misused /\ ~ w.drained /\ w.out = "none"
      BY <3>1, QuietOps DEF Steady
    <3>3. CASE d = <<Completed(w), r>>
      BY <2>2, <3>2, <3>3, CompletedOps
    <3>4. CASE d = <<Yielded(w), r>>
      BY <2>2, <3>2, <3>4, YieldedOps
    <3>5. CASE d = <<Kill(w), "none">>
      BY <2>2, <2>3, <3>2, <3>5, KillOps
    <3> QED
      BY <3>1, <3>3, <3>4, <3>5
  <2> QED
    BY <2>4, <2>5, <2>6, <2>7, Zenon DEF DriveOutcome
<1> QED
  BY <1>1, <1>2, <1>3 DEF Session

(* An input to a drained Rtc is legal, and changes no table.               *)
LEMMA MutateAlike ==
  ASSUME NEW s \in Session, NEW o \in Outputs
  PROVE  /\ Mutate(s, o) \in Session /\ Alike(s, Mutate(s, o))
         /\ Mutate(s, o).rtc = s.rtc /\ Mutate(s, o).out = o
         /\ Rested(s) /\ s.drained => ~ Mutate(s, o).misused
<1>1. Mutate(s, o) \in Session
  BY SimpleOps DEF Same
<1> QED
  BY <1>1 DEF Mutate, Session, Alike, Rested

(* send_to_peer writes to a drained Rtc only, and leaves it resting.       *)
LEMMA SendToPeerRests ==
  ASSUME NEW s \in Session, Rested(s), NEW t \in SendToPeer(s) \cup SendToPeerBackend(s)
  PROVE  Rested(t)
<1>1. CASE t \in SendToPeerBackend(s)
  <2>1. PICK u \in FlushPeerOutput(s) :
               t \in IF u.rtc = "none" \/ ~u.drained \/ ~u.open THEN {u}
                     ELSE FlushPeerOutput(Mutate(u, "transmit"))
    BY <1>1 DEF SendToPeerBackend
  <2>2. u \in Session /\ Rested(u)
    BY FlushRests, FlushPeerOutputSame DEF Rested, Same
  <2>3. CASE u.rtc # "none" /\ u.drained /\ t \in FlushPeerOutput(Mutate(u, "transmit"))
    <3>1. "transmit" \in Outputs
      BY DEF Outputs
    <3> QED
      BY <2>2, <2>3, <3>1, MutateAlike, FlushRests
  <2> QED
    BY <2>1, <2>2, <2>3
<1>2. Rested([s EXCEPT !.deferred = TRUE])
  BY DEF Rested, Session
<1> QED
  BY <1>1, <1>2, Zenon DEF SendToPeer

-----------------------------------------------------------------------------
(* The tables.                                                             *)

(* A packet on the open channel of a peer keeps the tables.                *)
LEMMA PacketFares ==
  ASSUME NEW s \in Session, Kept(s), s.rtc # "none", s.open,
         NEW p \in Packets, NEW d \in ProcessPeerPacket(s, p)
  PROVE  Queued(d[1], d[2]) \in Session /\ Fares(s, Queued(d[1], d[2]))
<1> DEFINE t == Queued(d[1], d[2])
<1>0. t \in Session
  BY ProcessPeerPacketSame, SimpleOps, Zenon DEF Outcome, Same
<1>1. ASSUME NEW u \in Session, NEW r \in Results \cup {"none"}, d = <<u, r>>,
             \/ u = s \/ u = Kill(s)
             \/ \E n \in {"free", "pending", "used", "live"} : u = [s EXCEPT !.net = n]
      PROVE  /\ t.rtc # "none" /\ t.open /\ t.conn = s.conn /\ t.batch = s.batch
             /\ t.renet = s.renet /\ t.net = u.net
             /\ t.pending = IF r = "none" THEN s.pending ELSE Append(s.pending, r)
  <2>1. d[1] = u /\ d[2] = r /\ t = Queued(u, r)
    BY <1>1
  <2>2. /\ u.rtc # "none" /\ u.open /\ u.conn = s.conn /\ u.batch = s.batch
        /\ u.renet = s.renet /\ u.pending = s.pending
    BY <1>1 DEF Kill, Session
  <2>3. /\ t.rtc = u.rtc /\ t.open = u.open /\ t.conn = u.conn /\ t.batch = u.batch
        /\ t.renet = u.renet /\ t.net = u.net
        /\ t.pending = IF r = "none" THEN u.pending ELSE Append(u.pending, r)
    BY <2>1 DEF Queued, Session
  <2> QED
    BY <2>1, <2>2, <2>3
<1>2. \A n \in {"free", "pending", "used", "live"} :
         [s EXCEPT !.net = n] \in Session /\ [s EXCEPT !.net = n].net = n
  BY DEF Session
<1>3. Kill(s) \in Session /\ Kill(s).net = s.net
  BY Zenon DEF Session, Kill
<1> HIDE DEF t
<1>4. ASSUME t.net = "live" => s.net = "live", Pushes(s, t),
             t.rtc # "none", t.open, t.conn = s.conn, t.batch = s.batch, t.renet = s.renet
      PROVE  Fares(s, t)
  BY <1>0, <1>4, PushFares
<1> SUFFICES Fares(s, t)
  BY <1>0 DEF t
<1>5. CASE d = <<s, "none">>
  BY <1>1, <1>4, <1>5 DEF Pushes, HasSlot
<1>6. CASE d = <<s, "packet">>
  BY <1>1, <1>4, <1>6 DEF Pushes, HasSlot, Results
<1>7. ASSUME NEW n \in {"free", "pending", "used"}, NEW r \in Results,
             d = <<[s EXCEPT !.net = n], r>>
      PROVE  /\ t.rtc # "none" /\ t.open /\ t.conn = s.conn /\ t.batch = s.batch
             /\ t.renet = s.renet /\ t.net = n /\ t.pending = Append(s.pending, r)
  <2>1. r # "none" /\ n \in {"free", "pending", "used", "live"}
    BY DEF Results
  <2>2. [s EXCEPT !.net = n] \in Session /\ [s EXCEPT !.net = n].net = n
    BY <1>2, <2>1
  <2> QED
    BY <1>1, <1>7, <2>1, <2>2, Zenon
<1>8. CASE ~ HasSlot(s) /\ \E n \in {"free", "pending"} : d = <<[s EXCEPT !.net = n], "packet">>
  <2>1. PICK n \in {"free", "pending"} : d = <<[s EXCEPT !.net = n], "packet">>
    BY <1>8
  <2>2. t.net = n /\ t.pending = Append(s.pending, "packet")
        /\ t.rtc # "none" /\ t.open /\ t.conn = s.conn /\ t.batch = s.batch /\ t.renet = s.renet
    BY <1>7, <2>1, Zenon DEF Results
  <2> QED
    BY <1>4, <1>8, <2>2 DEF Pushes, HasSlot
<1>9. CASE s.net = "pending" /\ d = <<[s EXCEPT !.net = "used"], "connected">>
  <2>1. t.net = "used" /\ t.pending = Append(s.pending, "connected")
        /\ t.rtc # "none" /\ t.open /\ t.conn = s.conn /\ t.batch = s.batch /\ t.renet = s.renet
    BY <1>9, <1>7, Zenon DEF Results
  <2> QED
    BY <1>4, <1>9, <2>1 DEF Pushes, HasSlot
<1>10. CASE s.net = "live" /\ d = <<s, "payload">>
  BY <1>1, <1>4, <1>10 DEF Pushes, HasSlot, Results
<1>11. CASE HasSlot(s) /\ d = <<[s EXCEPT !.net = "free"], "disconnected">>
  <2>1. t.net = "free" /\ t.pending = Append(s.pending, "disconnected")
        /\ t.rtc # "none" /\ t.open /\ t.conn = s.conn /\ t.batch = s.batch /\ t.renet = s.renet
    BY <1>11, <1>7, Zenon DEF Results
  <2> QED
    BY <1>4, <1>11, <2>1 DEF Pushes, HasSlot
<1>12. CASE d = <<Kill(s), "none">>
  BY <1>1, <1>3, <1>4, <1>12 DEF Pushes, HasSlot
<1> QED
  BY <1>5, <1>6, <1>8, <1>9, <1>10, <1>11, <1>12, PacketOutcomes DEF PacketOutcome

(* handle_peer_event keeps the tables of a peer once its result is queued. *)
LEMMA EventFares ==
  ASSUME NEW s \in Session, Kept(s), s.rtc # "none",
         NEW e \in Events, NEW d \in HandlePeerEvent(s, e)
  PROVE  Queued(d[1], d[2]) \in Session /\ Fares(s, Queued(d[1], d[2]))
<1>1. ASSUME NEW t \in Session, d = <<t, "none">>, Alike(s, t)
      PROVE  Queued(d[1], d[2]) \in Session /\ Fares(s, Queued(d[1], d[2]))
  <2>1. Queued(d[1], d[2]) = t
    BY <1>1 DEF Queued
  <2>2. Settles(s, t)
    BY <1>1, AlikeSettles
  <2> QED
    BY <1>1, <2>1, <2>2 DEF Fares, Settles
<1>2. Alike(s, s)
  BY DEF Alike
<1>3. CASE e = "open"
  <2> DEFINE t == [s EXCEPT !.open = TRUE]
  <2>1. t \in Session /\ Alike(s, t)
    BY Zenon DEF Session, Alike
  <2>2. d = <<t, "none">>
    BY <1>3 DEF HandlePeerEvent
  <2> QED
    BY <1>1, <2>1, <2>2, Zenon
<1>4. CASE e = "lost"
  <2>1. Kill(s) \in Session /\ Alike(s, Kill(s))
    BY DEF Session, Alike, Kill
  <2>2. d = <<Kill(s), "none">>
    BY <1>4 DEF HandlePeerEvent
  <2> QED
    BY <1>1, <2>1, <2>2
<1>5. CASE e \in Packets
  <2>1. CASE d = <<s, "none">>
    BY <1>1, <1>2, <2>1
  <2>2. CASE s.open /\ d = <<[s EXCEPT !.held = @ \cup {e}], "none">>
    <3> DEFINE t == [s EXCEPT !.held = @ \cup {e}]
    <3>1. t \in Session
      BY Zenon, <1>5 DEF Session
    <3>2. Alike(s, t)
      BY <2>2 DEF Session, Alike
    <3> QED
      BY <1>1, <2>2, <3>1, <3>2
  <2>3. CASE s.open /\ d \in ProcessPeerPacket(s, e)
    BY <1>5, <2>3, PacketFares
  <2>4. e # "open" /\ e # "lost"
    BY <1>5 DEF Packets
  <2> QED
    BY <2>1, <2>2, <2>3, <2>4 DEF HandlePeerEvent, DeferIncoming
<1> QED
  BY <1>3, <1>4, <1>5 DEF Events

(* flush_peer_output drops a dead peer: whatever the drain did to it, a    *)
(* slot it still holds is given up with a departure queued.                *)
LEMMA ReinsertDead ==
  ASSUME NEW s \in Session, Kept(s), NEW u \in Session, u.rtc = "dead",
         u.pending = s.pending, u.conn = s.conn, u.batch = s.batch, u.renet = s.renet,
         FatalDrain \/ HasSlot(u) \/ ~ HasSlot(s)
  PROVE  Settles(s, Reinsert(u))
<1> DEFINE d == DropPeer(u)
           f == Release(d)
           t == Reinsert(u)
<1>1. /\ d \in Session /\ d.rtc = "none" /\ ~ d.route /\ d.pending = u.pending /\ d.net = u.net
      /\ d.held = {}
      /\ d.conn = u.conn /\ d.batch = u.batch /\ d.renet = u.renet
  BY DropPeerOps
<1>2. /\ f \in Session /\ f.rtc = "none" /\ ~ f.route /\ f.pending = u.pending /\ f.held = {}
      /\ ~ HasSlot(f) /\ f.conn = u.conn /\ f.batch = u.batch /\ f.renet = u.renet
  BY <1>1, ReleaseOps
<1>3. t \in Session
  BY ReinsertSame DEF Same
<1> HIDE DEF d, f
<1>4. CASE HasSlot(u)
  <2>1. t = [f EXCEPT !.pending = Append(@, "disconnected")]
    BY <1>4 DEF Reinsert, Queued, d, f
  <2> HIDE DEF t
  <2>2. /\ t.rtc = "none" /\ ~ t.route /\ t.pending = Append(s.pending, "disconnected")
        /\ t.held = {}
        /\ t.net = f.net /\ t.conn = s.conn /\ t.batch = s.batch /\ t.renet = s.renet
    BY <1>2, <2>1 DEF Session
  <2>3. ~ HasSlot(t) /\ t.net # "live"
    BY <1>2, <2>2 DEF HasSlot
  <2> QED
    BY <1>3, <2>2, <2>3, DropSettles DEF t
<1>5. CASE ~ HasSlot(u)
  <2>1. t = d
    BY <1>5 DEF Reinsert, d
  <2> HIDE DEF t
  <2>2. ~ HasSlot(t) /\ t.net # "live"
    BY <1>1, <1>5, <2>1 DEF HasSlot
  <2>3. Settles(s, t)
    BY <1>1, <1>3, <1>5, <2>1, <2>2, DropSettles
  <2> QED
    BY <1>1, <2>1, <2>3 DEF t
<1> QED
  BY <1>4, <1>5

(* A flushed peer goes back into the map, or leaves it, with its tables.   *)
LEMMA ReinsertSettles ==
  ASSUME NEW u \in Session, Kept(u)
  PROVE  Reinsert(u) \in Session /\ Settles(u, Reinsert(u))
<1>1. Reinsert(u) \in Session
  BY ReinsertSame DEF Same
<1>2. u.rtc # "dead" => Reinsert(u) = u
  BY DEF Reinsert
<1> QED
  BY <1>1, <1>2, ReinsertDead DEF Settles

(* Like tables are alike with the same result queued.                      *)
LEMMA QueuedAlike ==
  ASSUME NEW w \in Session, NEW x \in Session, Alike(w, x), NEW r \in Results \cup {"none"}
  PROVE  Queued(x, r) \in Session /\ Alike(Queued(w, r), Queued(x, r))
<1>1. Queued(x, r) \in Session
  BY SimpleOps DEF Same
<1>2. CASE r = "none"
  BY <1>1, <1>2 DEF Queued
<1>3. CASE r # "none"
  <2>1. ASSUME NEW z \in Session
        PROVE  LET q == Queued(z, r)
               IN /\ q.rtc = z.rtc /\ q.route = z.route /\ q.net = z.net /\ q.conn = z.conn
                  /\ q.renet = z.renet /\ q.batch = z.batch /\ q.open = z.open
                  /\ q.held = z.held /\ q.deferred = z.deferred
                  /\ q.pending = Append(z.pending, r)
    BY <1>3 DEF Queued, Session
  <2> DEFINE p == Queued(w, r)
             q == Queued(x, r)
  <2>2. /\ p.rtc = w.rtc /\ p.route = w.route /\ p.net = w.net /\ p.conn = w.conn
        /\ p.renet = w.renet /\ p.batch = w.batch /\ p.open = w.open
        /\ p.held = w.held /\ p.deferred = w.deferred /\ p.pending = Append(w.pending, r)
    BY <2>1
  <2>3. /\ q.rtc = x.rtc /\ q.route = x.route /\ q.net = x.net /\ q.conn = x.conn
        /\ q.renet = x.renet /\ q.batch = x.batch /\ q.open = x.open
        /\ q.held = x.held /\ q.deferred = x.deferred /\ q.pending = Append(x.pending, r)
    BY <2>1
  <2> HIDE DEF p, q
  <2>4. Alike(p, q)
    BY <2>2, <2>3 DEF Alike
  <2> QED
    BY <1>1, <2>4 DEF p, q
<1> QED
  BY <1>2, <1>3

(* The drain of a live peer keeps its tables; without an event there is    *)
(* no login.                                                               *)
LEMMA DriveFares ==
  ASSUME NEW s \in Session, Kept(s), s.rtc = "alive", NEW d \in DrivePeer(s)
  PROVE  LET t == Reinsert(Queued(d[1], d[2]))
         IN Fares(s, t) /\ (s.out \notin Events => Settles(s, t))
<1> DEFINE t == Reinsert(Queued(d[1], d[2]))
           Good(u) == Fares(s, u) /\ (s.out \notin Events => Settles(s, u))
<1> SUFFICES Good(t)
  OBVIOUS
<1> HIDE DEF t
<1>1. Kept(Quiet(s)) /\ Settles(s, Quiet(s))
  BY QuietOps, AlikeSettles DEF Settles
<1>2. ASSUME NEW w, NEW r, <<w, r>> \in Pumped(s)
      PROVE  Queued(w, r) \in Session /\ Good(Queued(w, r))
  <2>1. CASE s.out \in Events
    <3>1. <<w, r>> \in HandlePeerEvent(Quiet(s), s.out) /\ Quiet(s).rtc # "none"
      BY <1>2, <2>1, QuietOps DEF Pumped, Alike
    <3>2. Queued(w, r) \in Session /\ Fares(Quiet(s), Queued(w, r))
      BY <1>1, <2>1, <3>1, QuietOps, EventFares
    <3> QED
      BY <2>1, <3>2, QuietOps, AlikeFares
  <2>2. CASE s.out \notin Events
    <3>1. Queued(w, r) = Quiet(s)
      BY <1>2, <2>2 DEF Pumped, Queued
    <3> QED
      BY <1>1, <3>1, QuietOps DEF Settles, Fares
  <2> QED
    BY <2>1, <2>2
<1>3. ASSUME NEW v \in Session, Good(v), NEW u \in Session, Alike(v, u), t = Reinsert(u)
      PROVE  Good(t)
  <2>1. Settles(v, u) /\ Kept(u)
    BY <1>3, AlikeSettles DEF Settles, Fares
  <2>2. Settles(u, t)
    BY <1>3, <2>1, ReinsertSettles
  <2> QED
    BY <1>3, <2>1, <2>2, FaresCompose
<1>4. ASSUME FatalDrain, NEW u \in Session, d = <<u, "none">>, u.rtc = "dead",
             u.pending = s.pending, u.conn = s.conn, u.batch = s.batch, u.renet = s.renet
      PROVE  Good(t)
  <2>1. t = Reinsert(u)
    BY <1>4 DEF t, Queued
  <2>2. Settles(s, t)
    BY <1>4, <2>1, ReinsertDead
  <2> QED
    BY <2>2 DEF Settles, Fares
<1>5. CASE d = <<Polled(s), "none">>
  <2>1. t = Reinsert(Polled(s))
    BY <1>5 DEF t, Queued
  <2>2. Good(s)
    BY DEF Settles, Fares
  <2> QED
    BY <1>3, <2>1, <2>2, PolledOps
<1>6. CASE FatalDrain /\ d = <<Kill(Polled(s)), "none">>
  <2> DEFINE p == Polled(s)
  <2>1. p \in Session /\ Alike(s, p)
    BY PolledOps
  <2> HIDE DEF p
  <2>2. /\ Kill(p) \in Session /\ Kill(p).rtc = "dead" /\ Kill(p).pending = s.pending
        /\ Kill(p).conn = s.conn /\ Kill(p).batch = s.batch /\ Kill(p).renet = s.renet
    BY <2>1, KillOps DEF Alike
  <2> QED
    BY <1>4, <1>6, <2>2, Zenon DEF p
<1>7. ASSUME NEW w \in Session, NEW r \in Results \cup {"none"},
             <<w, r>> \in Pumped(s), Same(s, w), Steady(Quiet(s), w)
      PROVE  /\ d = <<Completed(w), r>> => Good(t)
             /\ d = <<Yielded(w), r>> => Good(t)
             /\ FatalDrain /\ d = <<Kill(w), "none">> => Good(t)
  <2>1. ASSUME NEW x \in Session, Alike(w, x), d = <<x, r>>
        PROVE  Good(t)
    <3>1. t = Reinsert(Queued(x, r))
      BY <2>1 DEF t
    <3>2. Queued(w, r) \in Session /\ Good(Queued(w, r))
      BY <1>2, <1>7
    <3>3. Queued(x, r) \in Session /\ Alike(Queued(w, r), Queued(x, r))
      BY <2>1, QueuedAlike
    <3> QED
      BY <1>3, <3>1, <3>2, <3>3
  <2>2. w.pending = s.pending /\ w.conn = s.conn /\ w.batch = s.batch /\ w.renet = s.renet
    BY <1>7, QuietOps, Zenon DEF Same, Steady, Alike
  <2>3. FatalDrain /\ d = <<Kill(w), "none">> => Good(t)
    BY <1>4, <2>2, KillOps
  <2> QED
    BY <2>1, <2>3, CompletedOps, YieldedOps
<1>8. DriveOutcome(s, d)
  BY DriveOutcomes
<1> HIDE DEF Good
<1> QED
  BY <1>5, <1>6, <1>7, <1>8, Zenon DEF DriveOutcome

(* flush_peer_output keeps the tables of a client.                         *)
LEMMA FlushFares ==
  ASSUME NEW s \in Session, Kept(s), NEW t \in FlushPeerOutput(s)
  PROVE  t \in Session /\ Fares(s, t) /\ (s.out \notin Events => Settles(s, t))
<1>0. t \in Session
  BY FlushPeerOutputSame DEF Same
<1>1. CASE s.rtc = "none"
  BY <1>0, <1>1 DEF FlushPeerOutput, Settles, Fares
<1>2. CASE s.rtc = "alive"
  <2>1. PICK d \in DrivePeer(s) : t = Reinsert(Queued(d[1], d[2]))
    BY <1>2 DEF FlushPeerOutput
  <2> QED
    BY <1>0, <1>2, <2>1, DriveFares
<1>3. CASE s.rtc = "dead"
  <2>1. t = Reinsert(s)
    BY <1>3 DEF FlushPeerOutput, Queued
  <2> QED
    BY <1>0, <2>1, ReinsertSettles DEF Settles, Fares
<1> QED
  BY <1>1, <1>2, <1>3 DEF Session

(* send_to_peer_backend keeps the tables and leaves the Rtc resting.       *)
LEMMA SendToPeerBackendFares ==
  ASSUME NEW s \in Session, Kept(s), Rested(s), NEW t \in SendToPeerBackend(s)
  PROVE  t \in Session /\ Fares(s, t) /\ Rested(t)
<1>1. PICK u \in FlushPeerOutput(s) :
             t \in IF u.rtc = "none" \/ ~u.drained \/ ~u.open THEN {u}
                   ELSE FlushPeerOutput(Mutate(u, "transmit"))
  BY DEF SendToPeerBackend
<1>2. u \in Session /\ Fares(s, u) /\ Kept(u) /\ Rested(u)
  BY FlushFares, FlushRests DEF Rested, Fares
<1>3. CASE t = u
  BY <1>2, <1>3
<1>4. CASE u.rtc # "none" /\ u.drained /\ t \in FlushPeerOutput(Mutate(u, "transmit"))
  <2> DEFINE m == Mutate(u, "transmit")
  <2>1. m \in Session /\ Alike(u, m) /\ m.rtc # "none" /\ m.out \notin Events
    <3>1. "transmit" \in Outputs /\ "transmit" \notin Events
      BY DEF Outputs, Events, Packets
    <3> QED
      BY <1>2, <1>4, <3>1, MutateAlike
  <2>2. Settles(u, m) /\ Kept(m)
    BY <1>2, <2>1, AlikeSettles DEF Settles
  <2>3. t \in Session /\ Settles(m, t)
    BY <1>4, <2>1, <2>2, FlushFares
  <2> QED
    BY <1>2, <2>2, <2>3, FaresCompose, SendToPeerRests
<1> QED
  BY <1>1, <1>3, <1>4

(* send_to_peer too, on a channel that is open.                            *)
LEMMA SendToPeerFares ==
  ASSUME NEW s \in Session, Kept(s), Rested(s), s.rtc = "none" \/ s.open,
         NEW t \in SendToPeer(s)
  PROVE  t \in Session /\ Fares(s, t) /\ Rested(t)
<1>1. CASE t = s
  BY <1>1 DEF Fares
<1>2. CASE t \in SendToPeerBackend(s)
  BY <1>2, SendToPeerBackendFares
<1>3. CASE s.rtc # "none" /\ t = [s EXCEPT !.deferred = TRUE]
  <2>1. t \in Session /\ Alike(s, t) /\ Rested(t)
    BY <1>3, Zenon DEF Session, Alike, Rested
  <2> QED
    BY <2>1, AlikeSettles DEF Settles, Fares
<1> QED
  BY <1>1, <1>2, <1>3 DEF SendToPeer
=============================================================================
