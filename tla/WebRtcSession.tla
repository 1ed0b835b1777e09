--------------------------- MODULE WebRtcSession ---------------------------
(***************************************************************************)
(* What the WebRTC server transport (src/src/server.rs), the native UDP    *)
(* server transport (src/src/udp_server.rs) and the RenetServer they share *)
(* know about ONE client id, as a record, and the functions of server.rs   *)
(* as operators from that record to the set of records they may leave      *)
(* behind.  Every map of the code that matters here (peers,                *)
(* connected_client_ids, pending_renet_removals, virtual routes, queued    *)
(* results, netcode slots, Renet connections) is keyed by the client id,   *)
(* so one record per id loses nothing but the order of queued results that *)
(* belong to different ids.                                                *)
(*                                                                         *)
(* External code is modelled from its use: str0m (Rtc), renetcode's        *)
(* NetcodeServer and renet's RenetServer.                                  *)
(***************************************************************************)
EXTENDS Naturals, Sequences

CONSTANTS
    Conditioned,  \* a packet conditioner is attached to the transport
    FatalDrain    \* poll_output or send_to may fail with a fatal error

ASSUME FlagsAreBoolean == Conditioned \in BOOLEAN /\ FatalDrain \in BOOLEAN

(* Encrypted netcode packets a client can deliver on its data channel:     *)
(* "hello" is the connection request, "connect" the challenge response,    *)
(* "foreign" a challenge response that proves another client's identity,   *)
(* "bye" the disconnect packet.                                            *)
Packets == {"hello", "connect", "payload", "bye", "foreign"}

(* str0m events the pump looks at; "lost" is ICE Disconnected or the       *)
(* closing of the registered channel.                                      *)
Events == Packets \cup {"open", "lost"}

Outputs == Events \cup {"transmit"}

(* OwnedServerResult; "none" has no effect, so the model does not queue it. *)
Results == {"packet", "payload", "connected", "disconnected"}

Session ==
    [rtc      : {"none", "alive", "dead"},        \* peers entry and Rtc::is_alive
     out      : Outputs \cup {"none"},            \* output str0m still holds
     misused  : BOOLEAN,                          \* ghost: Rtc mutated before a full drain
     drained  : BOOLEAN,                          \* next_timeout.is_some()
     open     : BOOLEAN,                          \* data_channel.is_some()
     route    : BOOLEAN,                          \* addr_to_client_id[virtual_addr]
     held     : SUBSET Packets,                   \* packet gate, incoming
     deferred : BOOLEAN,                          \* packet gate, outgoing
     net      : {"free", "pending", "used", "live"},  \* netcode_server
     conn     : BOOLEAN,                          \* connected_client_ids
     removal  : BOOLEAN,                          \* pending_renet_removals
     pending  : Seq(Results),                     \* pending_server_results
     batch    : Seq(Results),                     \* results taken out of pending
     udp      : BOOLEAN,                          \* a slot of the UDP netcode_server
     renet    : {"none", "up", "closing"},        \* RenetServer connection
     owner    : {"none", "udp", "webrtc"}]        \* the transport that added it

Fresh ==
    [rtc |-> "none", out |-> "none", drained |-> FALSE, open |-> FALSE,
     misused |-> FALSE, route |-> FALSE, held |-> {}, deferred |-> FALSE,
     net |-> "free", conn |-> FALSE, removal |-> FALSE, pending |-> <<>>,
     batch |-> <<>>, udp |-> FALSE, renet |-> "none", owner |-> "none"]

-----------------------------------------------------------------------------
(* RenetServer: add_connection keeps an existing entry, remove_connection  *)
(* drops whatever entry there is, is_connected ignores entries that are    *)
(* already in the disconnected state ("closing").                          *)
AddConnection(s, transport) ==
    IF s.renet = "none" THEN [s EXCEPT !.renet = "up", !.owner = transport] ELSE s

RemoveConnection(s) == [s EXCEPT !.renet = "none", !.owner = "none"]

(* NetcodeServer: "pending" after a connection request, "used" once the    *)
(* challenge is answered (the client holds a slot), "live" once the        *)
(* keep-alive that confirms the connection was handed to the transport.    *)
(* disconnect frees a slot; an unanswered challenge is left alone.         *)
HasSlot(s) == s.net \in {"used", "live"}

Release(s) == IF HasSlot(s) THEN [s EXCEPT !.net = "free"] ELSE s

(* str0m: an input, a write or a time-out is legal only once poll_output   *)
(* has returned Timeout.                                                   *)
Mutate(s, o) == [s EXCEPT !.out = o, !.misused = @ \/ s.out # "none"]

Queued(s, r) == IF r = "none" THEN s ELSE [s EXCEPT !.pending = Append(@, r)]

Kill(s) == [s EXCEPT !.rtc = "dead"]

(* NetcodeServer::process_packet followed by the identity check of         *)
(* process_peer_packet: the possible <<record, result>> pairs.             *)
(* Requests and answers may also be ignored or denied; a client sends      *)
(* payloads only after the keep-alive that confirms it.                    *)
ProcessPeerPacket(s, p) ==
    LET ignored == <<s, "none">>
    IN CASE p = "hello" ->
              IF HasSlot(s) THEN {ignored}
              ELSE {ignored, <<s, "packet">>, <<[s EXCEPT !.net = "pending"], "packet">>}
         [] p = "connect" ->
              IF s.net # "pending" THEN {ignored}
              ELSE {ignored, <<[s EXCEPT !.net = "free"], "packet">>,
                    <<[s EXCEPT !.net = "used"], "connected">>}
         [] p = "payload" -> {IF s.net = "live" THEN <<s, "payload">> ELSE ignored}
         [] p = "bye" -> {IF HasSlot(s) THEN <<Release(s), "disconnected">> ELSE ignored}
         [] p = "foreign" -> IF HasSlot(s) THEN {ignored} ELSE {ignored, <<Kill(s), "none">>}

(* ServerPacketGate::defer on the incoming side: queued, lost, or (gate    *)
(* inactive) left to the caller.                                           *)
DeferIncoming(s, p) ==
    IF Conditioned THEN {[s EXCEPT !.held = @ \cup {p}], s} ELSE {}

HandlePeerEvent(s, e) ==
    CASE e = "open" -> {<<[s EXCEPT !.open = TRUE], "none">>}
      [] e = "lost" -> {<<Kill(s), "none">>}
      [] OTHER -> IF s.open
                  THEN {<<t, "none">> : t \in DeferIncoming(s, e)} \cup ProcessPeerPacket(s, e)
                  ELSE {<<s, "none">>}

(* drive_peer_with_limit.  Complete: poll_output reached Timeout.  Yield:  *)
(* the step limit came first, before or after the event.  Fail: a fatal    *)
(* error, before or after the event; the caller disconnects the Rtc and    *)
(* the results collected so far are lost.                                  *)
DrivePeer(s) ==
    LET polled  == [s EXCEPT !.drained = FALSE]
        quiet   == [polled EXCEPT !.out = "none"]
        handled == IF s.out \in Events THEN HandlePeerEvent(quiet, s.out)
                                       ELSE {<<quiet, "none">>}
        complete == {<<[h[1] EXCEPT !.drained = TRUE], h[2]>> : h \in handled}
        yield == IF s.out = "none" THEN {}
                 ELSE {<<polled, "none">>} \cup
                      {<<[h[1] EXCEPT !.out = "transmit"], h[2]>> : h \in handled}
        fail  == IF FatalDrain
                 THEN {<<Kill(polled), "none">>} \cup {<<Kill(h[1]), "none">> : h \in handled}
                 ELSE {}
    IN complete \cup yield \cup fail

(* Mutant of DropPeer: the routes stay. *)
DropPeerKeepsRoute(s) ==
    [s EXCEPT !.rtc = "none", !.out = "none", !.drained = FALSE, !.open = FALSE,
              !.held = {}, !.deferred = FALSE]

(* The peer, its routes and its gate queues leave the maps together.       *)
DropPeer(s) ==
    [s EXCEPT !.rtc = "none", !.out = "none", !.drained = FALSE, !.open = FALSE,
              !.route = FALSE, !.held = {}, !.deferred = FALSE]

(* Mutant of Reinsert: the slot is freed but the result is not queued. *)
ReinsertSilently(s) == IF s.rtc # "dead" THEN s ELSE Release(DropPeer(s))

(* Tail of flush_peer_output: a live peer goes back into the map, a dead   *)
(* one is dropped and its netcode slot released with a queued result.      *)
Reinsert(s) ==
    IF s.rtc # "dead" THEN s
    ELSE IF HasSlot(s) THEN Queued(Release(DropPeer(s)), "disconnected")
    ELSE DropPeer(s)

FlushPeerOutput(s) ==
    IF s.rtc = "none" THEN {s}
    ELSE {Reinsert(Queued(d[1], d[2])) :
            d \in IF s.rtc = "alive" THEN DrivePeer(s) ELSE {<<s, "none">>}}

(* send_to_peer_backend: flush, write only when drained and open, flush.   *)
SendToPeerBackend(s) ==
    UNION {IF t.rtc = "none" \/ ~t.drained \/ ~t.open THEN {t}
           ELSE FlushPeerOutput(Mutate(t, "transmit")) :
             t \in FlushPeerOutput(s)}

(* send_to_peer_lossy: no peer, queued by the gate, refused by the egress  *)
(* budget, or handed to the channel.                                       *)
SendToPeer(s) ==
    IF s.rtc = "none" THEN {s}
    ELSE {s} \cup SendToPeerBackend(s) \cup
         (IF Conditioned THEN {[s EXCEPT !.deferred = TRUE]} ELSE {})

(* Mutants of RemovePeer: Renet is not told, the slot stays, the queued    *)
(* results stay.                                                           *)
RemovePeerForgetsRenet(s) ==
    [Release(DropPeer(s)) EXCEPT !.conn = FALSE, !.pending = <<>>]

RemovePeerKeepsSlot(s) ==
    [DropPeer(s) EXCEPT !.conn = FALSE, !.removal = s.removal \/ s.conn, !.pending = <<>>]

RemovePeerKeepsResults(s) ==
    [Release(DropPeer(s)) EXCEPT !.conn = FALSE, !.removal = s.removal \/ s.conn]

RemovePeer(s) ==
    [Release(DropPeer(s)) EXCEPT !.conn = FALSE, !.removal = s.removal \/ s.conn,
                                 !.pending = <<>>]

(* add_peer: the negotiated Rtc has output pending already.                *)
AddPeer(s) ==
    [RemovePeer(s) EXCEPT !.rtc = "alive", !.out = "transmit", !.route = TRUE]

(* ClientConnected while Renet already has a live connection of that id.   *)
RejectDuplicate(s) ==
    {RemovePeer(t) : t \in IF HasSlot(s) THEN SendToPeer(Release(s)) ELSE {s}}

(* Mutant of AcceptClient: connected_client_ids is not updated. *)
AcceptClientUntracked(s) ==
    SendToPeer([AddConnection(s, "webrtc") EXCEPT !.route = TRUE,
                                                  !.net = IF HasSlot(s) THEN "live" ELSE @])

AcceptClient(s) ==
    SendToPeer([AddConnection(s, "webrtc") EXCEPT !.conn = TRUE, !.route = TRUE,
                                                  !.net = IF HasSlot(s) THEN "live" ELSE @])

(* Mutant of DropClient: Renet's entry goes whoever owns it. *)
DropClientUnowned(s) ==
    LET shut == RemoveConnection([s EXCEPT !.conn = FALSE, !.route = FALSE])
    IN {DropPeer(t) : t \in {shut} \cup SendToPeer(shut)}

(* ClientDisconnected; only a slot freed by the server has a payload to    *)
(* send.                                                                   *)
DropClient(s) ==
    LET gone == IF s.conn THEN RemoveConnection([s EXCEPT !.conn = FALSE]) ELSE s
        shut == [gone EXCEPT !.route = FALSE]
    IN {DropPeer(t) : t \in {shut} \cup SendToPeer(shut)}

HandleServerResult(s, r) ==
    CASE r = "packet"       -> IF s.route THEN SendToPeer(s) ELSE {s}
      [] r = "payload"      -> {s}
      [] r = "connected"    -> IF s.renet = "up" THEN RejectDuplicate(s) ELSE AcceptClient(s)
      [] r = "disconnected" -> DropClient(s)

(* netcode_server.disconnect(id), its result handled at once.              *)
DisconnectClient(s) == IF HasSlot(s) THEN DropClient(Release(s)) ELSE {s}
=============================================================================
