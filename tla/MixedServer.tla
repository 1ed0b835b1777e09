----------------------------- MODULE MixedServer -----------------------------
(***************************************************************************)
(* MixedServerTransport (src/src/mixed_server.rs): a native UDP transport  *)
(* and a WebRTC transport drive one RenetServer.  A public call (update,   *)
(* send_packets, disconnect_all) is a program: a sequence of phases, one   *)
(* per loop of the code, each visiting the clients in any order (the loops *)
(* run over hash maps).  Between calls the application signals peers,      *)
(* removes them and disconnects clients.                                   *)
(***************************************************************************)
EXTENDS WebRtcSession, Functions

CONSTANTS
    Clients,       \* client ids
    UdpIds,        \* ids that may complete a native netcode handshake
    WebIds,        \* ids that may be given a WebRTC peer
    Kickable,      \* ids the application may disconnect through Renet
    SocketErrors,  \* recv_from may fail fatally
    Quota          \* datagrams one update takes per client

ASSUME ConstantTypes ==
    /\ UdpIds \subseteq Clients /\ WebIds \subseteq Clients /\ Kickable \subseteq Clients
    /\ SocketErrors \in BOOLEAN
    /\ Quota \in Nat

VARIABLES
    session,  \* the record of WebRtcSession for every client
    call,     \* the public call in progress, "idle" between calls
    pc,       \* its current phase
    todo,     \* clients the current phase has still to visit
    seen      \* datagrams taken per client by the current phase

vars == <<session, call, pc, todo, seen>>

-----------------------------------------------------------------------------
(* The loops each call runs, in order.  "removals", "results" is           *)
(* apply_pending_results; "incoming", "outgoing" and the apply after them  *)
(* are drain_conditioned_packets.                                          *)
UpdateProgram ==
    <<"udp_receive", "udp_update_clients", "udp_disconnections",
      "removals", "results",
      "incoming", "outgoing", "removals", "results",
      "flush", "removals", "results",
      "route", "take", "routed",
      "pump", "removals", "results",
      "update_clients", "disconnections", "removals", "results",
      "incoming", "outgoing", "removals", "results">>

SendProgram ==
    <<"removals", "results",
      "incoming", "outgoing", "removals", "results",
      "send", "removals", "results",
      "incoming", "outgoing", "removals", "results">>

DisconnectAllProgram ==
    <<"udp_disconnect_all",
      "removals", "results",
      "disconnect_all", "clear", "removals", "results">>

Calls == {"update", "send_packets", "disconnect_all"}

Program(k) ==
    CASE k = "update"         -> UpdateProgram
      [] k = "send_packets"   -> SendProgram
      [] k = "disconnect_all" -> DisconnectAllProgram
      [] OTHER                -> <<"idle">>

Phase == Program(call)[pc]

Init ==
    /\ session = [c \in Clients |-> Fresh]
    /\ call = "idle" /\ pc = 1 /\ todo = {} /\ seen = [c \in Clients |-> 0]

(* The record of c becomes one of the set S. *)
Becomes(c, S) == \E t \in S : session' = [session EXCEPT ![c] = t]

Visiting(c, phase) == Phase = phase /\ c \in todo

Visited(c) == todo' = todo \ {c} /\ UNCHANGED <<call, pc, seen>>

Repeat == UNCHANGED <<call, pc, todo, seen>>

-----------------------------------------------------------------------------
(* Calls of the application, between the calls of the transport.           *)
AddPeerCall(c) ==
    /\ call = "idle" /\ c \in WebIds
    /\ Becomes(c, {AddPeer(session[c])})
    /\ Repeat

RemovePeerCall(c) ==
    /\ call = "idle" /\ c \in WebIds
    /\ Becomes(c, {RemovePeer(session[c])})
    /\ Repeat

(* RenetServer::disconnect marks the connection; update collects it.       *)
ServerDisconnect(c) ==
    /\ call = "idle" /\ c \in Kickable /\ session[c].renet = "up"
    /\ Becomes(c, {[session[c] EXCEPT !.renet = "closing"]})
    /\ Repeat

StartPhase(k, n) ==
    /\ call' = k /\ pc' = n
    /\ todo' = IF k = "idle" THEN {} ELSE Clients
    /\ seen' = [c \in Clients |-> 0]

Begin(k) ==
    /\ call = "idle"
    /\ StartPhase(k, 1)
    /\ UNCHANGED session

NextPhase ==
    /\ call # "idle" /\ todo = {}
    /\ IF pc = Len(Program(call)) THEN StartPhase("idle", 1) ELSE StartPhase(call, pc + 1)
    /\ UNCHANGED session

(* Leaves the phase without touching the record.                           *)
Skip(c) ==
    /\ c \in todo
    /\ Phase \in {"udp_receive", "route"}
    /\ Visited(c) /\ UNCHANGED session

-----------------------------------------------------------------------------
(* UdpNetcodeServerTransport.  Payloads and handshake replies change none  *)
(* of this state; a packet delayed by the gate is a packet that arrives    *)
(* later.                                                                  *)
UdpConnected(s) ==
    IF s.renet = "up" THEN [s EXCEPT !.udp = FALSE]
    ELSE AddConnection([s EXCEPT !.udp = TRUE], "udp")

UdpDisconnected(s) == RemoveConnection([s EXCEPT !.udp = FALSE])

UdpReceive(c) ==
    /\ Visiting(c, "udp_receive") /\ c \in UdpIds /\ seen[c] < Quota
    /\ \/ ~session[c].udp /\ Becomes(c, {UdpConnected(session[c])})
       \/ session[c].udp /\ Becomes(c, {UdpDisconnected(session[c])})
    /\ seen' = [seen EXCEPT ![c] = @ + 1]
    /\ UNCHANGED <<call, pc, todo>>

(* update_client: a slot that timed out is disconnected.                   *)
UdpUpdateClient(c) ==
    /\ Visiting(c, "udp_update_clients")
    /\ Becomes(c, {session[c]} \cup
                  (IF session[c].udp THEN {UdpDisconnected(session[c])} ELSE {}))
    /\ Visited(c)

UdpDisconnection(c) ==
    /\ Visiting(c, "udp_disconnections")
    /\ Becomes(c, {IF session[c].renet = "closing" /\ session[c].udp
                   THEN UdpDisconnected(session[c]) ELSE session[c]})
    /\ Visited(c)

UdpDisconnectAll(c) ==
    /\ Visiting(c, "udp_disconnect_all")
    /\ Becomes(c, {IF session[c].udp THEN UdpDisconnected(session[c]) ELSE session[c]})
    /\ Visited(c)

(* A fatal recv_from error ends update with `?`, for UDP before its        *)
(* timeouts and kicks and before the WebRTC transport is updated at all.   *)
ReceiveFails ==
    /\ SocketErrors
    /\ Phase \in {"udp_receive", "route"}
    /\ StartPhase("idle", 1)
    /\ UNCHANGED session

-----------------------------------------------------------------------------
(* WebRtcNetcodeServerTransport. *)
Removal(s) == IF s.removal THEN RemoveConnection([s EXCEPT !.removal = FALSE]) ELSE s

DrainRemoval(c) ==
    /\ Visiting(c, "removals")
    /\ Becomes(c, {Removal(session[c])})
    /\ Visited(c)

(* Mutant of TakeResults: the pending results are copied, not taken. *)
TakeResultsCopies(c) ==
    /\ c \in todo
    /\ session[c].batch = <<>>
    /\ Becomes(c, {[session[c] EXCEPT !.batch = @ \o session[c].pending]})
    /\ \/ Phase \in {"results", "incoming"} /\ session[c].pending # <<>> /\ Repeat
       \/ Phase = "take" /\ Visited(c)

(* The while loop of apply_pending_results: mem::take, then every result   *)
(* of the batch, until nothing is pending.  "take" and "routed" are the    *)
(* single pass over the results returned by route_socket_input_to_peers.   *)
TakeResults(c) ==
    /\ c \in todo
    /\ session[c].batch = <<>>
    /\ Becomes(c, {[session[c] EXCEPT !.batch = @ \o session[c].pending, !.pending = <<>>]})
    /\ \/ Phase \in {"results", "incoming"} /\ session[c].pending # <<>> /\ Repeat
       \/ Phase = "take" /\ Visited(c)

HandleResult(c) ==
    /\ c \in todo /\ Phase \in {"results", "incoming", "routed"}
    /\ session[c].batch # <<>>
    /\ Becomes(c, HandleServerResult([session[c] EXCEPT !.batch = Tail(@)],
                                     Head(session[c].batch)))
    /\ Repeat

ResultsHandled(c) ==
    /\ c \in todo
    /\ session[c].batch = <<>>
    /\ \/ Phase \in {"results", "incoming"} /\ session[c].pending = <<>>
       \/ Phase = "routed"
    /\ Visited(c) /\ UNCHANGED session

(* One due packet of drain_conditioned_packets, with the removals at the   *)
(* head of the apply_pending_results that follows it.                      *)
ConditionedPacket(s, p) ==
    LET rest == [s EXCEPT !.held = @ \ {p}]
    IN {Removal(t) : t \in
          UNION {FlushPeerOutput(Queued(d[1], d[2])) :
                   d \in ProcessPeerPacket(rest, p)}}

DrainIncoming(c) ==
    /\ Visiting(c, "incoming")
    /\ session[c].batch = <<>> /\ session[c].pending = <<>>
    /\ \E p \in session[c].held : Becomes(c, ConditionedPacket(session[c], p))
    /\ Repeat

DrainOutgoing(c) ==
    /\ Visiting(c, "outgoing")
    /\ LET s == session[c]
           sent == [s EXCEPT !.deferred = FALSE]
       IN Becomes(c, {s} \cup
                     (IF s.deferred THEN {sent} \cup SendToPeerBackend(sent) ELSE {}))
    /\ Visited(c)

FlushOutput(c) ==
    /\ Visiting(c, "flush")
    /\ Becomes(c, FlushPeerOutput(session[c]))
    /\ Visited(c)

(* Mutant of Datagram: the datagram goes in whatever output is pending. *)
DatagramUndrained(s) ==
    UNION {FlushPeerOutput(t) :
             t \in {Kill(s)} \cup {Mutate(s, o) : o \in Outputs}}

(* One datagram: dropped after a flush while output is pending, else given *)
(* to the Rtc, which may fail or have one more output.                     *)
Datagram(s) ==
    IF ~s.drained THEN FlushPeerOutput(s)
    ELSE UNION {FlushPeerOutput(t) :
                  t \in {Kill(s)} \cup {Mutate(s, o) : o \in Outputs}}

RouteSocketInput(c) ==
    /\ Visiting(c, "route") /\ session[c].rtc # "none" /\ seen[c] < Quota
    /\ Becomes(c, Datagram(session[c]))
    /\ seen' = [seen EXCEPT ![c] = @ + 1]
    /\ UNCHANGED <<call, pc, todo>>

(* Flush, let time pass for the Rtc when its output is drained, flush.     *)
PumpPeer(s) ==
    UNION {FlushPeerOutput(t) : t \in
             UNION {{u} \cup (IF u.rtc = "alive" /\ u.drained
                              THEN {Kill(u)} \cup
                                   {Mutate(u, o) : o \in {"transmit", "lost"}}
                              ELSE {}) :
                      u \in FlushPeerOutput(s)}}

Pump(c) ==
    /\ Visiting(c, "pump")
    /\ Becomes(c, PumpPeer(session[c]))
    /\ Visited(c)

(* update_client: nothing, a keep-alive, or the time-out of the slot.      *)
UpdateClient(c) ==
    /\ Visiting(c, "update_clients")
    /\ LET s == session[c]
       IN Becomes(c, IF HasSlot(s)
                     THEN {s} \cup HandleServerResult(s, "packet") \cup DisconnectClient(s)
                     ELSE {s})
    /\ Visited(c)

(* Mutant of Disconnection: the slot is freed, its result is ignored. *)
DisconnectionIgnored(c) ==
    /\ Visiting(c, "disconnections")
    /\ LET s == session[c]
       IN Becomes(c, {IF s.renet = "closing" THEN Release(s) ELSE s})
    /\ Visited(c)

Disconnection(c) ==
    /\ Visiting(c, "disconnections")
    /\ LET s == session[c]
       IN Becomes(c, IF s.renet = "closing" THEN DisconnectClient(s) ELSE {s})
    /\ Visited(c)

(* The packets Renet has for a client that netcode knows.                  *)
SendPackets(c) ==
    /\ Visiting(c, "send")
    /\ LET s == session[c]
       IN Becomes(c, IF HasSlot(s) /\ s.renet = "up" THEN {s} \cup SendToPeer(s) ELSE {s})
    /\ Visited(c)

DisconnectAll(c) ==
    /\ Visiting(c, "disconnect_all")
    /\ Becomes(c, DisconnectClient(session[c]))
    /\ Visited(c)

(* Mutant of ClearPeers: half-open peers are left in the map. *)
ClearPeersNot(c) ==
    /\ Visiting(c, "clear")
    /\ UNCHANGED session
    /\ Visited(c)

ClearPeers(c) ==
    /\ Visiting(c, "clear")
    /\ Becomes(c, {DropPeer(session[c])})
    /\ Visited(c)

ApplicationStep(c) == AddPeerCall(c) \/ RemovePeerCall(c) \/ ServerDisconnect(c)

UdpStep(c) ==
    UdpReceive(c) \/ UdpUpdateClient(c) \/ UdpDisconnection(c) \/ UdpDisconnectAll(c)

WebRtcStep(c) ==
    \/ DrainRemoval(c) \/ TakeResults(c) \/ HandleResult(c) \/ ResultsHandled(c)
    \/ DrainIncoming(c) \/ DrainOutgoing(c) \/ FlushOutput(c) \/ RouteSocketInput(c)
    \/ Pump(c) \/ UpdateClient(c) \/ Disconnection(c) \/ SendPackets(c)
    \/ DisconnectAll(c) \/ ClearPeers(c)

Next ==
    \/ \E k \in Calls : Begin(k)
    \/ NextPhase
    \/ ReceiveFails
    \/ \E c \in Clients : ApplicationStep(c) \/ UdpStep(c) \/ WebRtcStep(c) \/ Skip(c)

Spec == Init /\ [][Next]_vars

-----------------------------------------------------------------------------
(* Records, phases and per-peer datagram quotas stay within their types.   *)
TypeOK ==
    /\ session \in [Clients -> Session]
    /\ call \in Calls \cup {"idle"}
    /\ pc \in 1 .. Len(Program(call))
    /\ todo \subseteq Clients
    /\ seen \in [Clients -> 0 .. Quota]

-----------------------------------------------------------------------------
(* The three owners of an entry in RenetServer's map agree: the entry      *)
(* exists exactly when one transport is responsible for it, and the        *)
(* WebRTC transport never holds both a claim on the entry                  *)
(* (connected_client_ids) and an order to remove it                        *)
(* (pending_renet_removals).                                               *)
Owned(s) ==
    /\ s.udp <=> s.owner = "udp"
    /\ s.conn \/ s.removal <=> s.owner = "webrtc"
    /\ ~ (s.conn /\ s.removal)
    /\ s.renet = "none" <=> s.owner = "none"

(* Every Renet connection is owned by exactly the transport that added it, *)
(* and no transport believes in a connection Renet does not have:          *)
(* server.rs handle_server_result, remove_peer and apply_pending_results   *)
(* against udp_server.rs handle_server_result.                             *)
OwnershipAgrees == \A c \in Clients : Owned(session[c])

(* The first phase that removes connections, in every call.                *)
FirstRemovals(k) ==
    CASE k = "update"         -> 4
      [] k = "send_packets"   -> 1
      [] k = "disconnect_all" -> 2
      [] OTHER                -> 1

(* A removal ordered before the call is still to be carried out for c.     *)
Early(c) ==
    \/ call = "idle"
    \/ pc < FirstRemovals(call)
    \/ pc = FirstRemovals(call) /\ c \in todo

(* The WebRTC transport knows nothing of the client.                       *)
Inert(s) ==
    /\ s.rtc = "none" /\ ~ HasSlot(s) /\ ~ s.conn /\ ~ s.removal
    /\ s.pending = <<>> /\ s.batch = <<>> /\ s.held = {}

(* Ownership of one record, made inductive: an entry Renet is closing may  *)
(* be waiting for its removal only until the call in progress has removed  *)
(* it, so a handshake that completes later finds it owned or gone.         *)
Accounted(c, s, early) ==
    /\ Owned(s)
    /\ s.udp => c \in UdpIds
    /\ c \notin WebIds => Inert(s)
    /\ s.renet = "closing" => c \in Kickable
    /\ s.renet = "closing" /\ s.removal => early

(* No id that may use both transports is disconnected through Renet.       *)
DualIdsNotKicked == UdpIds \cap WebIds \cap Kickable = {}

(* The inductive invariant behind OwnershipAgrees and NoForeignRemoval.    *)
OwnershipInv == TypeOK /\ \A c \in Clients : Accounted(c, session[c], Early(c))

UdpPhases == {"udp_receive", "udp_update_clients", "udp_disconnections", "udp_disconnect_all"}

Removes(c) == session[c].renet # "none" /\ session'[c].renet = "none"

(* A teardown in one transport never removes the connection the other      *)
(* transport added for the same id (server.rs:671, udp_server.rs:290).     *)
NoForeignRemoval ==
    [][\A c \in Clients :
         Removes(c) => (session[c].owner = "udp" <=> Phase \in UdpPhases)]_vars

(* The half of NoForeignRemoval that docs/str0m-assessment.md:32 claims:   *)
(* a WebRTC disconnect never deletes a native connection.                  *)
NativeSurvivesWebRtc ==
    [][\A c \in Clients :
         Removes(c) /\ session[c].owner = "udp" => Phase \in UdpPhases]_vars

Lifecycle == {"connected", "disconnected"}

(* The last login or departure in a queue of results is a login.           *)
LogsIn(q) ==
    \E i \in 1 .. Len(q) : /\ q[i] = "connected"
                          /\ \A j \in i + 1 .. Len(q) : q[j] \notin Lifecycle

Silent(q) == \A i \in 1 .. Len(q) : q[i] \notin Lifecycle

(* What connected_client_ids will say of the client once the results taken *)
(* out of the queue, then all queued results are handled and no login is   *)
(* rejected.                                                               *)
Handled(s) == LogsIn(s.batch) \/ (Silent(s.batch) /\ s.conn)

Announced(s) == LogsIn(s.pending) \/ (Silent(s.pending) /\ Handled(s))

(* Handling the queued results always brings connected_client_ids back in  *)
(* line with netcode's slots: no order of events, removals and failed      *)
(* peers loses or invents a connection.  The one login in a queue that has *)
(* no slot any more is a duplicate that will be rejected like the one      *)
(* before it (server.rs:644): its peer is gone and Renet is connected to   *)
(* that id by somebody else.                                               *)
QueueConverges ==
    \A c \in Clients : LET s == session[c] IN
       /\ HasSlot(s) => Announced(s)
       /\ Announced(s) => \/ HasSlot(s)
                          \/ s.rtc = "none" /\ s.renet = "up" /\ ~ s.conn

(* str0m is never given a datagram, a write or a time-out while it still   *)
(* holds output (server.rs:282, :428, :451), whatever the step limit of    *)
(* the drain cut short before.                                             *)
DrainedBeforeMutation == \A c \in Clients : ~ session[c].misused

(* The client has, or may still deliver, payloads for Renet.               *)
Feeds(s) ==
    s.net = "live" \/ "payload" \in Range(s.pending) \/ "payload" \in Range(s.batch)

(* The tables of the WebRTC transport agree with the peers they speak of,  *)
(* although a peer leaves them one by one.  A virtual route leads to a     *)
(* live peer or belongs to a connection whose teardown is still to come    *)
(* (server.rs:374).  A payload that came in over WebRTC is fed to Renet    *)
(* only while the connection of that id is the one this transport added    *)
(* (server.rs:662).  And a replacement peer starts clean: until its        *)
(* channel opens it has no slot, no connection and none of its             *)
(* predecessor's results or delayed packets (server.rs:188).               *)
PeerTablesAgree ==
    \A c \in Clients : LET s == session[c] IN
       /\ s.route => s.rtc = "alive" \/ s.conn
       /\ Feeds(s) => s.conn \/ s.renet = "none"
       /\ s.rtc = "alive" /\ ~ s.open =>
             /\ ~ HasSlot(s) /\ ~ s.conn /\ s.batch = <<>> /\ s.pending = <<>>
             /\ s.held = {} /\ ~ s.deferred

(* netcode announces no second login before a departure.                   *)
Ordered(q) ==
    \A i, j \in 1 .. Len(q) :
       i < j /\ q[i] = "connected" /\ q[j] = "connected" =>
          \E k \in i + 1 .. j - 1 : q[k] \in Lifecycle

(* The first login or departure in a queue is a login.                     *)
Opens(q) ==
    \E i \in 1 .. Len(q) : q[i] = "connected" /\ \A j \in 1 .. i - 1 : q[j] \notin Lifecycle

(* The Rtc of a resting peer: alive, and drained only without output.      *)
Rested(s) == s.rtc # "dead" /\ ~ s.misused /\ (s.drained => s.out = "none")

(* The tables of one client, made inductive.  A queue keeps the order in   *)
(* which netcode let the client in and out; only a drain that failed       *)
(* fatally loses a departure (FatalDrain).                                 *)
Kept(s) ==
    /\ HasSlot(s) => Announced(s)
    /\ Announced(s) /\ ~ HasSlot(s) =>
          /\ s.rtc = "none"
          /\ FatalDrain \/ (s.renet = "up" /\ ~ s.conn /\ ~ LogsIn(s.pending))
    /\ Ordered(s.batch) /\ (s.conn => ~ Opens(s.batch))
    /\ Ordered(s.pending) /\ (Handled(s) => ~ Opens(s.pending))
    /\ Feeds(s) => s.conn \/ s.renet = "none"
    /\ s.route => s.rtc # "none" \/ s.conn
    /\ s.rtc = "none" => s.held = {}
    /\ s.rtc # "none" /\ ~ s.open =>
          /\ ~ HasSlot(s) /\ ~ s.conn /\ s.batch = <<>> /\ s.pending = <<>>
          /\ s.held = {} /\ ~ s.deferred

(* No login is queued for a client with a slot.                            *)
Calm(s) == HasSlot(s) => ~ LogsIn(s.pending)

(* What the phases add: results are taken and handled within one phase,    *)
(* the loops that disconnect clients find nothing queued for them, and     *)
(* whenever UDP may add a connection only tracked clients have payloads.   *)
(* The phase has still to visit the client while it is waiting.            *)
Timely(phase, waiting, s) ==
    /\ s.batch # <<>> => \/ phase \in {"results", "incoming", "routed"} /\ waiting
                         \/ phase = "take" /\ ~ waiting
    /\ phase \in {"results", "incoming"} /\ ~ waiting => s.pending = <<>>
    /\ phase \in {"update_clients", "disconnect_all"} /\ waiting => s.pending = <<>>
    /\ phase = "update_clients" /\ ~ waiting => Calm(s)
    /\ phase = "disconnections" /\ waiting => Calm(s)
    /\ phase \in UdpPhases \cup {"idle", "route"} /\ Feeds(s) => s.conn

(* The inductive invariant behind QueueConverges, PeerTablesAgree and      *)
(* DrainedBeforeMutation.                                                  *)
TablesInv ==
    /\ TypeOK
    /\ \A c \in Clients : LET s == session[c]
                          IN Rested(s) /\ Kept(s) /\ Timely(Phase, c \in todo, s)

(* What the loops of disconnect_all that have passed the client left of    *)
(* it: no slot of UDP, no slot of netcode, no peer, no removal to do.      *)
Emptied(c, s) ==
    LET passed(n) == call = "disconnect_all" /\ (pc > n \/ (pc = n /\ c \notin todo))
    IN /\ passed(1) => ~ s.udp
       /\ passed(4) => ~ HasSlot(s)
       /\ passed(5) => s.rtc = "none"
       /\ passed(6) => ~ s.removal

(* The inductive invariant behind DisconnectAllEmpties.                    *)
EmptyInv == OwnershipInv /\ TablesInv /\ \A c \in Clients : Emptied(c, session[c])

(* After disconnect_all neither transport nor Renet knows any client, not  *)
(* even one whose handshake completed during the call.                     *)
DisconnectAllEmpties ==
    [][call = "disconnect_all" /\ call' = "idle" =>
         \A c \in Clients :
            /\ session'[c].renet = "none" /\ session'[c].rtc = "none"
            /\ ~ HasSlot(session'[c]) /\ ~ session'[c].udp]_vars

-----------------------------------------------------------------------------
(* A call that has begun runs on, and the application's main loop keeps    *)
(* calling update however often it does something else in between.         *)
CallStep ==
    NextPhase \/ \E c \in Clients : UdpStep(c) \/ WebRtcStep(c) \/ Skip(c)

FairSpec == Spec /\ WF_vars(CallStep) /\ SF_vars(Begin("update"))

(* A client the application disconnects leaves Renet (server.rs:306,       *)
(* "Respect requested disconnections from renet.").                        *)
KickCompletes ==
    \A c \in Clients : session[c].renet = "closing" ~> session[c].renet # "closing"

(* Every call returns, although handling a result may write to a channel   *)
(* and so produce more results (server.rs:358).                            *)
CallReturns == call # "idle" ~> call = "idle"
=============================================================================
