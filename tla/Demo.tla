-------------------------------- MODULE Demo --------------------------------
(***************************************************************************)
(* The example server and one example client, Me, joined by the two        *)
(* channels they use.  Inputs go up and world deltas come down on the      *)
(* unreliable channel; join snapshots come down on the reliable one.       *)
(*                                                                         *)
(* What one server tick sends to Me leaves in one packet of the wire.  The *)
(* network may lose a packet or deliver it after later ones; renet sends   *)
(* the join snapshot of a lost packet again, never the delta.              *)
(***************************************************************************)
EXTENDS DemoServer, DemoClient

CONSTANTS
    Me,             \* the client whose view is followed
    FrameTimes,     \* the lengths of a frame
    Steer,          \* the directions the player of Me holds
    MaxWire,        \* bound on the packets on their way to Me
    Scenarios       \* the bounds explored: [lossy, guests, window] records

ASSUME WindowAssumption ==
    /\ Me \in Client
    /\ Scenarios \subseteq
           [lossy : BOOLEAN,                \* packets are lost and overtaken
            guests : SUBSET (Client \ {Me}), \* the others who may join
            window : 0..(SeqSpace - 1) \div 2 - 1]
                                            \* how far inputs run ahead

VARIABLES
    link,           \* Me's RenetClient: connecting or connected
    rt,             \* Me's ClientRuntime
    view,           \* Me's WorldView
    wire,           \* the packets on their way to Me
    scenario        \* the bounds of this behaviour

client == <<link, rt, view, wire, scenario>>
all == <<vars, client>>

-----------------------------------------------------------------------------
DemoInit ==
    /\ Init
    /\ link = "connecting"
    /\ rt = ClientRuntime_new
    /\ view = WorldView_default
    /\ wire = <<>>
    /\ scenario \in Scenarios

(* The sequence number a tick acknowledges to Me. *)
AckOf(g) == IF Me \in DOMAIN g.last_input_seq THEN g.last_input_seq[Me] ELSE NoAck

(* send_world_delta_to_clients and send_pending_join_snapshots, as far as    *)
(* they concern Me, then flush_transport_packets.                            *)
Packet(g, connected) ==
    LET delta == build_world_delta(g)
        told == WorthSending(g, delta)
        joins == Me \in join_recipients(g, connected)
    IN  [deltas |-> IF told
                    THEN <<[ack |-> AckOf(g), upserts |-> delta.upserts,
                            removed |-> delta.removed]>>
                    ELSE <<>>,
         joins |-> IF joins
                   THEN <<[ack |-> AckOf(g), you |-> Me,
                           world |-> current_entity_map(g)]>>
                   ELSE <<>>]

Post(packet) ==
    wire' = IF conn[Me] = "connected" /\ (packet.deltas # <<>> \/ packet.joins # <<>>)
            THEN Append(wire, packet) ELSE wire

ServerTick ==
    /\ Len(wire) < MaxWire
    /\ \E g \in Simulated(game, Connected, inbox) :
          /\ fixed_server_tick(g)
          /\ Post(Packet(g, Connected))
    /\ UNCHANGED <<link, rt, view, scenario>>

(* Sessions are issued and expire, clients come and go; Me stays. *)
ServerUpdate ==
    /\ \E c \in {Me} \cup scenario.guests :
          \/ SessionNew(c)
          \/ c = Me /\ session[c] = "pending" /\ network_transport_connected(c)
          \/ c # Me /\ (SessionExpires(c) \/ ConnectionFails(c)
                          \/ network_transport_update(c))
    /\ UNCHANGED client

(* An input of Me is received. *)
MyInputArrives == InputArrives(Me) /\ UNCHANGED client

(* An input of Me is lost. *)
MyInputLost ==
    /\ scenario.lossy
    /\ \E input \in flight[Me] : flight' = [flight EXCEPT ![Me] = @ \ {input}]
    /\ UNCHANGED <<session, conn, inbox, game, beat, client>>

(* Me's netcode client learns that the server let it in. *)
LinkUp ==
    /\ link = "connecting" /\ conn[Me] = "connected"
    /\ link' = "connected"
    /\ UNCHANGED <<vars, rt, view, wire, scenario>>

(* A packet is lost.  Its join snapshot, if any, is sent again. *)
PacketLost ==
    /\ scenario.lossy
    /\ \E i \in DOMAIN wire :
          LET rest == RemoveAt(wire, i)
          IN  wire' = IF wire[i].joins = <<>> THEN rest
                      ELSE Append(rest, [wire[i] EXCEPT !.deltas = <<>>])
    /\ UNCHANGED <<vars, link, rt, view, scenario>>

(* A packet is overtaken by all later ones. *)
PacketOvertaken ==
    /\ scenario.lossy
    /\ \E i \in 1..(Len(wire) - 1) : wire' = Append(RemoveAt(wire, i), wire[i])
    /\ UNCHANGED <<vars, link, rt, view, scenario>>

(* The numbers of Me's inputs that something still refers to. *)
SeqsInUse ==
    {i.seq : i \in flight[Me] \cup Range(inbox[Me])}
        \cup {AckOf(game)}
        \cup {p.deltas[1].ack : p \in {q \in Range(wire) : q.deltas # <<>>}}
        \cup {p.joins[1].ack : p \in {q \in Range(wire) : q.joins # <<>>}}

WithinWindow(seq) ==
    \A s \in SeqsInUse \ {NoAck} : (seq - s) % SeqSpace <= scenario.window

(* network_tick: send_local_input when connected, then the messages of the   *)
(* packets that have arrived, then reconcile_and_smooth_world; the inputs    *)
(* leave with flush_transport_send.                                          *)
network_tick ==
    /\ \E dt \in FrameTimes, dir \in Steer, n \in 0..Len(wire) :
         LET arrived == SubSeq(wire, 1, n)
             snapshots == FlattenSeq([i \in 1..n |-> arrived[i].joins])
             deltas == FlattenSeq([i \in 1..n |-> arrived[i].deltas])
         IN  \E sending \in {IF link = "connected" THEN send_local_input(rt, dt, dir)
                                                  ELSE rt} :
               \E st \in {receive_authoritative_messages(
                             [rt |-> sending, view |-> view], snapshots, deltas)} :
                 /\ WithinWindow(sending.input_seq)
                 /\ rt' = [st.rt EXCEPT !.outgoing = {}]
                 /\ view' = step_smoothing(st.view, dt)
                 /\ flight' = [flight EXCEPT ![Me] = @ \cup sending.outgoing]
                 /\ wire' = SubSeq(wire, n + 1, Len(wire))
    /\ UNCHANGED <<session, conn, inbox, game, beat, link, scenario>>

DemoNext ==
    \/ ServerTick
    \/ ServerUpdate
    \/ MyInputArrives
    \/ MyInputLost
    \/ LinkUp
    \/ PacketLost
    \/ PacketOvertaken
    \/ network_tick

(* Bevy keeps running FixedUpdate, and only a tick beats. *)
DemoSpec == DemoInit /\ [][DemoNext]_all /\ WF_beat(Beat)

-----------------------------------------------------------------------------
(* The client's mirror.  While no packet is lost or overtaken, the view      *)
(* Me would have after the packets on the wire is the server's last          *)
(* published world, from the join snapshot on and through every spawn, meal, *)
(* respawn and departure, and it is exactly those entities that are drawn.   *)
MirrorsServer ==
    LET st == receive_authoritative_messages(
                  [rt |-> rt, view |-> view],
                  FlattenSeq([i \in DOMAIN wire |-> wire[i].joins]),
                  FlattenSeq([i \in DOMAIN wire |-> wire[i].deltas]))
    IN  ~scenario.lossy /\ st.view.you # Nobody
            => /\ st.view.authoritative = game.snapshot_cache
               /\ st.view.rendered = DOMAIN game.snapshot_cache

(* Nothing unacknowledged is forgotten.  pending_inputs is the run of the    *)
(* newest inputs, and an input newer than the last one the server accepted   *)
(* stays in it (unless the cap pushed it out), whichever acknowledgements    *)
(* arrive late, twice or never, and across the wrap of the sequence numbers. *)
PendingCoversUnacked ==
    LET last == Len(rt.pending_inputs)
        Back(k) == (rt.input_seq - k) % SeqSpace
    IN  /\ \A i \in 1..last : rt.pending_inputs[i] = Back(last - i)
        /\ \A k \in 0..MAX_PENDING_INPUT_COMMANDS - 1 :
              (AckOf(game) # NoAck /\ is_newer_input_seq(Back(k), AckOf(game)))
                  => k < last
=============================================================================
