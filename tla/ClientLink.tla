----------------------------- MODULE ClientLink -----------------------------
(***************************************************************************)
(* What the two client transports share: the netcode client, renet's       *)
(* client, the packet gate, and the packets of the server.                 *)
(*                                                                         *)
(* netcode and renet are libraries, modelled from how the transports use   *)
(* them: netcode.process_packet yields a payload at most once and only     *)
(* while connected; a RenetClient that is disconnected stays so and takes  *)
(* no payload.  The conditioner behind the gate (module Conditioner) may   *)
(* hold, drop or pass any packet and release what it holds at any time.    *)
(***************************************************************************)
EXTENDS Naturals, FiniteSets

CONSTANTS
    Payload,        \* payloads the server sends
    Poison,         \* those renet cannot parse: it disconnects on one
    TIMEOUT,        \* updates without a packet before netcode gives up
    Limit,          \* max_datagrams_per_update of the native transport
    Capacity,       \* max_inbox_packets of the browser's
    MaxHeld         \* bound on the outgoing packets the gate holds

ASSUME LinkAssumption ==
    /\ Poison \subseteq Payload
    /\ "alive" \notin Payload /\ "bye" \notin Payload /\ "stray" \notin Payload
    /\ TIMEOUT \in Nat \ {0}
    /\ MaxHeld \in Nat

(* NonZeroUsize, and validate refuses an inbox without room. *)
ASSUME LimitAssumption == Limit \in Nat \ {0}
ASSUME CapacityAssumption == Capacity \in Nat \ {0}

VARIABLES
    netcode,        \* connecting, connected or closed
    quiet_for,      \* netcode's time since the last packet it accepted
    seen,           \* payloads netcode has let through (replay protection)
    renet,          \* connecting, connected or closed
    attached,       \* whether the gate has a conditioner
    held_in,        \* incoming packets the gate holds
    held_out,       \* how many outgoing packets the gate holds
    opened,         \* history: netcode has been connected
    delivered,      \* history: how often renet took each payload
    silent          \* the server sends nothing any more

link == <<netcode, quiet_for, seen, renet, attached, held_in, held_out,
          opened, delivered, silent>>

(* What the server sends: keep-alives (the first one ends the handshake),    *)
(* payloads, a disconnect.  A stray packet comes from elsewhere.             *)
FromServer == Payload \cup {"alive", "bye"}
Packet == FromServer \cup {"stray"}

States == {"connecting", "connected", "closed"}

LinkInit ==
    /\ netcode = "connecting" /\ quiet_for = 0 /\ seen = {}
    /\ renet = "connecting"
    /\ attached \in BOOLEAN
    /\ held_in = {} /\ held_out = 0
    /\ opened = FALSE /\ delivered = [p \in Payload |-> 0]
    /\ silent = FALSE

LinkTypeOK ==
    /\ netcode \in States /\ renet \in States
    /\ quiet_for \in 0..TIMEOUT
    /\ seen \subseteq Payload
    /\ attached \in BOOLEAN
    /\ held_in \subseteq FromServer
    /\ held_out \in 0..MaxHeld
    /\ opened \in BOOLEAN
    /\ delivered \in [Payload -> 0..1]
    /\ silent \in BOOLEAN

(* The session as the application sees it: open from the moment netcode is,  *)
(* over when its RenetClient says so.                                        *)
Status == CASE renet = "closed" -> "closed"
            [] renet # "closed" /\ opened -> "connected"
            [] OTHER -> "connecting"

(* The promises both transports keep, read through Status. *)
Session == INSTANCE ClientSession WITH status <- Status

-----------------------------------------------------------------------------
(* netcode and renet *)

(* client.process_packet(payload). *)
RenetTakes(p) ==
    /\ renet' = IF p \in Poison THEN "closed" ELSE renet
    /\ delivered' = IF renet = "closed" \/ p \in Poison THEN delivered
                    ELSE [delivered EXCEPT ![p] = @ + 1]

(* netcode_client.process_packet, then renet when there is a payload.        *)
(* Packets netcode does not expect in its state are ignored.                 *)
process_packet(p) ==
    \/ /\ p = "alive" /\ netcode # "closed"
       /\ netcode' = "connected" /\ opened' = TRUE /\ quiet_for' = 0
       /\ UNCHANGED <<seen, renet, delivered>>
    \/ /\ p = "bye" /\ netcode # "closed"
       /\ netcode' = "closed"
       /\ UNCHANGED <<quiet_for, seen, renet, opened, delivered>>
    \/ /\ p \in Payload \ seen /\ netcode = "connected"
       /\ seen' = seen \cup {p} /\ quiet_for' = 0
       /\ RenetTakes(p)
       /\ UNCHANGED <<netcode, opened>>
    \/ /\ \/ p \in {"alive", "bye"} /\ netcode = "closed"
          \/ p \in Payload /\ (p \in seen \/ netcode # "connected")
       /\ UNCHANGED <<netcode, quiet_for, seen, renet, opened, delivered>>

(* netcode_client.update(duration): the timer and the timeout. *)
netcode_update ==
    IF netcode = "closed" THEN UNCHANGED <<netcode, quiet_for>>
    ELSE IF quiet_for + 1 >= TIMEOUT
         THEN netcode' = "closed" /\ UNCHANGED quiet_for
         ELSE quiet_for' = quiet_for + 1 /\ UNCHANGED netcode

(* client.set_connected / set_connecting: without effect once disconnected. *)
Reflects(state, current) ==
    IF current = "closed" \/ state = "closed" THEN current ELSE state

-----------------------------------------------------------------------------
(* The gate *)

(* packets.reset(): the conditioner drops what it holds. *)
reset == held_in' = {} /\ held_out' = 0

(* A packet sent through the gate: held, or passed on (to be sent, dropped   *)
(* or refused by the egress limit); anything held may go with it.            *)
OutgoingAfterSend ==
    {n \in 0..MaxHeld : n <= IF attached THEN held_out + 1 ELSE 0}

OutgoingAfterDrain == 0..held_out

(* set_conditioner and clear_conditioner: both discard what is held. *)
SetConditioner == attached' = TRUE /\ reset
ClearConditioner == attached' = FALSE /\ reset
=============================================================================
