---------------------------- MODULE NativeClient ----------------------------
(***************************************************************************)
(* UdpNetcodeClientTransport, src/src/native_client.rs.                    *)
(*                                                                         *)
(* update is a sequence of steps here, so that datagrams may arrive while  *)
(* it reads the socket and so that it may return at every `?`.  The        *)
(* application calls update, send_packets, disconnect and the conditioner  *)
(* setters only between two updates (pc = "idle").                         *)
(***************************************************************************)
EXTENDS ClientLink

CONSTANT MaxSocket      \* bound on the datagrams the OS buffers

VARIABLES
    pc,             \* idle, recv, flush, deliver or timer
    attempts,       \* receive attempts of this update
    socket,         \* datagrams in the OS buffer
    flaky,          \* the socket's errors have not ceased yet
    ret             \* what the last call returned: none, ok, closed or failed

vars == <<link, pc, attempts, socket, flaky, ret>>

Init ==
    /\ LinkInit
    /\ pc = "idle" /\ attempts = 0 /\ socket = {} /\ flaky = TRUE
    /\ ret = "none"

TypeOK ==
    /\ LinkTypeOK
    /\ pc \in {"idle", "recv", "flush", "deliver", "timer"}
    /\ attempts \in 0..Limit
    /\ socket \subseteq Packet
    /\ flaky \in BOOLEAN
    /\ ret \in {"none", "ok", "closed", "failed"}

Return(result) == pc' = "idle" /\ attempts' = 0 /\ ret' = result

-----------------------------------------------------------------------------
(* The network *)

(* A datagram reaches the socket; the network may repeat one. *)
Arrive(p) ==
    /\ p \notin socket /\ Cardinality(socket) < MaxSocket
    /\ p \in FromServer => ~silent
    /\ socket' = socket \cup {p}
    /\ UNCHANGED <<link, pc, attempts, flaky, ret>>

FallSilent ==
    /\ ~silent
    /\ silent' = TRUE
    /\ UNCHANGED <<netcode, quiet_for, seen, renet, attached, held_in,
                   held_out, opened, delivered, pc, attempts, socket, flaky,
                   ret>>

(* The errors of the socket cease. *)
SocketHeals ==
    /\ flaky
    /\ flaky' = FALSE
    /\ UNCHANGED <<link, pc, attempts, socket, ret>>

-----------------------------------------------------------------------------
(* update *)

(* netcode has ended: drop what is queued, tell renet, return Err. *)
EndOfSession ==
    /\ reset
    /\ renet' = "closed"
    /\ Return("closed")

UpdateEnded ==
    /\ pc = "idle" /\ netcode = "closed"
    /\ EndOfSession
    /\ UNCHANGED <<netcode, quiet_for, seen, attached, opened, delivered,
                   silent, socket, flaky>>

(* The application has disconnected renet: netcode follows and a disconnect  *)
(* packet goes through the gate, errors ignored.                             *)
UpdateDisconnects ==
    /\ pc = "idle" /\ netcode # "closed" /\ renet = "closed"
    /\ netcode' = "closed"
    /\ held_out' \in OutgoingAfterSend
    /\ pc' = "recv" /\ ret' = "none"
    /\ UNCHANGED <<quiet_for, seen, renet, attached, held_in, opened,
                   delivered, silent, attempts, socket, flaky>>

UpdateBegins ==
    /\ pc = "idle" /\ netcode # "closed" /\ renet # "closed"
    /\ renet' = Reflects(netcode, renet)
    /\ pc' = "recv" /\ ret' = "none"
    /\ UNCHANGED <<netcode, quiet_for, seen, attached, held_in, held_out,
                   opened, delivered, silent, attempts, socket, flaky>>

(* Mutant: a stray datagram does not count against the budget. *)
RecvDatagramFree ==
    /\ pc = "recv" /\ attempts < Limit
    /\ \E p \in socket :
          /\ socket' = socket \ {p}
          /\ \/ /\ p \in FromServer
                /\ process_packet(p)
                /\ UNCHANGED held_in
             \/ /\ p = "stray" \/ attached
                /\ held_in' \in {held_in} \cup
                       (IF p = "stray" THEN {} ELSE {held_in \cup {p}})
                /\ UNCHANGED <<netcode, quiet_for, seen, renet, opened,
                               delivered>>
          /\ attempts' = attempts + (IF p = "stray" THEN 0 ELSE 1)
    /\ UNCHANGED <<attached, held_out, silent, pc, flaky, ret>>

(* recv_from succeeds.  A datagram from elsewhere is dropped; one of the     *)
(* server is held or dropped by the gate, or processed at once.              *)
RecvDatagram ==
    /\ pc = "recv" /\ attempts < Limit
    /\ \E p \in socket :
          /\ socket' = socket \ {p}
          /\ \/ /\ p \in FromServer
                /\ process_packet(p)
                /\ UNCHANGED held_in
             \/ /\ p = "stray" \/ attached
                /\ held_in' \in {held_in} \cup
                       (IF p = "stray" THEN {} ELSE {held_in \cup {p}})
                /\ UNCHANGED <<netcode, quiet_for, seen, renet, opened,
                               delivered>>
    /\ attempts' = attempts + 1
    /\ UNCHANGED <<attached, held_out, silent, pc, flaky, ret>>

(* recv_from is interrupted or reports a reset connection: one attempt gone. *)
RecvRetries ==
    /\ pc = "recv" /\ attempts < Limit
    /\ attempts' = attempts + 1
    /\ UNCHANGED <<link, pc, socket, flaky, ret>>

(* recv_from fails otherwise: update returns the error. *)
RecvFails ==
    /\ pc = "recv" /\ attempts < Limit /\ flaky
    /\ Return("failed")
    /\ UNCHANGED <<link, socket, flaky>>

(* The socket would block, or the budget is spent. *)
RecvDone ==
    /\ pc = "recv" /\ (socket = {} \/ attempts = Limit)
    /\ pc' = "flush"
    /\ UNCHANGED <<link, attempts, socket, flaky, ret>>

(* flush_outgoing: what is due leaves the gate and is sent. *)
FlushOutgoing ==
    /\ pc = "flush"
    /\ held_out' \in OutgoingAfterDrain
    /\ pc' = "deliver"
    /\ UNCHANGED <<netcode, quiet_for, seen, renet, attached, held_in, opened,
                   delivered, silent, attempts, socket, flaky, ret>>

(* A send fails: the rest of what was due is lost and update returns. *)
FlushFails ==
    /\ pc = "flush" /\ held_out > 0 /\ flaky
    /\ held_out' \in 0..held_out - 1
    /\ Return("failed")
    /\ UNCHANGED <<netcode, quiet_for, seen, renet, attached, held_in, opened,
                   delivered, silent, socket, flaky>>

(* deliver_incoming, packet by packet: those that are due. *)
DeliverOne ==
    /\ pc = "deliver"
    /\ \E p \in held_in : process_packet(p) /\ held_in' = held_in \ {p}
    /\ UNCHANGED <<attached, held_out, silent, pc, attempts, socket, flaky,
                   ret>>

DeliverDone ==
    /\ pc = "deliver"
    /\ pc' = "timer"
    /\ UNCHANGED <<link, attempts, socket, flaky, ret>>

(* Mutant: a timeout is reported by the next update. *)
TimerLate ==
    /\ pc = "timer"
    /\ netcode_update
    /\ renet' = IF netcode' = "connected" THEN Reflects(netcode', renet) ELSE renet
    /\ held_out' \in OutgoingAfterSend
    /\ Return("ok")
    /\ UNCHANGED <<held_in, seen, attached, opened, delivered, silent, socket,
                   flaky>>

(* netcode.update, its packet if it has one, and the final look at netcode.  *)
Timer ==
    /\ pc = "timer"
    /\ netcode_update
    /\ IF netcode' = "closed" THEN EndOfSession
       ELSE /\ renet' = IF netcode' = "connected" THEN Reflects(netcode', renet)
                                                ELSE renet
            /\ held_out' \in {held_out} \cup OutgoingAfterSend
            /\ Return("ok")
            /\ UNCHANGED held_in
    /\ UNCHANGED <<seen, attached, opened, delivered, silent, socket, flaky>>

(* The packet of netcode.update cannot be sent: update returns the error,    *)
(* and renet has not been told of a handshake completed in this call.        *)
TimerSendFails ==
    /\ pc = "timer" /\ netcode # "closed" /\ flaky
    /\ netcode_update
    /\ netcode' # "closed"
    /\ held_out' \in 0..held_out
    /\ Return("failed")
    /\ UNCHANGED <<seen, renet, attached, held_in, opened, delivered, silent,
                   socket, flaky>>

-----------------------------------------------------------------------------
(* The other calls *)

(* send_packets. *)
SendPackets ==
    /\ pc = "idle"
    /\ IF netcode = "closed" THEN reset /\ Return("closed")
       ELSE /\ held_out' \in OutgoingAfterDrain \cup OutgoingAfterSend
            /\ \E result \in {"none", "failed"} : Return(result)
            /\ UNCHANGED held_in
    /\ UNCHANGED <<netcode, quiet_for, seen, renet, attached, opened,
                   delivered, silent, socket, flaky>>

(* The application calls RenetClient::disconnect. *)
AppDisconnects ==
    /\ pc = "idle" /\ renet # "closed"
    /\ renet' = "closed"
    /\ Return("none")
    /\ UNCHANGED <<netcode, quiet_for, seen, attached, held_in, held_out,
                   opened, delivered, silent, socket, flaky>>

Conditioning ==
    /\ pc = "idle"
    /\ SetConditioner \/ ClearConditioner
    /\ Return("none")
    /\ UNCHANGED <<netcode, quiet_for, seen, renet, opened, delivered, silent,
                   socket, flaky>>

UpdateStep ==
    \/ UpdateEnded \/ UpdateDisconnects \/ UpdateBegins
    \/ RecvDatagram \/ RecvRetries \/ RecvFails \/ RecvDone
    \/ FlushOutgoing \/ FlushFails
    \/ DeliverOne \/ DeliverDone
    \/ Timer \/ TimerSendFails

Next ==
    \/ \E p \in Packet : Arrive(p)
    \/ FallSilent
    \/ SocketHeals
    \/ UpdateStep
    \/ SendPackets
    \/ AppDisconnects
    \/ Conditioning

(* The application keeps calling update, and the errors of its socket are    *)
(* not permanent.                                                            *)
Fairness == WF_vars(UpdateStep) /\ WF_vars(SocketHeals)

Spec == Init /\ [][Next]_vars /\ Fairness

-----------------------------------------------------------------------------
(* update tells the truth.  When it returns Ok, netcode is alive and renet   *)
(* agrees with it (or has been closed by the application or a bad payload);  *)
(* when a call returns that the session is over, netcode has ended and the   *)
(* gate holds nothing of it any more.                                        *)
ReturnsTell ==
    /\ ret = "ok" => /\ netcode # "closed"
                     /\ renet \in {netcode, "closed"}
    /\ ret = "closed" => /\ netcode = "closed"
                         /\ held_in = {} /\ held_out = 0
=============================================================================
