----------------------------- MODULE WebClient ------------------------------
(***************************************************************************)
(* WebRtcNetcodeClientTransport, src/src/web_client.rs.                    *)
(*                                                                         *)
(* The browser runs one task at a time: messages reach the onmessage       *)
(* callback, and the data channel changes its state, only between the      *)
(* calls of the application (pc = "idle").  update is a sequence of steps  *)
(* all the same, because it may return at every `?`.                       *)
(***************************************************************************)
EXTENDS ClientLink, Sequences

VARIABLES
    pc,             \* idle, channel, deliver, flush, inbox or timer
    channel,        \* open or closed (Closing and Closed are treated alike)
    inbox,          \* PacketInbox.packets
    flaky,          \* the channel's send errors have not ceased yet
    ret             \* what the call just made returned (none after a message):
                    \* none, ok, closed, lost or failed

vars == <<link, pc, channel, inbox, flaky, ret>>

(* The transport exists once the channel is open. *)
Init ==
    /\ LinkInit
    /\ pc = "idle" /\ channel = "open" /\ inbox = << >> /\ flaky = TRUE
    /\ ret = "none"

TypeOK ==
    /\ LinkTypeOK
    /\ pc \in {"idle", "channel", "deliver", "flush", "inbox", "timer"}
    /\ channel \in {"open", "closed"}
    /\ inbox \in Seq(FromServer)
    /\ flaky \in BOOLEAN
    /\ ret \in {"none", "ok", "closed", "lost", "failed"}

Return(result) == pc' = "idle" /\ ret' = result

(* The gate and the inbox forget everything. *)
clear_pending_packets == reset /\ inbox' = << >>

-----------------------------------------------------------------------------
(* The browser *)

(* Mutant: nothing is dropped to make room. *)
PushUnbounded(p) == inbox' = Append(inbox, p)

(* PacketInbox::push: the oldest packet makes room for the newest. *)
Push(p) ==
    inbox' = Append(IF Len(inbox) = Capacity THEN Tail(inbox) ELSE inbox, p)

(* The onmessage callback.  A message of a wrong size or type leaves no      *)
(* trace but a counter.                                                      *)
OnMessage(p) ==
    /\ pc = "idle" /\ channel = "open" /\ ~silent
    /\ \/ Push(p) /\ UNCHANGED held_in
       \/ attached /\ held_in' \in {held_in, held_in \cup {p}} /\ UNCHANGED inbox
    /\ ret' = "none"
    /\ UNCHANGED <<netcode, quiet_for, seen, renet, attached, held_out,
                   opened, delivered, silent, pc, channel, flaky>>

ChannelCloses ==
    /\ pc = "idle" /\ channel = "open"
    /\ channel' = "closed"
    /\ UNCHANGED <<link, pc, inbox, flaky, ret>>

FallSilent ==
    /\ ~silent
    /\ silent' = TRUE
    /\ UNCHANGED <<netcode, quiet_for, seen, renet, attached, held_in,
                   held_out, opened, delivered, pc, channel, inbox, flaky,
                   ret>>

(* The send errors of an open channel cease. *)
ChannelHeals ==
    /\ flaky
    /\ flaky' = FALSE
    /\ UNCHANGED <<link, pc, channel, inbox, ret>>

-----------------------------------------------------------------------------
(* update *)

(* netcode has ended: drop what is queued, tell renet, return Err. *)
UpdateEnded ==
    /\ pc = "idle" /\ netcode = "closed"
    /\ clear_pending_packets
    /\ renet' = "closed"
    /\ Return("closed")
    /\ UNCHANGED <<netcode, quiet_for, seen, attached, opened, delivered,
                   silent, channel, flaky>>

(* The application has disconnected renet: netcode follows, its disconnect   *)
(* packet is sent, errors ignored, and everything queued is dropped.         *)
UpdateDisconnects ==
    /\ pc = "idle" /\ netcode # "closed" /\ renet = "closed"
    /\ netcode' = "closed"
    /\ clear_pending_packets
    /\ pc' = "channel" /\ ret' = "none"
    /\ UNCHANGED <<quiet_for, seen, renet, attached, opened, delivered,
                   silent, channel, flaky>>

UpdateBegins ==
    /\ pc = "idle" /\ netcode # "closed" /\ renet # "closed"
    /\ pc' = "channel" /\ ret' = "none"
    /\ UNCHANGED <<link, channel, inbox, flaky>>

(* Mutant: renet is not told. *)
ChannelCheckQuiet ==
    /\ pc = "channel"
    /\ IF channel = "closed"
       THEN /\ clear_pending_packets
            /\ UNCHANGED renet
            /\ Return("lost")
       ELSE pc' = "deliver" /\ UNCHANGED <<held_in, held_out, inbox, renet, ret>>
    /\ UNCHANGED <<netcode, quiet_for, seen, attached, opened, delivered,
                   silent, channel, flaky>>

(* A channel that is closing or closed ends the session for renet; netcode   *)
(* is left to the next update.                                               *)
ChannelCheck ==
    /\ pc = "channel"
    /\ IF channel = "closed"
       THEN /\ clear_pending_packets
            /\ renet' = "closed"
            /\ Return("lost")
       ELSE pc' = "deliver" /\ UNCHANGED <<held_in, held_out, inbox, renet, ret>>
    /\ UNCHANGED <<netcode, quiet_for, seen, attached, opened, delivered,
                   silent, channel, flaky>>

(* deliver_pending_packets: the held packets that are due, one by one. *)
DeliverHeld ==
    /\ pc = "deliver"
    /\ \E p \in held_in : process_packet(p) /\ held_in' = held_in \ {p}
    /\ UNCHANGED <<attached, held_out, silent, pc, channel, inbox, flaky,
                   ret>>

DeliverDone ==
    /\ pc = "deliver"
    /\ pc' = "flush"
    /\ UNCHANGED <<link, channel, inbox, flaky, ret>>

(* flush_pending_sends: what is due is sent, or dropped when the browser's   *)
(* buffer is full.                                                           *)
Flush ==
    /\ pc = "flush"
    /\ held_out' \in OutgoingAfterDrain
    /\ pc' = "inbox"
    /\ UNCHANGED <<netcode, quiet_for, seen, renet, attached, held_in, opened,
                   delivered, silent, channel, inbox, flaky, ret>>

(* A send fails: the rest of what was due is lost and update returns.  The   *)
(* inbox keeps its packets for the next update.                              *)
FlushFails ==
    /\ pc = "flush" /\ held_out > 0 /\ flaky
    /\ held_out' \in 0..held_out - 1
    /\ Return("failed")
    /\ UNCHANGED <<netcode, quiet_for, seen, renet, attached, held_in, opened,
                   delivered, silent, channel, inbox, flaky>>

(* The inbox, oldest packet first, until it is empty. *)
InboxPop ==
    /\ pc = "inbox" /\ inbox # << >>
    /\ process_packet(Head(inbox))
    /\ inbox' = Tail(inbox)
    /\ UNCHANGED <<attached, held_in, held_out, silent, pc, channel, flaky,
                   ret>>

InboxDone ==
    /\ pc = "inbox" /\ inbox = << >>
    /\ pc' = "timer"
    /\ UNCHANGED <<link, channel, inbox, flaky, ret>>

(* netcode.update, its packet if it has one, and the final look at netcode.  *)
Timer ==
    /\ pc = "timer"
    /\ netcode_update
    /\ IF netcode' = "closed"
       THEN clear_pending_packets /\ renet' = "closed" /\ Return("closed")
       ELSE /\ renet' = Reflects(netcode', renet)
            /\ held_out' \in {held_out} \cup OutgoingAfterSend
            /\ Return("ok")
            /\ UNCHANGED <<held_in, inbox>>
    /\ UNCHANGED <<seen, attached, opened, delivered, silent, channel, flaky>>

(* The packet of netcode.update cannot be sent: update returns the error. *)
TimerSendFails ==
    /\ pc = "timer" /\ netcode # "closed" /\ flaky
    /\ netcode_update
    /\ netcode' # "closed"
    /\ held_out' \in 0..held_out
    /\ Return("failed")
    /\ UNCHANGED <<seen, renet, attached, held_in, opened, delivered, silent,
                   channel, inbox, flaky>>

-----------------------------------------------------------------------------
(* The other calls *)

(* send_packets: a closed channel refuses what is sent. *)
SendPackets ==
    /\ pc = "idle"
    /\ IF netcode = "closed" THEN clear_pending_packets /\ Return("closed")
       ELSE /\ held_out' \in OutgoingAfterDrain \cup OutgoingAfterSend
            /\ \E result \in {"none", "failed"} : Return(result)
            /\ UNCHANGED <<held_in, inbox>>
    /\ UNCHANGED <<netcode, quiet_for, seen, renet, attached, opened,
                   delivered, silent, channel, flaky>>

(* The application calls RenetClient::disconnect. *)
AppDisconnects ==
    /\ pc = "idle" /\ renet # "closed"
    /\ renet' = "closed"
    /\ Return("none")
    /\ UNCHANGED <<netcode, quiet_for, seen, attached, held_in, held_out,
                   opened, delivered, silent, channel, inbox, flaky>>

(* set_conditioner and clear_conditioner: the inbox is emptied too. *)
Conditioning ==
    /\ pc = "idle"
    /\ SetConditioner \/ ClearConditioner
    /\ inbox' = << >>
    /\ Return("none")
    /\ UNCHANGED <<netcode, quiet_for, seen, renet, opened, delivered, silent,
                   channel, flaky>>

UpdateStep ==
    \/ UpdateEnded \/ UpdateDisconnects \/ UpdateBegins \/ ChannelCheck
    \/ DeliverHeld \/ DeliverDone \/ Flush \/ FlushFails
    \/ InboxPop \/ InboxDone \/ Timer \/ TimerSendFails

Next ==
    \/ \E p \in FromServer : OnMessage(p)
    \/ ChannelCloses
    \/ FallSilent
    \/ ChannelHeals
    \/ UpdateStep
    \/ SendPackets
    \/ AppDisconnects
    \/ Conditioning

(* The application keeps calling update, and the send errors of an open      *)
(* channel are not permanent.                                                *)
Fairness == WF_vars(UpdateStep) /\ WF_vars(ChannelHeals)

Spec == Init /\ [][Next]_vars /\ Fairness

-----------------------------------------------------------------------------
(* The calls tell the truth and leave nothing behind.  When update returns   *)
(* Ok, netcode is alive and renet agrees with it (or was closed by the       *)
(* application or a bad payload); when a call returns that netcode or the    *)
(* channel is gone, that is so, and no packet of the session is still queued *)
(* anywhere.  The inbox is within its capacity throughout.                   *)
ReturnsTell ==
    /\ ret = "ok" => netcode # "closed" /\ renet \in {netcode, "closed"}
    /\ ret = "closed" => netcode = "closed"
    /\ ret = "lost" => renet = "closed"
    /\ ret \in {"closed", "lost"} => held_in = {} /\ held_out = 0 /\ inbox = << >>
    /\ Len(inbox) <= Capacity
=============================================================================
