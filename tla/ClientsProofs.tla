---------------------------- MODULE ClientsProofs ----------------------------
(***************************************************************************)
(* Both client transports implement ClientSession (its safety part), what  *)
(* their calls return is true, and their buffers are bounded: for every    *)
(* set of payloads, every budget, capacity, timeout and buffer.            *)
(*                                                                         *)
(* What a step of either transport does to its session comes first; the    *)
(* transports differ in the order of their steps, and in where packets     *)
(* wait.  Then each transport, action by action, and the two side by side; *)
(* last the attempts that lead to a transport, and the panel that          *)
(* conditions its packets.                                                 *)
(***************************************************************************)
EXTENDS Clients, ClientConnect, ConditionerDebug, TLAPS

(* netcode is connected only after it has opened, and renet has taken only   *)
(* payloads netcode has seen: replay protection is what makes delivery       *)
(* happen at most once.                                                      *)
LinkInv ==
    /\ netcode \in States /\ renet \in States /\ opened \in BOOLEAN
    /\ seen \subseteq Payload
    /\ delivered \in [Payload -> {0, 1}]
    /\ netcode = "connected" => opened
    /\ \A p \in Payload : delivered[p] = 1 => p \in seen

SessionStep == [Session!Next]_(Session!session)

-----------------------------------------------------------------------------

(* A transport starts as a session does. *)
LEMMA LinkStarts == LinkInit => LinkInv /\ Session!Init
  <1> SUFFICES ASSUME LinkInit PROVE LinkInv /\ Session!Init
    OBVIOUS
  <1>1. LinkInv
    <2>1. opened \in BOOLEAN
      BY Zenon DEF LinkInit
    <2>2. delivered \in [Payload -> {0, 1}] /\ \A p \in Payload : delivered[p] # 1
      BY DEF LinkInit
    <2>3. netcode = "connecting" /\ renet = "connecting" /\ seen = {}
      BY DEF LinkInit
    <2> QED
      BY <2>1, <2>2, <2>3 DEF LinkInv, States
  <1>2. Session!Init
    BY DEF LinkInit, Session!Init, Status
  <1> QED
    BY <1>1, <1>2

(* A step that takes no packet may close renet, never reopen it, and may     *)
(* close netcode: for the session it is its end, or nothing.                 *)
LEMMA OtherStep ==
    ASSUME LinkInv,
           renet' \in States, renet = "closed" => renet' = "closed",
           netcode' \in States, netcode' = "connected" => netcode = "connected",
           UNCHANGED <<seen, opened, delivered, silent>>
    PROVE  LinkInv' /\ SessionStep
  <1>1. LinkInv'
    BY DEF LinkInv
  <1>2. CASE renet' = "closed" /\ renet # "closed"
    <2>1. Status # "closed" /\ Status' = "closed"
      BY <1>2 DEF Status
    <2>2. Session!Close
      BY <2>1 DEF Session!Close
    <2> QED
      BY <1>1, <2>2 DEF SessionStep, Session!Next
  <1>3. CASE ~(renet' = "closed" /\ renet # "closed")
    <2>1. Status' = Status
      BY <1>3 DEF Status
    <2>2. UNCHANGED Session!session
      BY <2>1 DEF Session!session
    <2> QED
      BY <1>1, <2>2 DEF SessionStep
  <1> QED
    BY <1>2, <1>3

(* netcode takes a packet of the server: the session connects, delivers a    *)
(* payload for the first time, ends on one renet cannot parse, or stutters.  *)
LEMMA PacketStep ==
    ASSUME LinkInv, NEW p, process_packet(p), UNCHANGED silent
    PROVE  LinkInv' /\ SessionStep
  <1>1. CASE p = "alive" /\ netcode # "closed" /\ netcode' = "connected"
             /\ opened' = TRUE /\ UNCHANGED <<seen, renet, delivered>>
    <2>1. LinkInv'
      BY <1>1 DEF LinkInv, States
    <2>2. \/ Status = "connecting" /\ Status' = "connected"
          \/ Status' = Status
      BY <1>1 DEF Status, LinkInv
    <2>3. Session!Connect \/ UNCHANGED Session!session
      BY <1>1, <2>2 DEF Session!Connect, Session!session
    <2> QED
      BY <2>1, <2>3 DEF SessionStep, Session!Next
  <1>2. CASE p = "bye" /\ netcode' = "closed"
             /\ UNCHANGED <<seen, renet, opened, delivered>>
    <2>1. renet' \in States /\ netcode' \in States /\ netcode' # "connected"
      BY <1>2 DEF LinkInv, States
    <2> QED
      BY <1>2, <2>1, OtherStep
  <1>3. CASE p \in Payload \ seen /\ netcode = "connected"
             /\ seen' = seen \cup {p} /\ RenetTakes(p)
             /\ UNCHANGED <<netcode, opened>>
    <2>1. CASE renet # "closed" /\ p \notin Poison
      <3>1. renet' = renet /\ delivered' = [delivered EXCEPT ![p] = @ + 1]
        BY <1>3, <2>1 DEF RenetTakes
      <3>2. delivered[p] = 0
        BY <1>3 DEF LinkInv
      <3>3. delivered' = [delivered EXCEPT ![p] = 1]
        BY <1>3, <3>1, <3>2 DEF LinkInv
      <3>4. LinkInv'
        BY <1>3, <3>1, <3>3 DEF LinkInv
      <3>5. Status = "connected" /\ Status' = Status
        BY <1>3, <2>1, <3>1 DEF Status, LinkInv
      <3>6. Session!Deliver(p)
        BY <3>2, <3>3, <3>5 DEF Session!Deliver
      <3> QED
        BY <1>3, <3>4, <3>6 DEF SessionStep, Session!Next
    <2>2. CASE renet = "closed" \/ p \in Poison
      <3>1. renet' \in States /\ (renet = "closed" => renet' = "closed")
            /\ UNCHANGED delivered
        BY <1>3, <2>2 DEF RenetTakes, LinkInv, States
      <3>2. LinkInv'
        BY <1>3, <3>1 DEF LinkInv
      <3>3. \/ Status # "closed" /\ Status' = "closed"
            \/ Status' = Status
        BY <1>3, <3>1 DEF Status
      <3>4. Session!Close \/ UNCHANGED Session!session
        BY <3>1, <3>3 DEF Session!Close, Session!session
      <3> QED
        BY <3>2, <3>4 DEF SessionStep, Session!Next
    <2> QED
      BY <2>1, <2>2
  <1>4. CASE UNCHANGED <<netcode, quiet_for, seen, renet, opened, delivered>>
    <2>1. renet' \in States /\ netcode' \in States
      BY <1>4 DEF LinkInv
    <2> QED
      BY <1>4, <2>1, OtherStep
  <1> QED
    BY <1>1, <1>2, <1>3, <1>4 DEF process_packet

(* The server falls silent: so does the session's. *)
LEMMA SilenceStep ==
    ASSUME LinkInv, silent' = TRUE,
           UNCHANGED <<netcode, seen, renet, opened, delivered>>
    PROVE  LinkInv' /\ SessionStep
  <1>1. LinkInv'
    BY DEF LinkInv
  <1>2. Status' = Status
    BY DEF Status
  <1>3. Session!FallSilent
    BY <1>2 DEF Session!FallSilent
  <1> QED
    BY <1>1, <1>3 DEF SessionStep, Session!Next

(* Nothing of the link changes. *)
LEMMA StutterStep ==
    ASSUME LinkInv, UNCHANGED link
    PROVE  LinkInv' /\ SessionStep
  <1>1. renet' \in States /\ netcode' \in States
    BY DEF LinkInv, link
  <1> QED
    BY <1>1, OtherStep DEF link

(* netcode's timer ends the session or leaves it alone; renet follows        *)
(* netcode's state but is not reopened.                                      *)
LEMMA TimerFacts ==
    ASSUME LinkInv, netcode_update
    PROVE  /\ netcode' \in States
           /\ netcode' = "connected" => netcode = "connected"
           /\ Reflects(netcode', renet) \in States
           /\ renet = "closed" => Reflects(netcode', renet) = "closed"
  BY DEF LinkInv, netcode_update, Reflects, States

(* The part of the type that packets and netcode's timer touch. *)
NetTypeOK ==
    /\ netcode \in States /\ renet \in States
    /\ quiet_for \in 0..TIMEOUT
    /\ seen \subseteq Payload
    /\ opened \in BOOLEAN
    /\ delivered \in [Payload -> 0..1]

(* A packet leaves netcode and renet within their types. *)
LEMMA PacketTypes ==
    ASSUME NetTypeOK, LinkInv, NEW p, process_packet(p), UNCHANGED silent
    PROVE  NetTypeOK'
  <1>1. LinkInv'
    BY PacketStep
  <1>2. delivered' \in [Payload -> 0..1]
    BY <1>1 DEF LinkInv
  <1>3. quiet_for' \in 0..TIMEOUT
    BY LinkAssumption DEF process_packet, NetTypeOK
  <1> QED
    BY <1>1, <1>2, <1>3 DEF NetTypeOK, LinkInv

(* So does its timer. *)
LEMMA TimerTypes ==
    ASSUME quiet_for \in 0..TIMEOUT, netcode_update
    PROVE  quiet_for' \in 0..TIMEOUT
  BY LinkAssumption DEF netcode_update

(* What the gate holds stays within its bound. *)
LEMMA GateTypes ==
    ASSUME held_out \in 0..MaxHeld
    PROVE  /\ OutgoingAfterSend \subseteq 0..MaxHeld
           /\ OutgoingAfterDrain \subseteq 0..MaxHeld
           /\ 0..held_out - 1 \subseteq 0..MaxHeld
           /\ 0 \in 0..MaxHeld
  BY LinkAssumption DEF OutgoingAfterSend, OutgoingAfterDrain

-----------------------------------------------------------------------------
(* An update under way has returned nothing yet. *)
WebReturnInv ==
    /\ inbox \in Seq(FromServer)
    /\ pc # "idle" => ret = "none"
    /\ ReturnsTell

-----------------------------------------------------------------------------

(* Every step of the browser transport is a step of the session, or none. *)
LEMMA WebSessionStepwise == LinkInv /\ [Next]_vars => LinkInv' /\ SessionStep
  <1> SUFFICES ASSUME LinkInv, [Next]_vars PROVE LinkInv' /\ SessionStep
    OBVIOUS
  <1>1. CASE UNCHANGED link
    BY <1>1, StutterStep
  <1>2. CASE FallSilent
    BY <1>2, SilenceStep DEF FallSilent
  <1>3. CASE UpdateEnded \/ UpdateDisconnects \/ AppDisconnects
    <2>1. /\ renet' = "closed"
          /\ netcode' \in {netcode, "closed"}
          /\ UNCHANGED <<seen, opened, delivered, silent>>
      BY <1>3 DEF UpdateEnded, UpdateDisconnects, AppDisconnects
    <2> QED
      BY <2>1, OtherStep DEF LinkInv, States
  <1>4. CASE ChannelCheck
    <2>1. /\ renet' \in {renet, "closed"}
          /\ UNCHANGED <<netcode, seen, opened, delivered, silent>>
      BY <1>4 DEF ChannelCheck
    <2> QED
      BY <2>1, OtherStep DEF LinkInv, States
  <1>5. CASE DeliverHeld \/ InboxPop
    <2>1. (\E p : process_packet(p)) /\ UNCHANGED silent
      BY <1>5 DEF DeliverHeld, InboxPop
    <2> QED
      BY <2>1, PacketStep
  <1>6. CASE Timer
    <2>1. /\ netcode_update
          /\ renet' \in {"closed", Reflects(netcode', renet)}
          /\ UNCHANGED <<seen, opened, delivered, silent>>
      BY <1>6 DEF Timer
    <2> QED
      BY <2>1, TimerFacts, OtherStep DEF States
  <1>7. CASE TimerSendFails
    <2>1. netcode_update /\ UNCHANGED <<seen, renet, opened, delivered, silent>>
      BY <1>7 DEF TimerSendFails
    <2> QED
      BY <2>1, TimerFacts, OtherStep DEF LinkInv
  <1>8. CASE Flush \/ FlushFails \/ SendPackets \/ Conditioning
    <2>1. UNCHANGED <<netcode, seen, renet, opened, delivered, silent>>
      BY <1>8 DEF Flush, FlushFails, SendPackets, Conditioning
    <2> QED
      BY <2>1, OtherStep DEF LinkInv
  <1>9. ASSUME NEW p \in FromServer, OnMessage(p) PROVE LinkInv' /\ SessionStep
    <2>1. UNCHANGED <<netcode, seen, renet, opened, delivered, silent>>
      BY <1>9 DEF OnMessage
    <2> QED
      BY <2>1, OtherStep DEF LinkInv
  <1>10. CASE ChannelCloses \/ ChannelHeals \/ UpdateBegins \/ DeliverDone
              \/ InboxDone
    BY <1>1, <1>10
    DEF ChannelCloses, ChannelHeals, UpdateBegins, DeliverDone, InboxDone
  <1>11. CASE UNCHANGED vars
    BY <1>1, <1>11 DEF vars
  <1> QED
    BY <1>2, <1>3, <1>4, <1>5, <1>6, <1>7, <1>8, <1>9, <1>10, <1>11
    DEF Next, UpdateStep

-----------------------------------------------------------------------------

(* A push keeps the inbox within its capacity. *)
LEMMA PushBounded ==
    ASSUME inbox \in Seq(FromServer), Len(inbox) <= Capacity,
           NEW p \in FromServer, Push(p)
    PROVE  inbox' \in Seq(FromServer) /\ Len(inbox') <= Capacity
  <1>1. CASE Len(inbox) = Capacity
    <2>1. inbox # << >>
      BY <1>1, CapacityAssumption
    <2>2. Tail(inbox) \in Seq(FromServer) /\ Len(Tail(inbox)) = Len(inbox) - 1
      BY <2>1
    <2>3. inbox' = Append(Tail(inbox), p)
      BY <1>1 DEF Push
    <2> QED
      BY <1>1, <2>2, <2>3, CapacityAssumption
  <1>2. CASE Len(inbox) # Capacity
    <2>1. inbox' = Append(inbox, p)
      BY <1>2 DEF Push
    <2> QED
      BY <1>2, <2>1, CapacityAssumption
  <1> QED
    BY <1>1, <1>2

(* One step keeps the inbox bounded and what the last call returned true. *)
LEMMA WebReturnStepwise == WebReturnInv /\ [Next]_vars => WebReturnInv'
  <1> SUFFICES ASSUME WebReturnInv, [Next]_vars PROVE WebReturnInv'
    OBVIOUS
  <1> USE DEF WebReturnInv, ReturnsTell
  <1>1. CASE UNCHANGED <<netcode, renet, held_in, held_out, inbox, pc, ret>>
    BY <1>1
  <1>2. ASSUME inbox' \in Seq(FromServer), Len(inbox') <= Capacity,
               ret' \in {"none", "failed"}, pc' = "idle" \/ ret' = "none"
        PROVE  WebReturnInv'
    BY <1>2
  <1>3. << >> \in Seq(FromServer) /\ Len(<< >>) <= Capacity
    BY CapacityAssumption
  <1>4. CASE UpdateEnded
    BY <1>3, <1>4 DEF UpdateEnded, clear_pending_packets, Return, reset
  <1>5. CASE UpdateDisconnects \/ Conditioning
    BY <1>2, <1>3, <1>5
    DEF UpdateDisconnects, Conditioning, clear_pending_packets, Return
  <1>6. CASE ChannelCheck
    <2>1. CASE channel = "closed"
      BY <1>3, <1>6, <2>1 DEF ChannelCheck, clear_pending_packets, Return, reset
    <2>2. CASE channel # "closed"
      BY <1>2, <1>6, <2>2 DEF ChannelCheck
    <2> QED
      BY <2>1, <2>2
  <1>7. CASE InboxPop
    <2>1. Tail(inbox) \in Seq(FromServer) /\ Len(Tail(inbox)) <= Capacity
      BY <1>7, CapacityAssumption DEF InboxPop
    <2> QED
      BY <1>2, <1>7, <2>1 DEF InboxPop
  <1>8. CASE Timer
    <2>1. CASE netcode' = "closed"
      BY <1>3, <1>8, <2>1 DEF Timer, clear_pending_packets, Return, reset
    <2>2. CASE netcode' # "closed"
      BY <1>8, <2>2 DEF Timer, Return, Reflects
    <2> QED
      BY <2>1, <2>2
  <1>9. CASE SendPackets
    BY <1>3, <1>9 DEF SendPackets, clear_pending_packets, Return, reset
  <1>10. CASE UpdateBegins \/ DeliverHeld \/ DeliverDone \/ Flush \/ InboxDone
    BY <1>2, <1>10 DEF UpdateBegins, DeliverHeld, DeliverDone, Flush, InboxDone
  <1>11. CASE FlushFails \/ TimerSendFails \/ AppDisconnects
    BY <1>2, <1>11 DEF FlushFails, TimerSendFails, AppDisconnects, Return
  <1>12. ASSUME NEW p \in FromServer, OnMessage(p) PROVE WebReturnInv'
    <2>1. inbox' \in Seq(FromServer) /\ Len(inbox') <= Capacity
      BY <1>12, PushBounded DEF OnMessage
    <2> QED
      BY <1>2, <1>12, <2>1 DEF OnMessage
  <1>13. CASE ChannelCloses \/ FallSilent \/ ChannelHeals \/ UNCHANGED vars
    BY <1>1, <1>13 DEF ChannelCloses, FallSilent, ChannelHeals, vars, link
  <1> QED
    BY <1>4, <1>5, <1>6, <1>7, <1>8, <1>9, <1>10, <1>11, <1>12, <1>13
    DEF Next, UpdateStep

-----------------------------------------------------------------------------

(* One step keeps every variable within its type. *)
LEMMA WebTypeStepwise ==
    TypeOK /\ LinkInv /\ WebReturnInv /\ [Next]_vars => TypeOK'
  <1> SUFFICES ASSUME TypeOK, LinkInv, WebReturnInv, [Next]_vars PROVE TypeOK'
    OBVIOUS
  <1> USE DEF TypeOK, LinkTypeOK, NetTypeOK
  <1>1. LinkInv'
    BY WebSessionStepwise
  <1>2. inbox' \in Seq(FromServer)
    BY WebReturnStepwise DEF WebReturnInv
  <1>3. /\ OutgoingAfterSend \subseteq 0..MaxHeld
        /\ OutgoingAfterDrain \subseteq 0..MaxHeld
        /\ 0..held_out - 1 \subseteq 0..MaxHeld
        /\ 0..held_out \subseteq 0..MaxHeld
        /\ 0 \in 0..MaxHeld
    BY GateTypes DEF OutgoingAfterDrain
  <1>4. CASE UpdateEnded
    BY <1>1, <1>2, <1>3, <1>4
    DEF UpdateEnded, clear_pending_packets, Return, reset, LinkInv
  <1>5. CASE UpdateDisconnects
    BY <1>1, <1>2, <1>3, <1>5
    DEF UpdateDisconnects, clear_pending_packets, reset, LinkInv
  <1>6. CASE UpdateBegins \/ DeliverDone \/ InboxDone \/ ChannelCloses
    BY <1>2, <1>6 DEF UpdateBegins, DeliverDone, InboxDone, ChannelCloses, link
  <1>7. CASE ChannelCheck
    <2>1. CASE channel = "closed"
      BY <1>1, <1>2, <1>3, <1>7, <2>1
      DEF ChannelCheck, clear_pending_packets, Return, reset, LinkInv
    <2>2. CASE channel # "closed"
      BY <1>2, <1>7, <2>2 DEF ChannelCheck
    <2> QED
      BY <2>1, <2>2
  <1>8. CASE DeliverHeld
    <2>1. NetTypeOK'
      BY <1>8, PacketTypes DEF DeliverHeld
    <2> QED
      BY <1>2, <1>8, <2>1 DEF DeliverHeld
  <1>9. CASE Flush
    BY <1>2, <1>3, <1>9 DEF Flush
  <1>10. CASE FlushFails
    BY <1>2, <1>3, <1>10 DEF FlushFails, Return
  <1>11. CASE InboxPop
    <2>1. NetTypeOK'
      BY <1>11, PacketTypes DEF InboxPop
    <2> QED
      BY <1>2, <1>11, <2>1 DEF InboxPop
  <1>12. CASE Timer
    <2>1. quiet_for' \in 0..TIMEOUT
      BY <1>12, TimerTypes DEF Timer
    <2>2. CASE netcode' = "closed"
      BY <1>1, <1>2, <1>3, <1>12, <2>1, <2>2
      DEF Timer, clear_pending_packets, Return, reset, LinkInv
    <2>3. CASE netcode' # "closed"
      <3>1. held_out' \in 0..MaxHeld
        BY <1>3, <1>12, <2>3 DEF Timer
      <3> QED
        BY <1>1, <1>2, <1>12, <2>1, <2>3, <3>1 DEF Timer, Return, LinkInv
    <2> QED
      BY <2>2, <2>3
  <1>13. CASE TimerSendFails
    <2>1. quiet_for' \in 0..TIMEOUT
      BY <1>13, TimerTypes DEF TimerSendFails
    <2> QED
      BY <1>1, <1>2, <1>3, <1>13, <2>1 DEF TimerSendFails, Return, LinkInv
  <1>14. CASE SendPackets
    <2>1. held_out' \in 0..MaxHeld /\ held_in' \subseteq FromServer
      BY <1>3, <1>14 DEF SendPackets, clear_pending_packets, reset
    <2>2. /\ pc' = "idle" /\ ret' \in {"closed", "none", "failed"}
          /\ UNCHANGED <<netcode, quiet_for, seen, renet, attached, opened,
                         delivered, silent, channel, flaky>>
      BY <1>14 DEF SendPackets, Return
    <2> QED
      BY <1>2, <2>1, <2>2
  <1>15. CASE AppDisconnects
    BY <1>1, <1>2, <1>15 DEF AppDisconnects, Return, LinkInv
  <1>16. CASE Conditioning
    <2>1. attached' \in BOOLEAN
      BY <1>16, Zenon DEF Conditioning, SetConditioner, ClearConditioner
    <2>2. held_in' = {} /\ held_out' = 0
      BY <1>16 DEF Conditioning, SetConditioner, ClearConditioner, reset
    <2> QED
      BY <1>2, <1>3, <1>16, <2>1, <2>2 DEF Conditioning, Return
  <1>17. ASSUME NEW p \in FromServer, OnMessage(p) PROVE TypeOK'
    <2>1. held_in' \subseteq FromServer
      BY <1>17 DEF OnMessage
    <2> QED
      BY <1>2, <1>17, <2>1 DEF OnMessage
  <1>18. CASE FallSilent \/ ChannelHeals
    BY <1>2, <1>18 DEF FallSilent, ChannelHeals, link
  <1>19. CASE UNCHANGED vars
    BY <1>19 DEF vars, link
  <1> QED
    BY <1>4, <1>5, <1>6, <1>7, <1>8, <1>9, <1>10, <1>11, <1>12, <1>13,
       <1>14, <1>15, <1>16, <1>17, <1>18, <1>19
    DEF Next, UpdateStep

(* The browser transport starts with nothing returned or queued. *)
LEMMA WebStarts ==
    ASSUME Init
    PROVE  WebReturnInv /\ TypeOK
  <1>1. LinkInv
    BY LinkStarts DEF Init
  <1>2. WebReturnInv
    BY CapacityAssumption DEF Init, WebReturnInv, ReturnsTell
  <1>3. silent \in BOOLEAN /\ attached \in BOOLEAN /\ flaky \in BOOLEAN
    BY Zenon DEF Init, LinkInit
  <1>4. quiet_for = 0 /\ held_in = {} /\ held_out = 0
    BY DEF Init, LinkInit
  <1>5. LinkTypeOK
    BY <1>1, <1>3, <1>4, LinkAssumption DEF LinkTypeOK, LinkInv
  <1> QED
    BY <1>2, <1>3, <1>5 DEF Init, TypeOK

-----------------------------------------------------------------------------
(* The native transport has the shared part of ClientLink, too.            *)
LEMMA NativeShares ==
    /\ \A p : Native!process_packet(p) <=> process_packet(p)
    /\ Native!netcode_update <=> netcode_update
    /\ \A s, c : Native!Reflects(s, c) = Reflects(s, c)
    /\ Native!link = link /\ Native!FromServer = FromServer /\ Native!Packet = Packet
    /\ Native!States = States
    /\ Native!LinkInit <=> LinkInit
    /\ Native!LinkTypeOK <=> LinkTypeOK
    /\ Native!OutgoingAfterSend = OutgoingAfterSend
    /\ Native!OutgoingAfterDrain = OutgoingAfterDrain
  BY DEF Native!process_packet, process_packet, Native!RenetTakes, RenetTakes,
         Native!netcode_update, netcode_update, Native!Reflects, Reflects,
         Native!link, link, Native!FromServer, FromServer, Native!Packet, Packet,
         Native!OutgoingAfterSend, OutgoingAfterSend,
         Native!OutgoingAfterDrain, OutgoingAfterDrain, Native!States, States,
         Native!LinkInit, LinkInit, Native!LinkTypeOK, LinkTypeOK

(* An update under way has returned nothing yet, and renet is not ahead of   *)
(* netcode.                                                                  *)
NativeReturnInv ==
    /\ netcode \in States /\ renet \in States
    /\ netcode = "connecting" => renet # "connected"
    /\ pc # "idle" => ret = "none"
    /\ Native!ReturnsTell

-----------------------------------------------------------------------------

(* Every step of the native transport is a step of the session, or none. *)
LEMMA NativeSessionStepwise ==
    LinkInv /\ [Native!Next]_(Native!vars) => LinkInv' /\ SessionStep
  <1> SUFFICES ASSUME LinkInv, [Native!Next]_(Native!vars)
               PROVE  LinkInv' /\ SessionStep
    OBVIOUS
  <1> USE NativeShares
  <1>1. CASE UNCHANGED link
    BY <1>1, StutterStep
  <1>2. CASE Native!FallSilent
    BY <1>2, SilenceStep DEF Native!FallSilent
  <1>3. CASE Native!UpdateEnded \/ Native!UpdateDisconnects \/ Native!AppDisconnects
    <2>1. /\ renet' = "closed"
          /\ netcode' \in {netcode, "closed"}
          /\ UNCHANGED <<seen, opened, delivered, silent>>
      BY <1>3
      DEF Native!UpdateEnded, Native!EndOfSession, Native!UpdateDisconnects,
          Native!AppDisconnects
    <2> QED
      BY <2>1, OtherStep DEF LinkInv, States
  <1>4. CASE Native!UpdateBegins
    <2>1. /\ renet' = Reflects(netcode, renet)
          /\ UNCHANGED <<netcode, seen, opened, delivered, silent>>
      BY <1>4 DEF Native!UpdateBegins
    <2> QED
      BY <2>1, OtherStep DEF LinkInv, Reflects, States
  <1>5. CASE Native!RecvDatagram
    <2>1. /\ \/ \E p \in FromServer : process_packet(p)
             \/ UNCHANGED <<netcode, quiet_for, seen, renet, opened, delivered>>
          /\ UNCHANGED silent
      BY <1>5 DEF Native!RecvDatagram
    <2>2. CASE UNCHANGED <<netcode, quiet_for, seen, renet, opened, delivered>>
      BY <2>1, <2>2, OtherStep DEF LinkInv
    <2> QED
      BY <2>1, <2>2, PacketStep
  <1>6. CASE Native!DeliverOne
    BY <1>6, PacketStep DEF Native!DeliverOne
  <1>7. CASE Native!Timer
    <2>1. /\ netcode_update
          /\ renet' \in {"closed", renet, Reflects(netcode', renet)}
          /\ UNCHANGED <<seen, opened, delivered, silent>>
      BY <1>7 DEF Native!Timer, Native!EndOfSession
    <2> QED
      BY <2>1, TimerFacts, OtherStep DEF States, LinkInv
  <1>8. CASE Native!TimerSendFails
    <2>1. netcode_update /\ UNCHANGED <<seen, renet, opened, delivered, silent>>
      BY <1>8 DEF Native!TimerSendFails
    <2> QED
      BY <2>1, TimerFacts, OtherStep DEF LinkInv
  <1>9. CASE Native!FlushOutgoing \/ Native!FlushFails \/ Native!SendPackets
             \/ Native!Conditioning
    <2>1. UNCHANGED <<netcode, seen, renet, opened, delivered, silent>>
      BY <1>9
      DEF Native!FlushOutgoing, Native!FlushFails, Native!SendPackets,
          Native!Conditioning
    <2> QED
      BY <2>1, OtherStep DEF LinkInv
  <1>10. ASSUME NEW p \in Packet, Native!Arrive(p) PROVE UNCHANGED link
    BY <1>10 DEF Native!Arrive, Native!link, link
  <1>11. CASE Native!SocketHeals \/ Native!RecvRetries \/ Native!RecvFails
              \/ Native!RecvDone \/ Native!DeliverDone
    BY <1>1, <1>11
    DEF Native!SocketHeals, Native!RecvRetries, Native!RecvFails, Native!RecvDone,
        Native!DeliverDone, Native!link, link
  <1>12. CASE UNCHANGED Native!vars
    BY <1>1, <1>12 DEF Native!vars, Native!link, link
  <1> QED
    BY <1>1, <1>2, <1>3, <1>4, <1>5, <1>6, <1>7, <1>8, <1>9, <1>10, <1>11, <1>12
    DEF Native!Next, Native!UpdateStep

-----------------------------------------------------------------------------

(* One step keeps renet behind netcode. *)
LEMMA NativeFollowsStepwise ==
    ASSUME NativeReturnInv, [Native!Next]_(Native!vars)
    PROVE  /\ netcode' \in States /\ renet' \in States
           /\ netcode' = "connecting" => renet' # "connected"
  <1> USE NativeShares DEF NativeReturnInv, States
  <1>1. ASSUME NEW p \in FromServer, process_packet(p)
        PROVE  /\ netcode' \in States /\ renet' \in States
               /\ netcode' = "connecting" => renet' # "connected"
    BY <1>1 DEF process_packet, RenetTakes
  <1>2. CASE Native!UpdateEnded \/ Native!UpdateDisconnects
             \/ Native!UpdateBegins \/ Native!AppDisconnects
    BY <1>2
    DEF Native!UpdateEnded, Native!EndOfSession, Native!UpdateDisconnects,
        Native!UpdateBegins, Native!AppDisconnects, Reflects
  <1>3. CASE Native!RecvDatagram
    BY <1>1, <1>3 DEF Native!RecvDatagram
  <1>4. CASE Native!DeliverOne
    <2>1. PICK p \in held_in : process_packet(p)
      BY <1>4 DEF Native!DeliverOne
    <2> QED
      BY <2>1 DEF process_packet, RenetTakes
  <1>5. CASE Native!Timer
    BY <1>5 DEF Native!Timer, Native!EndOfSession, netcode_update, Reflects
  <1>6. CASE Native!TimerSendFails
    BY <1>6 DEF Native!TimerSendFails, netcode_update
  <1>7. CASE UNCHANGED <<netcode, renet>>
    BY <1>7
  <1>8. CASE Native!RecvRetries \/ Native!RecvFails \/ Native!RecvDone
             \/ Native!FlushOutgoing \/ Native!FlushFails
             \/ Native!DeliverDone \/ Native!SendPackets \/ Native!Conditioning
             \/ Native!FallSilent
             \/ Native!SocketHeals \/ UNCHANGED Native!vars
    BY <1>7, <1>8
    DEF Native!RecvRetries, Native!RecvFails, Native!RecvDone,
        Native!FlushOutgoing, Native!FlushFails, Native!DeliverDone,
        Native!SendPackets, Native!Conditioning, Native!FallSilent,
        Native!SocketHeals, Native!vars, Native!link, link
  <1>9. ASSUME NEW p \in Packet, Native!Arrive(p) PROVE UNCHANGED <<netcode, renet>>
    BY <1>9 DEF Native!Arrive, Native!link, link
  <1> QED
    BY <1>2, <1>3, <1>4, <1>5, <1>6, <1>7, <1>8, <1>9
    DEF Native!Next, Native!UpdateStep

(* One step keeps what the last call returned true. *)
LEMMA NativeReturnStepwise ==
    NativeReturnInv /\ [Native!Next]_(Native!vars) => NativeReturnInv'
  <1> SUFFICES ASSUME NativeReturnInv, [Native!Next]_(Native!vars)
               PROVE  NativeReturnInv'
    OBVIOUS
  <1> USE NativeShares, NativeFollowsStepwise DEF NativeReturnInv, Native!ReturnsTell
  <1>1. CASE UNCHANGED <<netcode, renet, held_in, held_out, pc, ret>>
    BY <1>1
  <1>2. CASE ret' \in {"none", "failed"} /\ (pc' = "idle" \/ ret' = "none")
    BY <1>2
  <1>3. CASE Native!UpdateEnded
    BY <1>3 DEF Native!UpdateEnded, Native!EndOfSession, Native!Return, Native!reset
  <1>4. CASE Native!Timer
    <2>1. CASE netcode' = "closed"
      BY <1>4, <2>1 DEF Native!Timer, Native!EndOfSession, Native!Return, Native!reset
    <2>2. CASE netcode' # "closed"
      BY <1>4, <2>2 DEF Native!Timer, Native!Return, Reflects, States
    <2> QED
      BY <2>1, <2>2
  <1>5. CASE Native!SendPackets
    BY <1>5 DEF Native!SendPackets, Native!Return, Native!reset
  <1>6. CASE Native!UpdateDisconnects \/ Native!UpdateBegins
    BY <1>2, <1>6 DEF Native!UpdateDisconnects, Native!UpdateBegins
  <1>7. CASE Native!RecvDatagram \/ Native!RecvRetries \/ Native!RecvDone
             \/ Native!FlushOutgoing
             \/ Native!DeliverOne \/ Native!DeliverDone
    BY <1>2, <1>7
    DEF Native!RecvDatagram, Native!RecvRetries, Native!RecvDone,
        Native!FlushOutgoing, Native!DeliverOne, Native!DeliverDone
  <1>8. CASE Native!RecvFails \/ Native!FlushFails \/ Native!TimerSendFails
             \/ Native!AppDisconnects \/ Native!Conditioning
    BY <1>2, <1>8
    DEF Native!RecvFails, Native!FlushFails, Native!TimerSendFails,
        Native!AppDisconnects, Native!Conditioning, Native!Return
  <1>9. ASSUME NEW p \in Packet, Native!Arrive(p) PROVE NativeReturnInv'
    BY <1>1, <1>9 DEF Native!Arrive, Native!link, link
  <1>10. CASE Native!FallSilent \/ Native!SocketHeals \/ UNCHANGED Native!vars
    BY <1>1, <1>10
    DEF Native!FallSilent, Native!SocketHeals, Native!vars, Native!link, link
  <1> QED
    BY <1>3, <1>4, <1>5, <1>6, <1>7, <1>8, <1>9, <1>10
    DEF Native!Next, Native!UpdateStep

-----------------------------------------------------------------------------

(* One step keeps every variable within its type. *)
LEMMA NativeTypeStepwise ==
    Native!TypeOK /\ LinkInv /\ [Native!Next]_(Native!vars) => Native!TypeOK'
  <1> SUFFICES ASSUME Native!TypeOK, LinkInv, [Native!Next]_(Native!vars)
               PROVE  Native!TypeOK'
    OBVIOUS
  <1> USE NativeShares DEF Native!TypeOK, Native!LinkTypeOK, LinkTypeOK, NetTypeOK
  <1>1. LinkInv'
    BY NativeSessionStepwise
  <1>2. /\ OutgoingAfterSend \subseteq 0..MaxHeld
        /\ OutgoingAfterDrain \subseteq 0..MaxHeld
        /\ 0..held_out - 1 \subseteq 0..MaxHeld
        /\ 0..held_out \subseteq 0..MaxHeld
        /\ 0 \in 0..MaxHeld
    BY GateTypes DEF OutgoingAfterDrain
  <1>3. CASE Native!UpdateEnded
    BY <1>1, <1>2, <1>3, LimitAssumption
    DEF Native!UpdateEnded, Native!EndOfSession, Native!Return, Native!reset, LinkInv
  <1>4. CASE Native!UpdateDisconnects
    BY <1>1, <1>2, <1>4 DEF Native!UpdateDisconnects, LinkInv
  <1>5. CASE Native!UpdateBegins
    BY <1>1, <1>5 DEF Native!UpdateBegins, LinkInv
  <1>6. CASE Native!RecvDatagram
    <2>1. NetTypeOK'
      BY <1>6, PacketTypes DEF Native!RecvDatagram
    <2>2. /\ held_in' \subseteq FromServer /\ socket' \subseteq Packet
          /\ attempts' \in 0..Limit
      BY <1>6, LimitAssumption DEF Native!RecvDatagram, Packet
    <2> QED
      BY <1>6, <2>1, <2>2 DEF Native!RecvDatagram
  <1>7. CASE Native!RecvRetries \/ Native!RecvDone \/ Native!DeliverDone
    BY <1>7, LimitAssumption
    DEF Native!RecvRetries, Native!RecvDone, Native!DeliverDone, Native!link, link
  <1>8. CASE Native!RecvFails
    BY <1>8, LimitAssumption DEF Native!RecvFails, Native!Return, Native!link, link
  <1>9. CASE Native!FlushOutgoing
    BY <1>2, <1>9 DEF Native!FlushOutgoing
  <1>10. CASE Native!FlushFails
    BY <1>2, <1>10, LimitAssumption DEF Native!FlushFails, Native!Return
  <1>11. CASE Native!DeliverOne
    <2>1. NetTypeOK'
      BY <1>11, PacketTypes DEF Native!DeliverOne
    <2> QED
      BY <1>11, <2>1 DEF Native!DeliverOne
  <1>12. CASE Native!Timer
    <2>1. quiet_for' \in 0..TIMEOUT
      BY <1>12, TimerTypes DEF Native!Timer
    <2>2. CASE netcode' = "closed"
      BY <1>1, <1>2, <1>12, <2>1, <2>2, LimitAssumption
      DEF Native!Timer, Native!EndOfSession, Native!Return, Native!reset, LinkInv
    <2>3. CASE netcode' # "closed"
      <3>1. held_out' \in 0..MaxHeld
        BY <1>2, <1>12, <2>3 DEF Native!Timer
      <3> QED
        BY <1>1, <1>12, <2>1, <2>3, <3>1, LimitAssumption
        DEF Native!Timer, Native!Return, LinkInv
    <2> QED
      BY <2>2, <2>3
  <1>13. CASE Native!TimerSendFails
    <2>1. quiet_for' \in 0..TIMEOUT
      BY <1>13, TimerTypes DEF Native!TimerSendFails
    <2> QED
      BY <1>1, <1>2, <1>13, <2>1, LimitAssumption
      DEF Native!TimerSendFails, Native!Return, LinkInv
  <1>14. CASE Native!SendPackets
    <2>1. held_out' \in 0..MaxHeld /\ held_in' \subseteq FromServer
      BY <1>2, <1>14 DEF Native!SendPackets, Native!reset
    <2>2. /\ pc' = "idle" /\ attempts' = 0 /\ ret' \in {"closed", "none", "failed"}
          /\ UNCHANGED <<netcode, quiet_for, seen, renet, attached, opened,
                         delivered, silent, socket, flaky>>
      BY <1>14 DEF Native!SendPackets, Native!Return
    <2> QED
      BY <2>1, <2>2, LimitAssumption
  <1>15. CASE Native!AppDisconnects
    BY <1>1, <1>15, LimitAssumption DEF Native!AppDisconnects, Native!Return, LinkInv
  <1>16. CASE Native!Conditioning
    <2>1. attached' \in BOOLEAN
      BY <1>16, Zenon
      DEF Native!Conditioning, Native!SetConditioner, Native!ClearConditioner
    <2>2. held_in' = {} /\ held_out' = 0
      BY <1>16
      DEF Native!Conditioning, Native!SetConditioner, Native!ClearConditioner,
          Native!reset
    <2> QED
      BY <1>2, <1>16, <2>1, <2>2, LimitAssumption
      DEF Native!Conditioning, Native!Return
  <1>17. ASSUME NEW p \in Packet, Native!Arrive(p) PROVE Native!TypeOK'
    BY <1>17 DEF Native!Arrive, Native!link, link
  <1>18. CASE Native!FallSilent \/ Native!SocketHeals
    BY <1>18 DEF Native!FallSilent, Native!SocketHeals, Native!link, link
  <1>19. CASE UNCHANGED Native!vars
    BY <1>19 DEF Native!vars, Native!link, link
  <1> QED
    BY <1>3, <1>4, <1>5, <1>6, <1>7, <1>8, <1>9, <1>10, <1>11, <1>12, <1>13,
       <1>14, <1>15, <1>16, <1>17, <1>18, <1>19
    DEF Native!Next, Native!UpdateStep

(* So does the native one. *)
LEMMA NativeStarts ==
    ASSUME Native!Init
    PROVE  NativeReturnInv /\ Native!TypeOK
  <1>1. LinkInit
    BY NativeShares DEF Native!Init
  <1>2. LinkInv
    BY <1>1, LinkStarts
  <1>3. NativeReturnInv
    BY <1>1 DEF Native!Init, LinkInit, NativeReturnInv, Native!ReturnsTell, States
  <1>4. silent \in BOOLEAN /\ attached \in BOOLEAN /\ flaky \in BOOLEAN
    BY <1>1, Zenon DEF Native!Init, LinkInit
  <1>5. quiet_for = 0 /\ held_in = {} /\ held_out = 0
    BY <1>1 DEF LinkInit
  <1>6. Native!LinkTypeOK
    BY <1>2, <1>4, <1>5, LinkAssumption, NativeShares DEF LinkTypeOK, LinkInv
  <1> QED
    BY <1>3, <1>4, <1>6, LimitAssumption DEF Native!Init, Native!TypeOK

-----------------------------------------------------------------------------
(* A build has one of the two transports; the variables of the browser's     *)
(* keep their first values in a native one.                                  *)
ClientsInv ==
    /\ LinkInv
    /\ platform \in {"native", "web"}
    /\ platform = "web" => WebReturnInv /\ TypeOK
    /\ platform = "native" => NativeReturnInv /\ Native!TypeOK /\ inbox = << >>

(* It holds at first. *)
LEMMA ClientsStart == ClientsInit => ClientsInv /\ Session!Init
  <1> SUFFICES ASSUME ClientsInit PROVE ClientsInv /\ Session!Init
    OBVIOUS
  <1>1. Init /\ Native!Init /\ platform \in {"native", "web"} /\ inbox = << >>
    BY DEF ClientsInit, Init
  <1>2. LinkInv /\ Session!Init
    BY <1>1, LinkStarts DEF Init
  <1>3. WebReturnInv /\ TypeOK
    BY <1>1, WebStarts
  <1>4. NativeReturnInv /\ Native!TypeOK
    BY <1>1, NativeStarts
  <1> QED
    BY <1>1, <1>2, <1>3, <1>4 DEF ClientsInv

(* A step of the build is one of its transport, and so one of the session    *)
(* or none.                                                                  *)
LEMMA ClientsStepwise ==
    ClientsInv /\ [ClientsNext]_all => ClientsInv' /\ SessionStep
  <1> SUFFICES ASSUME ClientsInv, [ClientsNext]_all PROVE ClientsInv' /\ SessionStep
    OBVIOUS
  <1>1. CASE platform = "web" /\ platform' = platform /\ [Next]_vars
    <2>1. LinkInv' /\ SessionStep
      BY <1>1, WebSessionStepwise DEF ClientsInv
    <2>2. WebReturnInv'
      BY <1>1, WebReturnStepwise DEF ClientsInv
    <2>3. TypeOK'
      BY <1>1, WebTypeStepwise DEF ClientsInv
    <2> QED
      BY <1>1, <2>1, <2>2, <2>3 DEF ClientsInv
  <1>2. CASE platform = "native" /\ UNCHANGED <<platform,
  inbox>> /\ [Native!Next]_(Native!vars)
    <2>1. LinkInv' /\ SessionStep
      BY <1>2, NativeSessionStepwise DEF ClientsInv
    <2>2. NativeReturnInv'
      BY <1>2, NativeReturnStepwise DEF ClientsInv
    <2>3. Native!TypeOK'
      BY <1>2, NativeTypeStepwise DEF ClientsInv
    <2> QED
      BY <1>2, <2>1, <2>2, <2>3 DEF ClientsInv
  <1>3. CASE ClientsNext
    BY <1>1, <1>2, <1>3 DEF ClientsNext, OnNative, OnWeb
  <1>4. CASE UNCHANGED all
    <2>1. UNCHANGED <<platform, inbox>> /\ UNCHANGED vars /\ UNCHANGED Native!vars
      BY <1>4 DEF all, vars, Native!vars, link, Native!link
    <2> QED
      BY <1>1, <1>2, <2>1 DEF ClientsInv
  <1> QED
    BY <1>3, <1>4

(* Either transport, in the build it belongs to, connects and ends its       *)
(* session at most once and hands over each payload at most once and only in *)
(* between: the safety part of ImplementsSession.                            *)
THEOREM ClientsImplementSession == ClientsSpec => Session!Safety
  BY ClientsStart, ClientsStepwise, PTL DEF ClientsSpec, SessionStep, Session!Safety

(* What the calls of the build's transport return is true, nothing of an     *)
(* ended session stays queued, and the inbox never exceeds its capacity.     *)
THEOREM ClientsReturnsTell == ClientsSpec => []ReturnsTell
  <1>1. ClientsInv => ReturnsTell
    <2> SUFFICES ASSUME ClientsInv PROVE ReturnsTell
      OBVIOUS
    <2>1. CASE platform = "web"
      BY <2>1 DEF ClientsInv, WebReturnInv
    <2>2. CASE platform = "native"
      <3>1. ret # "lost" /\ inbox = << >> /\ Native!ReturnsTell
        BY <2>2 DEF ClientsInv, NativeReturnInv, Native!TypeOK
      <3> QED
        BY <3>1, CapacityAssumption DEF ReturnsTell, Native!ReturnsTell
    <2> QED
      BY <2>1, <2>2 DEF ClientsInv
  <1> QED
    BY <1>1, ClientsStart, ClientsStepwise, PTL DEF ClientsSpec

(* The variables of the build's transport keep their types: the receive      *)
(* budget is never exceeded, and no payload is counted twice.                *)
THEOREM ClientsTypeCorrect ==
    ClientsSpec => []IF platform = "web" THEN TypeOK ELSE Native!TypeOK
  <1>1. ClientsInv => IF platform = "web" THEN TypeOK ELSE Native!TypeOK
    BY DEF ClientsInv
  <1> QED
    BY <1>1, ClientsStart, ClientsStepwise, PTL DEF ClientsSpec

-----------------------------------------------------------------------------
(***************************************************************************)
(* Before there is a transport there is the attempt to connect             *)
(* (ClientConnect), for all timeouts and lifetimes: a transport is built   *)
(* only with what is valid at that moment, and no RTC peer outlives its    *)
(* attempt.                                                                *)
(***************************************************************************)
(* Where a browser's attempt has its peer.                                 *)
Negotiating == {"offer", "ice", "post", "remote", "channel", "finish"}

(* The inductive invariant behind both results.  The peer is open exactly  *)
(* from the authentication to the end of the negotiation, and for as long  *)
(* as a browser's transport exists.  From the authentication on there is a *)
(* response, and the one whose peer is open is the one authenticated.      *)
ConnectInv ==
    /\ stage \in {"start", "session", "authenticate", "done", "failed", "dropped"}
              \cup Negotiating
    /\ peer \in {"none", "open", "closed"}
    /\ peer = "open" => /\ stage \in Negotiating \cup {"done"}
                        /\ reply.valid /\ reply.address
    /\ stage \in Negotiating => peer = "open"
    /\ stage = "done" /\ opts.platform = "web" => peer = "open"
    /\ transport # "none" => stage = "done"
    /\ stage \in Negotiating \cup {"authenticate", "done"} => reply \in Reply

-----------------------------------------------------------------------------
(* A check that succeeds has looked at everything AuthenticatedAtUse asks  *)
(* for (SessionCreateResponse::authentication).                            *)
LEMMA AuthenticationSound ==
  ASSUME NEW r \in Reply, NEW o, NEW left,
         authentication(r, o, left) # "error"
  PROVE  /\ r.valid
         /\ \/ /\ authentication(r, o, left) = "secure"
               /\ left > 0 /\ \E e \in r.security : o.request.service \in {"", e.service}
            \/ /\ authentication(r, o, left) = "unsecure"
               /\ r.security = {} /\ ~ o.require_secure
               /\ ~ requests_authentication(o.request)
<1>1. CASE r.security = {}
  BY <1>1 DEF authentication
<1>2. ASSUME NEW e, r.security = {e}
      PROVE  /\ authentication(r, o, left) = "secure" /\ left > 0 /\ r.valid
             /\ o.request.service \in {"", e.service}
  BY <1>2 DEF authentication
<1>3. r.security = {} \/ \E e : r.security = {e}
  BY DEF Reply
<1> QED
  BY <1>1, <1>2, <1>3

(* An attempt that fails closes its peer (PeerGuard).                      *)
LEMMA FailCloses ==
  ASSUME ConnectInv, Fail, transport = "none"
  PROVE  ConnectInv'
<1>1. stage' = "failed" /\ peer' \in {"none", "closed"} /\ transport' = "none"
  BY DEF Fail, Leave, ConnectInv
<1> QED
  BY <1>1 DEF ConnectInv, Negotiating

(* An attempt that goes on keeps its peer.                                 *)
LEMMA GotoKeeps ==
  ASSUME ConnectInv, NEW step \in Negotiating, Goto(step), stage \in Negotiating
  PROVE  ConnectInv'
<1>1. stage' = step /\ UNCHANGED <<opts, reply, peer, transport>>
  BY DEF Goto
<1> QED
  BY <1>1 DEF ConnectInv, Negotiating

(* So does one that polls, or waits while something else happens.          *)
LEMMA WaitKeeps ==
  ASSUME ConnectInv, UNCHANGED <<stage, opts, reply, peer, transport>>
  PROVE  ConnectInv'
  BY DEF ConnectInv, Negotiating

(* Every step keeps the invariant.                                         *)
LEMMA ConnectStep == ConnectInv /\ [ConnectNext]_connectVars => ConnectInv'
<1> SUFFICES ASSUME ConnectInv, [ConnectNext]_connectVars PROVE ConnectInv'
  OBVIOUS
<1>1. stage # "done" => transport = "none"
  BY DEF ConnectInv
<1>2. CASE Validate
  <2>1. Fail \/ Goto("session")
    BY <1>2 DEF Validate
  <2>2. transport = "none" /\ stage = "start" /\ peer # "open"
    BY <1>1, <1>2 DEF Validate, ConnectInv, Negotiating
  <2>3. CASE Goto("session")
    BY <2>2, <2>3 DEF Goto, ConnectInv, Negotiating
  <2> QED
    BY <2>1, <2>2, <2>3, FailCloses
<1>3. CASE create_session
  <2>1. transport = "none" /\ stage = "session" /\ peer # "open"
    BY <1>1, <1>3 DEF create_session, ConnectInv, Negotiating
  <2>2. CASE /\ reply' \in Reply /\ stage' = "authenticate"
             /\ UNCHANGED <<opts, peer, transport>>
    BY <2>1, <2>2 DEF ConnectInv, Negotiating
  <2> QED
    BY <1>3, <2>1, <2>2, FailCloses DEF create_session,
                                        decode_json_response
<1>4. CASE connect_from_session
  <2>1. /\ transport = "none" /\ stage = "authenticate"
        /\ peer # "open" /\ opts.platform = "native"
    BY <1>1, <1>4 DEF connect_from_session, ConnectInv, Negotiating
  <2>2. CASE stage' = "done" /\ UNCHANGED <<opts, reply, peer>>
    BY <2>1, <2>2 DEF ConnectInv, Negotiating
  <2> QED
    BY <1>4, <2>1, <2>2, FailCloses DEF connect_from_session
<1>5. CASE Authenticate
  <2>1. transport = "none" /\ stage = "authenticate" /\ reply \in Reply
    BY <1>1, <1>5 DEF Authenticate, ConnectInv
  <2>2. CASE /\ reply.address /\ authentication(reply, opts, lifetime) # "error"
             /\ peer' = "open" /\ stage' = "offer" /\ UNCHANGED <<opts, reply, transport>>
    <3>1. reply.valid
      BY <2>1, <2>2, AuthenticationSound
    <3> QED
      BY <2>1, <2>2, <3>1 DEF ConnectInv, Negotiating
  <2> QED
    BY <1>5, <2>1, <2>2, FailCloses DEF Authenticate
<1>6. CASE \/ CreateOffer \/ await_ice_complete \/ PostOffer
           \/ set_remote_description \/ await_data_channel_open
  <2>1. stage \in Negotiating /\ transport = "none"
    BY <1>1, <1>6 DEF CreateOffer, await_ice_complete,
                      PostOffer, set_remote_description,
                      await_data_channel_open, Negotiating
  <2>2. Fail \/ Poll \/ \E step \in Negotiating : Goto(step)
    BY <1>6 DEF CreateOffer, await_ice_complete, PostOffer,
                set_remote_description, await_data_channel_open,
                Negotiating
  <2>3. CASE Poll
    BY <2>3, WaitKeeps DEF Poll
  <2> QED
    BY <2>1, <2>2, <2>3, FailCloses, GotoKeeps
<1>7. CASE Finish
  <2>1. transport = "none" /\ stage = "finish"
    BY <1>1, <1>7 DEF Finish
  <2>2. CASE stage' = "done" /\ UNCHANGED <<opts, reply, peer>>
    BY <2>1, <2>2 DEF ConnectInv, Negotiating
  <2> QED
    BY <1>7, <2>1, <2>2, FailCloses DEF Finish
<1>8. CASE Cancel \/ DropTransport
  <2>1. /\ stage' = "dropped" /\ transport' = "none"
        /\ peer' # "open" /\ peer' \in {"none", "closed"}
    BY <1>1, <1>8 DEF Cancel, DropTransport, Leave,
                      Awaiting, ConnectInv
  <2> QED
    BY <2>1 DEF ConnectInv, Negotiating
<1>9. CASE \/ TimePasses \/ Gathers \/ ChannelMoves
           \/ Ended \/ UNCHANGED connectVars
  <2>1. UNCHANGED <<stage, opts, reply, peer, transport>>
    BY <1>9 DEF TimePasses, Gathers, ChannelMoves,
                Ended, connectVars
  <2> QED
    BY <2>1, WaitKeeps
<1> QED
  BY <1>2, <1>3, <1>4, <1>5, <1>6, <1>7, <1>8, <1>9 DEF ConnectNext, Step

(* The invariant holds throughout every attempt, begun over HTTP or with a *)
(* response the application obtained itself.                               *)
THEOREM ConnectInvariant == ConnectSpec => []ConnectInv
<1>1. ConnectInit => ConnectInv
  BY DEF ConnectInit, ConnectInv, Negotiating
<1> QED
  BY <1>1, ConnectStep, PTL DEF ConnectSpec

(* No RTC peer outlives its attempt, wherever it fails or is dropped, and  *)
(* none is created for a response that does not authenticate.              *)
THEOREM PeerHolds == ConnectSpec => []PeerNotLeaked
<1>1. ConnectInv => PeerNotLeaked
  BY DEF ConnectInv, PeerNotLeaked, Negotiating
<1> QED
  BY <1>1, ConnectInvariant, PTL

(* A transport is built only from what passes the check at that moment: a  *)
(* token that has not expired when the negotiation is over, or no envelope *)
(* where nobody asked for one.                                             *)
THEOREM AuthenticatedHolds == ConnectSpec => AuthenticatedAtUse
<1> DEFINE Fit == IF transport' = "secure"
                  THEN /\ lifetime > 0
                       /\ \E e \in reply.security : opts.request.service \in {"", e.service}
                  ELSE /\ reply.security = {}
                       /\ ~ opts.require_secure
                       /\ ~ requests_authentication(opts.request)
<1>1. ConnectInv /\ [ConnectNext]_connectVars =>
        [transport # transport' /\ transport' # "none" => Fit]_connectVars
  <2> SUFFICES ASSUME ConnectInv, ConnectNext, transport # transport', transport' # "none"
               PROVE  Fit
    OBVIOUS
  <2>1. connect_from_session \/ Finish
    BY DEF ConnectNext, Step, Validate, create_session,
           decode_json_response, Authenticate, CreateOffer,
           await_ice_complete, PostOffer,
           set_remote_description, await_data_channel_open,
           Fail, Goto, Poll, Cancel,
           TimePasses, Gathers, ChannelMoves,
           DropTransport, Ended, connectVars
  <2>2. /\ transport' = authentication(reply, opts, lifetime)
        /\ authentication(reply, opts, lifetime) # "error"
        /\ reply \in Reply
    BY <2>1 DEF connect_from_session, Finish, Fail,
                ConnectInv, Negotiating
  <2> QED
    BY <2>2, AuthenticationSound
<1> QED
  BY <1>1, ConnectInvariant, PTL DEF ConnectSpec, AuthenticatedAtUse

-----------------------------------------------------------------------------
(***************************************************************************)
(* The panel of the example client drives a packet conditioner             *)
(* (ConditionerDebug).  Its baseline is sampled only after the settling    *)
(* period, and the target on display is the one in force: for every        *)
(* settling period, outage length and set of RTTs, as long as every report *)
(* carries an RTT.                                                         *)
(***************************************************************************)
(* The records of the panel.                                               *)
Handles == [enabled : BOOLEAN, latency : Int, outage_active : BOOLEAN,
            outage_until : Int]
Calibrations == [baseline : Int, was_active : BOOLEAN, resume_after : Int,
                 last_now : Int]

(* The reports never lag behind the clock; impairment counts as recent while *)
(* it is active; an outage that is under way has been reported; and once     *)
(* impairment has ended and its end was reported, the sampling resumes no    *)
(* earlier than the settling period is over.                                 *)
Settling ==
    /\ elapsed \in Int /\ since \in Int
    /\ handle \in Handles /\ calibration \in Calibrations
    /\ 0 <= since /\ since <= SETTLE
    /\ calibration.last_now <= elapsed
    /\ is_active(handle) => since = 0
    /\ handle.outage_active /\ handle.outage_until # Pending => calibration.was_active
    /\ ~is_active(handle) /\ ~calibration.was_active /\ since < SETTLE =>
          calibration.resume_after >= elapsed + SETTLE - since

-----------------------------------------------------------------------------

(* What observe_at leaves, when it is given the present time. *)
LEMMA ObserveAt ==
    ASSUME NEW c \in Calibrations, NEW at \in Int, c.last_now <= at,
           NEW rtt \in Nat, NEW active \in BOOLEAN
    PROVE  LET d == observe_at(c, at, rtt, active) IN
           /\ d \in Calibrations
           /\ d.last_now = at
           /\ d.was_active = active
           /\ d.resume_after = IF c.was_active /\ ~active
                               THEN at + SETTLE ELSE c.resume_after
           /\ d.baseline # c.baseline => ~active /\ at >= d.resume_after
  <1> DEFINE noted == [c EXCEPT !.last_now = at,
                                !.was_active = active,
                                !.resume_after = IF c.was_active /\ ~active
                                                 THEN at + SETTLE ELSE @]
  <1>1. AtLeast(at, c.last_now) = at
    BY DEF AtLeast, Calibrations
  <1>2. observe_at(c, at, rtt, active) =
          IF at >= noted.resume_after THEN observe(noted, rtt, active) ELSE noted
    BY <1>1 DEF observe_at
  <1>3. /\ noted \in Calibrations /\ noted.last_now = at
        /\ noted.was_active = active /\ noted.baseline = c.baseline
        /\ noted.resume_after = IF c.was_active /\ ~active
                                THEN at + SETTLE ELSE c.resume_after
    <2>1. /\ noted.last_now = at /\ noted.baseline = c.baseline
          /\ noted.resume_after = IF c.was_active /\ ~active
                                  THEN at + SETTLE ELSE c.resume_after
      BY DEF Calibrations
    <2>2. noted.was_active = active
      BY Zenon DEF Calibrations
    <2>3. at + SETTLE \in Int /\ c.resume_after \in Int
      BY PanelAssumption DEF Calibrations
    <2>4. noted \in Calibrations
      BY <2>3 DEF Calibrations
    <2> QED
      BY <2>1, <2>2, <2>4
  <1> HIDE DEF noted
  <1>4. LET d == observe(noted, rtt, active) IN
        /\ d \in Calibrations /\ d.last_now = noted.last_now
        /\ d.was_active = noted.was_active
        /\ d.resume_after = noted.resume_after
        /\ d.baseline # noted.baseline => ~active
    BY <1>3 DEF observe, Calibrations
  <1> QED
    BY <1>2, <1>3, <1>4

(* An observation made while impairment is active takes no sample. *)
LEMMA ObserveActive ==
    ASSUME NEW c \in Calibrations, NEW at \in Int, c.last_now <= at,
           NEW rtt \in Nat, NEW active \in BOOLEAN, active
    PROVE  LET d == observe_at(c, at, rtt, active) IN
           /\ d \in Calibrations /\ d.last_now = at /\ d.was_active
           /\ d.baseline = c.baseline
  <1> DEFINE noted == [c EXCEPT !.last_now = at, !.was_active = active]
  <1>1. AtLeast(at, c.last_now) = at
    BY DEF AtLeast, Calibrations
  <1>2. observe_at(c, at, rtt, active) =
          [c EXCEPT !.last_now = at, !.was_active = active,
                    !.resume_after = c.resume_after]
    BY <1>1 DEF observe_at, observe
  <1>3. observe_at(c, at, rtt, active) = noted
    BY <1>2 DEF Calibrations
  <1>4. noted \in Calibrations /\ noted.last_now = at /\ noted.baseline = c.baseline
    BY DEF Calibrations
  <1>5. noted.was_active = active
    BY Zenon DEF Calibrations
  <1> HIDE DEF noted
  <1> QED
    BY <1>3, <1>4, <1>5

(* What a poll leaves of the handle. *)
LEMMA Polled ==
    ASSUME handle \in Handles, elapsed \in Int
    PROVE  /\ polled(handle) \in Handles
           /\ polled(handle).enabled = handle.enabled
           /\ polled(handle).latency = handle.latency
           /\ polled(handle).outage_active => handle.outage_active
           /\ handle.outage_active /\ ~polled(handle).outage_active =>
                 handle.outage_until # Pending
  <1> DEFINE begun == [handle EXCEPT !.outage_until = elapsed + OUTAGE]
             over == [enabled |-> handle.enabled, latency |-> handle.latency,
                      outage_active |-> FALSE, outage_until |-> None]
  <1>1. CASE handle.outage_until = Pending
    <2>1. polled(handle) = begun
      BY <1>1 DEF polled
    <2>2. begun \in Handles
      BY PanelAssumption DEF Handles
    <2>3. /\ begun.enabled = handle.enabled /\ begun.latency = handle.latency
          /\ begun.outage_active = handle.outage_active
      BY DEF Handles
    <2> QED
      BY <1>1, <2>1, <2>2, <2>3
  <1>2. CASE /\ handle.outage_until # Pending
             /\ handle.outage_active /\ elapsed >= handle.outage_until
    <2>1. polled(handle) = over
      BY <1>2 DEF polled, reset_session, configure
    <2>2. over \in Handles
      BY DEF Handles, None
    <2>3. over.enabled = handle.enabled /\ over.latency = handle.latency
      BY DEF Handles
    <2>4. over.outage_active = FALSE
      OBVIOUS
    <2> QED
      BY <1>2, <2>1, <2>2, <2>3, <2>4
  <1>3. CASE /\ handle.outage_until # Pending
             /\ ~(handle.outage_active /\ elapsed >= handle.outage_until)
    <2>1. polled(handle) = handle
      BY <1>3 DEF polled
    <2> QED
      BY <2>1
  <1> QED
    BY <1>1, <1>2, <1>3

(* What the settling invariant says of a step that takes no report. *)
LEMMA QuietStep ==
    ASSUME Settling, handle' \in Handles, calibration' = calibration,
           elapsed' = elapsed, Noted(handle'),
           handle'.outage_active /\ handle'.outage_until # Pending =>
               handle.outage_active /\ handle.outage_until # Pending,
           is_active(handle) => is_active(handle')
    PROVE  Settling'
  <1>1. CASE is_active(handle')
    <2>1. since' = 0
      BY <1>1 DEF Noted
    <2> QED
      BY <1>1, <2>1, PanelAssumption DEF Settling
  <1>2. CASE ~is_active(handle')
    <2>1. ~is_active(handle) /\ since' = since
      BY <1>2 DEF Noted
    <2> QED
      BY <1>2, <2>1 DEF Settling
  <1> QED
    BY <1>1, <1>2

(* Discarding the estimate changes nothing else. *)
LEMMA ResetCalibration ==
    ASSUME NEW c \in Calibrations
    PROVE  LET d == reset_calibration(c) IN
           /\ d \in Calibrations /\ d.baseline = None
           /\ d.last_now = c.last_now /\ d.resume_after = c.resume_after
           /\ d.was_active = c.was_active
  BY DEF reset_calibration, Calibrations, None

(* Impairment is turned off: the calibration is told first that it was on.   *)
LEMMA DisableStep ==
    ASSUME Settling, Off \/ Recalibrate
    PROVE  Settling' /\ calibration'.baseline \in {calibration.baseline, None}
  <1> DEFINE c == disable(calibration)
  <1>1. handle' \in Handles /\ ~is_active(handle') /\ ~handle'.outage_active
    <2>1. handle' = configure(FALSE, handle.latency)
      BY DEF Off, Recalibrate
    <2>2. handle' \in Handles
      BY <2>1 DEF Settling, Handles, configure, None
    <2>3. handle'.enabled = FALSE
      BY <2>1 DEF configure
    <2>4. handle'.outage_active = FALSE
      BY <2>1 DEF configure
    <2> QED
      BY <2>2, <2>3, <2>4, Zenon DEF is_active
  <1>2. elapsed' = elapsed /\ since' = IF is_active(handle) THEN 0 ELSE since
    BY <1>1 DEF Off, Recalibrate, Noted
  <1>3. /\ c \in Calibrations /\ c.last_now <= elapsed
        /\ c.baseline = calibration.baseline
        /\ is_active(handle) => c.was_active
        /\ ~is_active(handle) => c = calibration
    <2>1. CASE is_active(handle)
      <3>1. c = observe_at(calibration, elapsed, 0, TRUE)
        BY <2>1 DEF disable
      <3>2. /\ calibration \in Calibrations /\ elapsed \in Int
            /\ calibration.last_now <= elapsed /\ 0 \in Nat
        BY DEF Settling
      <3> HIDE DEF c
      <3>3. TRUE \in BOOLEAN
        OBVIOUS
      <3>4. /\ c \in Calibrations /\ c.last_now = elapsed /\ c.was_active
            /\ c.baseline = calibration.baseline
        BY <3>1, <3>2, <3>3, ObserveActive, Zenon
      <3> QED
        BY <2>1, <3>2, <3>4
    <2>2. CASE ~is_active(handle)
      BY <2>2 DEF disable, Settling
    <2> QED
      BY <2>1, <2>2
  <1>4. calibration' = c \/ calibration' = reset_calibration(c)
    BY DEF Off, Recalibrate
  <1> HIDE DEF c
  <1>5. /\ calibration' \in Calibrations /\ calibration'.last_now <= elapsed
        /\ calibration'.baseline \in {calibration.baseline, None}
        /\ is_active(handle) => calibration'.was_active
        /\ ~is_active(handle) =>
              /\ calibration'.was_active = calibration.was_active
              /\ calibration'.resume_after = calibration.resume_after
    BY <1>3, <1>4, ResetCalibration
  <1> QED
    BY <1>1, <1>2, <1>5, PanelAssumption DEF Settling

(* A report keeps the settling invariant, and samples only when it is over.  *)
LEMMA ReportStep ==
    ASSUME Settling, NEW rtt \in Rtt, report_rtt(rtt)
    PROVE  /\ Settling'
           /\ handle'.enabled = handle.enabled /\ handle'.latency = handle.latency
           /\ calibration'.baseline # calibration.baseline =>
                 ~is_active(handle') /\ since = SETTLE
  <1> DEFINE active == is_active(handle')
             d == calibration'
  <1>1. /\ handle' = polled(handle) /\ elapsed' = elapsed
        /\ since' = IF is_active(handle) \/ active THEN 0 ELSE since
        /\ d = observe_at(calibration, elapsed, rtt, active)
    BY PanelAssumption DEF report_rtt, Noted
  <1>2. /\ handle' \in Handles
        /\ handle'.enabled = handle.enabled /\ handle'.latency = handle.latency
        /\ handle'.outage_active => handle.outage_active
        /\ handle.outage_active /\ ~handle'.outage_active =>
              handle.outage_until # Pending
    BY <1>1, Polled DEF Settling
  <1>3. active \in BOOLEAN
    BY <1>2 DEF is_active, Handles
  <1>4. /\ d \in Calibrations
        /\ d.last_now = elapsed
        /\ d.was_active = active
        /\ d.resume_after = IF calibration.was_active /\ ~active
                            THEN elapsed + SETTLE ELSE calibration.resume_after
        /\ d.baseline # calibration.baseline => ~active /\ elapsed >= d.resume_after
    BY <1>1, <1>3, ObserveAt, PanelAssumption DEF Settling
  <1>5. is_active(handle) /\ ~active => calibration.was_active
    BY <1>2 DEF is_active, Settling
  <1>6. ~active => \/ d.resume_after = elapsed + SETTLE
                   \/ ~is_active(handle) /\ ~calibration.was_active
                      /\ d.resume_after = calibration.resume_after
    BY <1>4, <1>5
  <1>7. Settling'
    <2>1. CASE active
      <3>1. since' = 0 /\ elapsed' = elapsed
        BY <1>1, <2>1
      <3>2. d \in Calibrations /\ d.last_now = elapsed /\ d.was_active
        BY <1>4, <2>1
      <3> HIDE DEF d
      <3> QED
        BY <1>2, <2>1, <3>1, <3>2, PanelAssumption DEF Settling, d
    <2>2. CASE ~active
      <3>1. ~handle'.outage_active
        BY <2>2 DEF is_active
      <3>2. /\ elapsed' = elapsed /\ elapsed \in Int /\ since \in Int
            /\ since' = IF is_active(handle) THEN 0 ELSE since
            /\ 0 <= since /\ since <= SETTLE
        BY <1>1, <2>2 DEF Settling
      <3>3. /\ d \in Calibrations /\ d.last_now = elapsed /\ d.resume_after \in Int
        BY <1>4 DEF Calibrations
      <3> HIDE DEF d
      <3>4. since' < SETTLE => d.resume_after >= elapsed + SETTLE - since'
        <4>1. CASE d.resume_after = elapsed + SETTLE
          BY <3>2, <4>1, PanelAssumption
        <4>2. CASE /\ ~is_active(handle) /\ ~calibration.was_active
                   /\ d.resume_after = calibration.resume_after
          BY <3>2, <4>2 DEF Settling
        <4> QED
          BY <1>6, <2>2, <4>1, <4>2
      <3> QED
        BY <1>2, <2>2, <3>1, <3>2, <3>3, <3>4, PanelAssumption DEF Settling, d
    <2> QED
      BY <2>1, <2>2
  <1>8. ASSUME d.baseline # calibration.baseline PROVE ~active /\ since = SETTLE
    BY <1>4, <1>6, <1>8, PanelAssumption DEF Settling, Calibrations
  <1> QED
    BY <1>2, <1>7, <1>8

(* The clock runs no faster than the settling period. *)
LEMMA ClockStep == Settling /\ advance_clock => Settling'
  BY PanelAssumption DEF Settling, advance_clock, Calibrations

(* A new transport ends an outage, and the estimate with it. *)
LEMMA ReplaceStep ==
    ASSUME Settling, replace_transport
    PROVE  Settling' /\ calibration'.baseline = None
           /\ handle'.enabled = handle.enabled /\ handle'.latency = handle.latency
  <1>1. handle' \in Handles /\ ~handle'.outage_active
    <2>1. handle' = configure(handle.enabled, handle.latency)
      BY DEF replace_transport, reset_session
    <2>2. handle'.outage_active = FALSE
      BY <2>1 DEF configure
    <2> QED
      BY <2>1, <2>2 DEF Settling, Handles, configure, None
  <1>2. handle'.enabled = handle.enabled /\ handle'.latency = handle.latency
    BY DEF replace_transport, reset_session, configure
  <1>3. /\ calibration' \in Calibrations /\ calibration'.baseline = None
        /\ calibration'.last_now = calibration.last_now
        /\ calibration'.was_active = calibration.was_active
        /\ calibration'.resume_after = calibration.resume_after
    BY ResetCalibration DEF replace_transport, Settling
  <1>4. elapsed' = elapsed /\ since' = IF handle.enabled THEN 0 ELSE SETTLE
    BY DEF replace_transport
  <1> QED
    BY <1>1, <1>2, <1>3, <1>4, PanelAssumption DEF Settling, is_active

(* The buttons that turn impairment on take no sample. *)
LEMMA TurnOnStep ==
    ASSUME Settling, Adjust \/ Outage \/ \E target \in Target : SetTarget(target)
    PROVE  Settling' /\ calibration' = calibration
  <1>1. calibration' = calibration /\ elapsed' = elapsed /\ Noted(handle')
    BY DEF Adjust, Outage, SetTarget
  <1>2. CASE Outage
    <2>1. handle' = [enabled |-> handle.enabled, latency |-> handle.latency,
                     outage_active |-> TRUE, outage_until |-> Pending]
      BY <1>2 DEF Outage, outage
    <2>2. handle' \in Handles /\ handle'.outage_until = Pending
      BY <2>1 DEF Settling, Handles, Pending
    <2>3. handle'.outage_active = TRUE
      BY <2>1
    <2> QED
      BY <1>1, <2>2, <2>3, QuietStep DEF is_active
  <1>3. ASSUME NEW latency \in Int, handle' = configure(TRUE, latency) PROVE Settling'
    <2>1. handle' \in Handles
      BY <1>3 DEF Handles, configure, None
    <2>2. handle'.enabled = TRUE
      BY <1>3 DEF configure
    <2>3. handle'.outage_active = FALSE
      BY <1>3 DEF configure
    <2>4. is_active(handle') /\ ~handle'.outage_active
      BY <2>2, <2>3 DEF is_active
    <2> QED
      BY <1>1, <2>1, <2>4, QuietStep
  <1>4. CASE Adjust
    <2>1. PICK latency \in 0..MaxDelay : handle' = configure(TRUE, latency)
      BY <1>4 DEF Adjust
    <2>2. latency \in Int
      BY PanelAssumption
    <2>3. Settling'
      BY <1>3, <2>1, <2>2
    <2> QED
      BY <1>1, <2>3
  <1>5. ASSUME NEW target \in Target, SetTarget(target) PROVE Settling'
    <2>1. added_delay_for_target(calibration, target) \in Int
      BY PanelAssumption DEF added_delay_for_target, AtLeast, Settling, Calibrations
    <2> QED
      BY <1>3, <1>5, <2>1 DEF SetTarget
  <1> QED
    BY <1>1, <1>2, <1>4, <1>5

-----------------------------------------------------------------------------

Sampling ==
    calibration'.baseline \notin {None, calibration.baseline} =>
        ~is_active(handle') /\ since = SETTLE

(* Every step keeps the settling invariant and samples only when it may. *)
LEMMA Stepwise ==
    ASSUME ~NoEstimateYet, Settling, [PanelNext]_panelVars
    PROVE  Settling' /\ Sampling
  <1>1. CASE advance_clock
    BY <1>1, ClockStep DEF advance_clock, Sampling
  <1>2. ASSUME NEW rtt \in Rtt, report_rtt(rtt) PROVE Settling' /\ Sampling
    BY <1>2, ReportStep DEF Sampling
  <1>3. CASE replace_transport
    BY <1>3, ReplaceStep DEF Sampling
  <1>4. CASE Off \/ Recalibrate
    BY <1>4, DisableStep DEF Sampling
  <1>5. CASE Adjust \/ Outage \/ \E target \in Target : SetTarget(target)
    BY <1>5, TurnOnStep DEF Sampling
  <1>6. CASE UNCHANGED panelVars
    BY <1>6 DEF panelVars, Settling, Sampling, is_active
  <1> QED
    BY <1>1, <1>2, <1>3, <1>4, <1>5, <1>6 DEF PanelNext, controls

(* The panel starts with nothing to settle. *)
LEMMA Starts == PanelInit => Settling
  <1> SUFFICES ASSUME PanelInit PROVE Settling
    OBVIOUS
  <1>1. handle \in Handles /\ calibration \in Calibrations
    BY DEF PanelInit, Handles, Calibrations, None
  <1>2. handle.enabled = FALSE /\ handle.outage_active = FALSE
    BY DEF PanelInit
  <1>3. elapsed = 0 /\ since = SETTLE /\ calibration.last_now = 0
    BY DEF PanelInit
  <1> QED
    BY <1>1, <1>2, <1>3, PanelAssumption DEF Settling, is_active

(* Where every report carries an RTT, no sample is taken while impairment is *)
(* active or within the settling period after it, however it ended.          *)
THEOREM SettlesFirstHolds == ~NoEstimateYet => (PanelSpec => SettlesFirst)
  <1> SUFFICES ASSUME ~NoEstimateYet PROVE PanelSpec => SettlesFirst
    OBVIOUS
  <1>1. Settling /\ [PanelNext]_panelVars => Settling'
    BY Stepwise
  <1>2. Settling /\ [PanelNext]_panelVars => [Sampling]_panelVars
    BY Stepwise
  <1> QED
    BY <1>1, <1>2, Starts, PTL DEF PanelSpec, SettlesFirst, Sampling

-----------------------------------------------------------------------------

(* A step keeps the target on display in force. *)
LEMMA TargetStepwise ==
    ASSUME ~NoEstimateYet, Settling, TargetHolds, [PanelNext]_panelVars
    PROVE  TargetHolds'
  <1>1. CASE UNCHANGED <<target_rtt, handle, calibration>>
    BY <1>1 DEF TargetHolds, added_delay_for_target, AtLeast
  <1>2. ASSUME target_rtt' = target_rtt,
               handle'.enabled = handle.enabled, handle'.latency = handle.latency,
               \/ calibration'.baseline = None
               \/ calibration'.baseline = calibration.baseline
               \/ ~is_active(handle')
        PROVE  TargetHolds'
    <2>1. CASE target_rtt' = None
      BY <2>1 DEF TargetHolds
    <2>2. CASE target_rtt' # None
      <3>1. handle.enabled
        BY <1>2, <2>2 DEF TargetHolds
      <3>2. handle'.enabled /\ is_active(handle')
        BY <1>2, <3>1 DEF is_active
      <3> QED
        BY <1>2, <2>2, <3>2 DEF TargetHolds, added_delay_for_target, AtLeast
    <2> QED
      BY <2>1, <2>2
  <1>3. CASE advance_clock
    BY <1>1, <1>3 DEF advance_clock
  <1>4. ASSUME NEW rtt \in Rtt, report_rtt(rtt) PROVE TargetHolds'
    <2>1. target_rtt' = target_rtt
      BY <1>4 DEF report_rtt
    <2> QED
      BY <1>2, <1>4, <2>1, ReportStep
  <1>5. CASE replace_transport
    <2>1. target_rtt' = target_rtt
      BY <1>5 DEF replace_transport
    <2> QED
      BY <1>2, <1>5, <2>1, ReplaceStep
  <1>6. CASE Off \/ Recalibrate \/ Adjust
    BY <1>6 DEF Off, Recalibrate, Adjust, TargetHolds
  <1>7. CASE Outage
    <2>1. /\ target_rtt' = target_rtt /\ calibration' = calibration
          /\ handle'.enabled = handle.enabled /\ handle'.latency = handle.latency
      BY <1>7 DEF Outage, outage
    <2> QED
      BY <1>2, <2>1
  <1>8. ASSUME NEW target \in Target, SetTarget(target) PROVE TargetHolds'
    <2>1. /\ target_rtt' = target /\ calibration' = calibration
          /\ handle' = configure(TRUE, added_delay_for_target(calibration, target))
      BY <1>8 DEF SetTarget
    <2>2. handle'.latency = added_delay_for_target(calibration, target)
      BY <2>1 DEF configure
    <2>3. handle'.enabled
      BY <2>1 DEF configure
    <2> QED
      BY <2>1, <2>2, <2>3 DEF TargetHolds, added_delay_for_target, AtLeast
  <1>9. CASE UNCHANGED panelVars
    BY <1>1, <1>9 DEF panelVars
  <1> QED
    BY <1>3, <1>4, <1>5, <1>6, <1>7, <1>8, <1>9 DEF PanelNext, controls

(* The target on display is the one in force, under the same condition: the  *)
(* baseline it was computed from stays until impairment is turned off.       *)
THEOREM TargetHoldsAlways == ~NoEstimateYet => (PanelSpec => []TargetHolds)
  <1> SUFFICES ASSUME ~NoEstimateYet PROVE PanelSpec => []TargetHolds
    OBVIOUS
  <1>1. Settling /\ TargetHolds /\ [PanelNext]_panelVars => Settling' /\ TargetHolds'
    BY Stepwise, TargetStepwise
  <1>2. PanelInit => TargetHolds
    BY DEF PanelInit, TargetHolds
  <1> QED
    BY <1>1, <1>2, Starts, PTL DEF PanelSpec
=============================================================================
