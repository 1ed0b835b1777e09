------------------------------ MODULE Clients -------------------------------
(***************************************************************************)
(* The two client transports of the crate, one of which a build has:       *)
(* module WebClient on wasm32, module NativeClient everywhere else.  They  *)
(* share the variables of ClientLink, pc, flaky and ret; the variables of  *)
(* the other platform keep their first values.                             *)
(***************************************************************************)
EXTENDS WebClient

CONSTANT MaxSocket

VARIABLES platform, attempts, socket

Native == INSTANCE NativeClient

all == <<vars, platform, attempts, socket>>

(* cfg(target_arch) *)
OnNative(A) == platform = "native" /\ A /\ UNCHANGED <<platform, channel, inbox>>
OnWeb(A) == platform = "web" /\ A /\ UNCHANGED <<platform, attempts, socket>>

ClientsInit ==
    /\ platform \in {"native", "web"}
    /\ Native!Init /\ Init

ClientsNext == OnNative(Native!Next) \/ OnWeb(Next)

(* The application keeps calling update. *)
Updates == OnNative(Native!UpdateStep) \/ OnWeb(UpdateStep)

(* Errors of the socket and send errors of an open channel are not permanent. *)
Heals == OnNative(Native!SocketHeals) \/ OnWeb(ChannelHeals)

ClientsSpec ==
    /\ ClientsInit /\ [][ClientsNext]_all
    /\ WF_all(Updates) /\ WF_all(Heals)

-----------------------------------------------------------------------------
(* Both transports keep the promises of ClientSession: a session connects    *)
(* and ends once and hands every payload over at most once and only in       *)
(* between, through the conditioner's queues, repeated datagrams and the     *)
(* inbox; and the application learns the end of a session whose server fell  *)
(* silent, even while stray datagrams keep the socket busy, and when the     *)
(* channel closed first, so that update never reaches the timer.             *)
ImplementsSession == Session!Spec
=============================================================================
