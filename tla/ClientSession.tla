---------------------------- MODULE ClientSession ----------------------------
(***************************************************************************)
(* What a client transport promises its application, whatever carries the  *)
(* packets: src/src/native_client.rs and src/src/web_client.rs both        *)
(* implement this specification.                                           *)
(*                                                                         *)
(* A session connects at most once and ends at most once; every payload of *)
(* the server reaches the application at most once, and only while the     *)
(* session is connected; and a session whose server has fallen silent ends.*)
(***************************************************************************)
EXTENDS Naturals

CONSTANT Payload

VARIABLES
    status,         \* connecting, connected or closed
    delivered,      \* how often each payload was handed to the application
    silent          \* the server sends nothing any more

session == <<status, delivered, silent>>

Init ==
    /\ status = "connecting"
    /\ delivered = [p \in Payload |-> 0]
    /\ silent = FALSE

Connect ==
    /\ status = "connecting"
    /\ status' = "connected"
    /\ UNCHANGED <<delivered, silent>>

Deliver(p) ==
    /\ status = "connected"
    /\ delivered[p] = 0
    /\ delivered' = [delivered EXCEPT ![p] = 1]
    /\ UNCHANGED <<status, silent>>

Close ==
    /\ status # "closed"
    /\ status' = "closed"
    /\ UNCHANGED <<delivered, silent>>

FallSilent ==
    /\ silent' = TRUE
    /\ UNCHANGED <<status, delivered>>

Next ==
    \/ Connect
    \/ \E p \in Payload : Deliver(p)
    \/ Close
    \/ FallSilent

Safety == Init /\ [][Next]_session

Spec == Safety /\ WF_session(silent /\ Close)
=============================================================================
