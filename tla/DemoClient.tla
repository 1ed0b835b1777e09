------------------------------ MODULE DemoClient ------------------------------
(***************************************************************************)
(* The example client: src/examples/client/src/common.rs, as operators on  *)
(* the two records the Bevy systems work on.                               *)
(*                                                                         *)
(*   WorldView      you, the authoritative entities, and the ids rendered  *)
(*   ClientRuntime  input_seq, last_sent_input, input_send_elapsed,        *)
(*                  pending_inputs (their sequence numbers) and the inputs *)
(*                  handed to renet in this frame                          *)
(*                                                                         *)
(* Where a rendered entity is drawn (prediction, replay, smoothing) and    *)
(* the diagnostics graphs are left out; time is counted in units of which  *)
(* INPUT_SEND_INTERVAL make one sending interval.                          *)
(***************************************************************************)
EXTENDS InputSeq, FiniteSets, SequencesExt

CONSTANTS
    INPUT_SEND_INTERVAL,
    MAX_INPUT_SEND_CATCH_UP_STEPS,
    MAX_PENDING_INPUT_COMMANDS

ASSUME ClientAssumption ==
    /\ INPUT_SEND_INTERVAL \in Nat \ {0}
    /\ MAX_INPUT_SEND_CATCH_UP_STEPS \in Nat
    /\ MAX_PENDING_INPUT_COMMANDS \in Nat \ {0}
    /\ MAX_PENDING_INPUT_COMMANDS < SeqSpace \div 2

(* Option<u32>: no input acknowledged yet. *)
NoAck == -1
Nobody == -1

-----------------------------------------------------------------------------
(* WorldView *)

WorldView_default ==
    [you |-> Nobody, authoritative |-> [x \in {} |-> 0], rendered |-> {}]

(* A join snapshot replaces everything the client believed. *)
apply_snapshot(view, snapshot) ==
    [you |-> snapshot.you,
     authoritative |-> snapshot.world,
     rendered |-> DOMAIN snapshot.world]

(* Mutant: removals are left to the next snapshot. *)
apply_delta_keeps(view, delta) ==
    [view EXCEPT !.authoritative = delta.upserts @@ @,
                 !.rendered = @ \cup DOMAIN delta.upserts]

(* Upserts, then removals, whatever the ticks of the view and the delta. *)
apply_delta(view, delta) ==
    [view EXCEPT
        !.authoritative = Restrict(delta.upserts @@ @,
            (DOMAIN @ \cup DOMAIN delta.upserts) \ delta.removed),
        !.rendered = (@ \cup DOMAIN delta.upserts) \ delta.removed]

(* Every authoritative entity is rendered after a smoothing step and no      *)
(* other is; a frame without length is not smoothed.                         *)
step_smoothing(view, dt) ==
    IF dt = 0 THEN view ELSE [view EXCEPT !.rendered = DOMAIN view.authoritative]

-----------------------------------------------------------------------------
(* ClientRuntime *)

ClientRuntime_new ==
    [input_seq |-> 0, last_sent_input |-> 0,
     input_send_elapsed |-> INPUT_SEND_INTERVAL,
     pending_inputs |-> <<>>, outgoing |-> {}]

(* Mutant: sequence numbers compared as plain integers. *)
acknowledge_input_seq_plain(pending, ack) ==
    SelectSeq(pending, LAMBDA seq : seq > ack)

(* Commands leave from the front until one is newer than the acknowledgement. *)
acknowledge_input_seq(pending, ack) ==
    LET newer == {i \in DOMAIN pending : is_newer_input_seq(pending[i], ack)}
    IN  IF ack = NoAck THEN pending
        ELSE IF newer = {} THEN <<>>
        ELSE SubSeq(pending, Min(newer), Len(pending))

(* One numbered input to renet; the oldest pending ones make room. *)
send_input_command(rt, dir) ==
    LET seq == (rt.input_seq + 1) % SeqSpace
        pending == Append(rt.pending_inputs, seq)
        excess == Len(pending) - MAX_PENDING_INPUT_COMMANDS
    IN  [rt EXCEPT
            !.input_seq = seq,
            !.outgoing = @ \cup {[seq |-> seq, dir |-> dir]},
            !.pending_inputs =
                IF excess > 0 THEN SubSeq(pending, excess + 1, Len(pending))
                              ELSE pending,
            !.last_sent_input = dir]

(* Directions are -1, 0 and 1: started, stopped or turned round. *)
should_edge_send_input(previous, current) == previous # current

(* How many periodic inputs the elapsed time is worth, and what remains of   *)
(* it; an edge send pays for one interval.                                   *)
plan_periodic_input_sends(elapsed, edge_sent) ==
    LET left == IF edge_sent /\ elapsed >= INPUT_SEND_INTERVAL
                THEN elapsed - INPUT_SEND_INTERVAL ELSE elapsed
        sends == Min({left \div INPUT_SEND_INTERVAL,
                      MAX_INPUT_SEND_CATCH_UP_STEPS})
    IN  [periodic_sends |-> sends,
         residual_elapsed |-> Min({left - sends * INPUT_SEND_INTERVAL,
                                   INPUT_SEND_INTERVAL})]

(* The edge input and the periodic ones of a frame of length dt. *)
send_local_input(rt, dt, dir) ==
    LET edge == should_edge_send_input(rt.last_sent_input, dir)
        cadence == plan_periodic_input_sends(rt.input_send_elapsed + dt, edge)
        sends == cadence.periodic_sends + (IF edge THEN 1 ELSE 0)
        after == FoldLeft(LAMBDA r, i : send_input_command(r, dir), rt,
                          [i \in 1..sends |-> i])
    IN  [after EXCEPT !.input_send_elapsed = cadence.residual_elapsed]

(* The join snapshots of a frame first, then its deltas, each acknowledging. *)
receive_join_snapshots(state, snapshots) ==
    FoldLeft(LAMBDA st, s :
                [rt |-> [st.rt EXCEPT !.pending_inputs =
                            acknowledge_input_seq(@, s.ack)],
                 view |-> apply_snapshot(st.view, s)],
             state, snapshots)

receive_world_deltas(state, deltas) ==
    FoldLeft(LAMBDA st, d :
                [rt |-> [st.rt EXCEPT !.pending_inputs =
                            acknowledge_input_seq(@, d.ack)],
                 view |-> apply_delta(st.view, d)],
             state, deltas)

receive_authoritative_messages(state, snapshots, deltas) ==
    receive_world_deltas(receive_join_snapshots(state, snapshots), deltas)
=============================================================================
