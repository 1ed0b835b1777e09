-------------------------- MODULE ConditionerDebug --------------------------
(***************************************************************************)
(* The conditioner's debug panel, src/crates/bevy-net-debug/src/lib.rs,    *)
(* and the RttCalibration of src/src/conditioner.rs it samples into.       *)
(*                                                                         *)
(* The application updates its transport and then reports the RTT; buttons *)
(* are pressed in between.  Of the conditioner itself (module Conditioner) *)
(* the panel sees the handle: the configuration and whether an outage is   *)
(* active.  An outage starts and ends when the transport polls.            *)
(***************************************************************************)
EXTENDS Integers

CONSTANTS
    Rtt,            \* the RTTs Renet reports (positive)
    Target,         \* the RTTs the target buttons ask for
    SETTLE,         \* five seconds
    OUTAGE,         \* one second
    MaxDelay,       \* the largest delay the panel sets
    MaxClock,       \* bound on the clock
    NoEstimateYet   \* whether Renet may report zero: it has no estimate yet

ASSUME PanelAssumption ==
    /\ Rtt \subseteq Nat \ {0} /\ Target \subseteq Nat
    /\ SETTLE \in Nat /\ OUTAGE \in Nat \ {0} /\ MaxDelay \in Nat
    /\ NoEstimateYet \in BOOLEAN

VARIABLES
    elapsed,        \* the panel's clock
    handle,         \* [enabled, latency, outage_active, outage_until]
    calibration,    \* RttCalibration
    target_rtt,     \* the target shown, or None
    since           \* history: time since impairment was last active in this
                    \* session, up to SETTLE

panelVars == <<elapsed, handle, calibration, target_rtt, since>>

None == -1
Pending == -2

PanelInit ==
    /\ elapsed = 0
    /\ handle = [enabled |-> FALSE, latency |-> 0,
                 outage_active |-> FALSE, outage_until |-> None]
    /\ calibration = [baseline |-> None, was_active |-> FALSE,
                      resume_after |-> 0, last_now |-> 0]
    /\ target_rtt = None
    /\ since = SETTLE

AtLeast(n, low) == IF n < low THEN low ELSE n

is_active(h) == h.enabled \/ h.outage_active

-----------------------------------------------------------------------------
(* RttCalibration *)

(* The moving average, one eighth of it the new sample, in whole units. *)
observe(c, rtt, active) ==
    IF active \/ rtt = 0 THEN c
    ELSE [c EXCEPT !.baseline =
             IF c.baseline = None THEN rtt ELSE (7 * c.baseline + rtt) \div 8]

observe_at(c, at, rtt, active) ==
    LET now == AtLeast(at, c.last_now)
        noted == [c EXCEPT !.last_now = now,
                           !.was_active = active,
                           !.resume_after = IF c.was_active /\ ~active
                                            THEN now + SETTLE ELSE @]
    IN  IF now >= noted.resume_after THEN observe(noted, rtt, active) ELSE noted

(* reset keeps the settling period. *)
reset_calibration(c) == [c EXCEPT !.baseline = None]

added_delay_for_target(c, target) == AtLeast(target - c.baseline, 0) \div 2

-----------------------------------------------------------------------------
(* The handle *)

configure(on, latency) ==
    [enabled |-> on, latency |-> latency,
     outage_active |-> FALSE, outage_until |-> None]

outage(h) ==
    [enabled |-> h.enabled, latency |-> h.latency,
     outage_active |-> TRUE, outage_until |-> Pending]

reset_session(h) == configure(h.enabled, h.latency)

(* A poll of the transport: a pending outage begins, one that is over ends.  *)
polled(h) ==
    CASE h.outage_until = Pending -> [h EXCEPT !.outage_until = elapsed + OUTAGE]
      [] h.outage_active /\ h.outage_until # Pending /\ elapsed >= h.outage_until ->
            reset_session(h)
      [] OTHER -> h

(* The history: impairment was active before or is after this step. *)
Noted(after) ==
    since' = IF is_active(handle) \/ is_active(after) THEN 0 ELSE since

-----------------------------------------------------------------------------
(* The application *)

advance_clock ==
    /\ elapsed < MaxClock
    /\ elapsed' = elapsed + 1
    /\ since' = IF is_active(handle) \/ since = SETTLE THEN since ELSE since + 1
    /\ UNCHANGED <<handle, calibration, target_rtt>>

(* A transport update and report_rtt after it.  A zero RTT is not passed on. *)
report_rtt(rtt) ==
    \E h \in {polled(handle)} :
       /\ handle' = h
       /\ calibration' = IF rtt = 0 THEN calibration
                         ELSE observe_at(calibration, elapsed, rtt, is_active(h))
       /\ Noted(h)
       /\ UNCHANGED <<elapsed, target_rtt>>

(* The transport is replaced: its session is over and None is reported.      *)
replace_transport ==
    /\ handle' = reset_session(handle)
    /\ calibration' = reset_calibration(calibration)
    /\ since' = IF handle.enabled THEN 0 ELSE SETTLE
    /\ UNCHANGED <<elapsed, target_rtt>>

-----------------------------------------------------------------------------
(* The buttons: controls *)

(* Mutant: the impairment that ends here goes unnoticed. *)
disable_unnoticed(c) == c

(* disable: the calibration learns that impairment was active till now. *)
disable(c) ==
    IF is_active(handle) THEN observe_at(c, elapsed, 0, TRUE) ELSE c

Off ==
    /\ calibration' = disable(calibration)
    /\ handle' = configure(FALSE, handle.latency)
    /\ target_rtt' = None
    /\ Noted(handle') /\ UNCHANGED elapsed

(* recalibrate: Off, and the estimate is discarded. *)
Recalibrate ==
    /\ calibration' = reset_calibration(disable(calibration))
    /\ handle' = configure(FALSE, handle.latency)
    /\ target_rtt' = None
    /\ Noted(handle') /\ UNCHANGED elapsed

(* target_rtt: without a baseline nothing changes. *)
SetTarget(target) ==
    /\ calibration.baseline # None
    /\ handle' = configure(TRUE, added_delay_for_target(calibration, target))
    /\ target_rtt' = target
    /\ Noted(handle') /\ UNCHANGED <<elapsed, calibration>>

(* Mutant: the target stays on display. *)
AdjustKeepsTarget ==
    /\ \E latency \in {handle.latency, handle.latency + 1, handle.latency - 1} :
          /\ latency \in 0..MaxDelay
          /\ handle' = configure(TRUE, latency)
    /\ Noted(handle') /\ UNCHANGED <<elapsed, calibration, target_rtt>>

(* The delay, jitter and loss buttons enable the conditioner. *)
Adjust ==
    /\ \E latency \in {handle.latency, handle.latency + 1, handle.latency - 1} :
          /\ latency \in 0..MaxDelay
          /\ handle' = configure(TRUE, latency)
    /\ target_rtt' = None
    /\ Noted(handle') /\ UNCHANGED <<elapsed, calibration>>

Outage ==
    /\ handle' = outage(handle)
    /\ Noted(handle') /\ UNCHANGED <<elapsed, calibration, target_rtt>>

controls ==
    \/ Off \/ Recalibrate \/ Adjust \/ Outage
    \/ \E target \in Target : SetTarget(target)

PanelNext ==
    \/ advance_clock
    \/ \E rtt \in Rtt \cup (IF NoEstimateYet THEN {0} ELSE {}) : report_rtt(rtt)
    \/ replace_transport
    \/ controls

PanelSpec == PanelInit /\ [][PanelNext]_panelVars

-----------------------------------------------------------------------------
(* A sample reaches the baseline only when impairment has been inactive for  *)
(* the whole settling period, whichever way it ended: a button, or an outage *)
(* that ran out.                                                             *)
SettlesFirst ==
    [][calibration'.baseline \notin {None, calibration.baseline} =>
          /\ ~is_active(handle') /\ since = SETTLE]_panelVars

(* While the panel shows a target, the conditioner is on and adds the delay  *)
(* that takes the present baseline to that target (none when the baseline is *)
(* above it): the estimate is frozen as long as it is in use.                *)
TargetHolds ==
    target_rtt # None =>
        /\ handle.enabled
        /\ calibration.baseline # None =>
              handle.latency = added_delay_for_target(calibration, target_rtt)
=============================================================================
