------------------------------- MODULE Egress -------------------------------
(***************************************************************************)
(* The egress budget of a transport (src/src/egress.rs): one token bucket  *)
(* per destination, at most MaxPeers of them, one overflow bucket for all  *)
(* further destinations, and the counters.  Credit is kept in fractions of *)
(* a byte (nanobytes in the code, 1 / Scale here), and one tick of the     *)
(* clock is the time in which a rate of r bytes per second earns r         *)
(* fractions.                                                              *)
(***************************************************************************)
EXTENDS Integers, FiniteSets, FiniteSetsExt

CONSTANTS
    Keys,      \* destinations
    MaxPeers,  \* MAX_PEERS
    Configs,   \* budgets: [rate, burst, reserve], in bytes
    NoConfig,  \* pacing is off
    Scale,     \* fractions of a byte (1_000_000_000)
    Sizes,     \* charged sizes of packets
    MaxTime,   \* bound: last tick
    MaxSends   \* bound: number of packets

ASSUME ScaleAssumption == Scale \in Nat \ {0}
ASSUME ConfigAssumption ==
    /\ NoConfig \notin Configs
    /\ Configs \subseteq [rate : Nat \ {0}, burst : Nat, reserve : Nat]
    /\ \A c \in Configs : c.reserve < c.burst
ASSUME SizeAssumption == Sizes \subseteq Nat \ {0}
ASSUME BoundAssumption == {MaxPeers, MaxTime, MaxSends} \subseteq Nat

VARIABLES
    now,       \* Egress::now
    config,    \* the current budget
    buckets,   \* destination -> bucket, for the tracked destinations
    overflow,  \* the bucket all others share
    total      \* EgressStats of the transport

vars == <<now, config, buckets, overflow, total>>

NoStats == [pacing |-> 0, cap |-> 0, sent |-> 0, backend |-> 0, shared |-> 0]

(* credit and at are the code's.  The ghosts window, bound and drawn       *)
(* describe the interval that began at the last Mark: the fractions spent  *)
(* in it, the most the documentation allows, and what control traffic and  *)
(* reconfiguration took from the reserve.                                  *)
NewBucket(credit, taken) ==
    [credit |-> credit, at |-> now, stats |-> NoStats,
     window |-> 0, bound |-> credit, drawn |-> taken]

Init ==
    /\ now = 0 /\ config = NoConfig
    /\ buckets = [k \in {} |-> NewBucket(0, 0)]
    /\ overflow = NewBucket(0, 0)
    /\ total = NoStats

-----------------------------------------------------------------------------
Paced == config # NoConfig

Cap(c) == IF c = NoConfig THEN 0 ELSE c.burst * Scale

Least(a, b) == IF a <= b THEN a ELSE b
Excess(a, b) == IF a <= b THEN 0 ELSE a - b     \* saturating_sub

(* Mutant: credit grows without limit while the destination is idle. *)
RefillUncapped(b) == b.credit + Excess(now, b.at) * config.rate

(* The credit of b once the time since its last refill is paid out.        *)
Refill(b) == Least(b.credit + Excess(now, b.at) * config.rate, Cap(config))

(* The destination has a bucket of its own, or gets one.                   *)
Tracked(k) == k \in DOMAIN buckets \/ Cardinality(DOMAIN buckets) < MaxPeers

(* Egress::bucket *)
Bucket(k) ==
    IF k \in DOMAIN buckets THEN buckets[k]
    ELSE IF Tracked(k) THEN NewBucket(Cap(config), 0)
    ELSE overflow

Store(k, b) ==
    IF Tracked(k)
    THEN /\ buckets' = [x \in DOMAIN buckets \cup {k} |-> IF x = k THEN b ELSE buckets[x]]
         /\ UNCHANGED overflow
    ELSE overflow' = b /\ UNCHANGED buckets

-----------------------------------------------------------------------------
(* Mutant: data may spend the reserve. *)
ReserveOfNone(control) == 0

ReserveOf(control) == IF control THEN 0 ELSE config.reserve

(* Bucket::admit *)
TooLarge(bytes, control) == bytes > config.burst - ReserveOf(control)
TooSoon(b, bytes, control) == Refill(b) < (bytes + ReserveOf(control)) * Scale

Verdict(b, bytes, control) ==
    IF ~Paced THEN "send"
    ELSE IF TooLarge(bytes, control) THEN "cap"
    ELSE IF TooSoon(b, bytes, control) THEN "pacing"
    ELSE "send"

Charged(b, bytes, control, verdict) ==
    LET cost == IF verdict = "send" THEN bytes * Scale ELSE 0
    IN  IF ~Paced THEN b
        ELSE [b EXCEPT !.credit = Refill(b) - cost,
                       !.at     = IF now > @ THEN now ELSE @,
                       !.window = @ + cost,
                       !.drawn  = IF control THEN @ + cost ELSE @]

(* The transport's own counters: drops by admit_at, the rest by complete.  *)
TotalStats(stats, what) == [stats EXCEPT ![what] = @ + 1]

(* send_datagram, send_to_peer_backend: admit, one attempt, complete.      *)
(* Credit taken for an attempt that fails is not refunded.                 *)
Send(k, bytes, control, accepted) ==
    LET b       == Bucket(k)
        verdict == Verdict(b, bytes, control)
        what    == IF verdict # "send" THEN verdict
                   ELSE IF accepted THEN "sent" ELSE "backend"
    IN  /\ total.pacing + total.cap + total.sent + total.backend < MaxSends
        /\ Store(k, [Charged(b, bytes, control, verdict) EXCEPT !.stats[what] = @ + 1])
        /\ total' = [TotalStats(total, what) EXCEPT
                       !.shared = IF Tracked(k) THEN @ ELSE @ + 1]
        /\ UNCHANGED <<now, config>>

(* Mutant: a new budget comes with a full bucket. *)
ReconfiguredRefills(b, c) ==
    [b EXCEPT !.credit = Cap(c), !.at = now,
              !.window = IF c = NoConfig \/ ~Paced THEN 0 ELSE @,
              !.bound  = IF c = NoConfig \/ ~Paced THEN 0 ELSE @,
              !.drawn  = IF c = NoConfig THEN 0 ELSE Excess(c.reserve * Scale, Cap(c))]

Reconfigured(b, c) ==
    LET credit == Least(b.credit, Cap(c))
    IN  [b EXCEPT !.credit = credit, !.at = now,
                  !.window = IF c = NoConfig \/ ~Paced THEN 0 ELSE @,
                  !.bound  = IF c = NoConfig \/ ~Paced THEN 0 ELSE @,
                  !.drawn  = IF c = NoConfig THEN 0 ELSE Excess(c.reserve * Scale, credit)]

Configure(c) ==
    /\ buckets' = [k \in DOMAIN buckets |-> Reconfigured(buckets[k], c)]
    /\ overflow' = Reconfigured(overflow, c)
    /\ config' = c
    /\ UNCHANGED <<now, total>>

(* Ghost step: a new interval begins, for one destination. *)
Marked(b) == [b EXCEPT !.window = 0, !.bound = Cap(config)]

Mark(k) ==
    /\ Paced /\ k \in DOMAIN buckets
    /\ buckets' = [buckets EXCEPT ![k] = Marked(@)]
    /\ UNCHANGED <<now, config, overflow, total>>

(* Time passes; the documented bound grows by one tick of the rate.        *)
Aged(b) == IF Paced THEN [b EXCEPT !.bound = @ + config.rate] ELSE b

Tick ==
    /\ now < MaxTime
    /\ now' = now + 1
    /\ buckets' = [k \in DOMAIN buckets |-> Aged(buckets[k])]
    /\ overflow' = Aged(overflow)
    /\ UNCHANGED <<config, total>>

Next ==
    \/ Tick
    \/ \E c \in Configs \cup {NoConfig} : Configure(c)
    \/ \E k \in Keys : Mark(k)
    \/ \E k \in Keys, bytes \in Sizes, control, accepted \in BOOLEAN :
         Send(k, bytes, control, accepted)

Spec == Init /\ [][Next]_vars

-----------------------------------------------------------------------------
(* Mutant: every destination without a bucket is promised a new one. *)
AllowanceForgetsOverflow(k) ==
    LET b == IF k \in DOMAIN buckets THEN buckets[k] ELSE NewBucket(Cap(config), 0)
    IN  Excess(Refill(b) \div Scale, config.reserve)

(* peer_allowance: what a caller is told it may send as data.              *)
Allowance(k) == Excess(Refill(Bucket(k)) \div Scale, config.reserve)

-----------------------------------------------------------------------------
Stats == [{"pacing", "cap", "sent", "backend", "shared"} -> Nat]
Buckets ==
    [credit : Nat, at : 0 .. MaxTime, stats : Stats, window : Nat, bound : Nat, drawn : Nat]

(* Credit and counters are never negative, and no more than MaxPeers       *)
(* destinations are tracked.                                               *)
TypeOK ==
    /\ now \in 0 .. MaxTime
    /\ config \in Configs \cup {NoConfig}
    /\ DOMAIN buckets \subseteq Keys /\ Cardinality(DOMAIN buckets) <= MaxPeers
    /\ buckets \in [DOMAIN buckets -> Buckets]
    /\ overflow \in Buckets /\ total \in Stats

All(P(_)) == P(overflow) /\ \A k \in DOMAIN buckets : P(buckets[k])

(* docs/packet-budgets.md: in any interval a destination is charged at     *)
(* most one burst plus the rate times the elapsed time, also across        *)
(* reconfigurations, and nothing beyond the rate right after pacing is     *)
(* switched on for a destination already in use.                           *)
WithinEnvelope(b) == Paced => b.window + Refill(b) <= b.bound
Envelope == All(WithinEnvelope)

(* Data never eats into the control reserve: what is missing of it was     *)
(* spent by control packets or was missing when the budget was installed.  *)
ReserveIntact(b) == Paced => Refill(b) + b.drawn >= config.reserve * Scale
ReserveForControl == All(ReserveIntact)

(* The allowance a caller reads is exactly what data of that size needs to *)
(* be admitted, for tracked, new and overflow destinations.                *)
AllowanceIsExact ==
    Paced => \A k \in Keys, bytes \in Sizes :
        bytes <= Allowance(k) <=> Verdict(Bucket(k), bytes, FALSE) = "send"

(* Reconfiguration keeps counters and never restores spent credit.         *)
NeverRestores ==
    [][config' # config =>
         /\ total' = total
         /\ overflow'.credit <= overflow.credit
         /\ \A k \in DOMAIN buckets :
              /\ k \in DOMAIN buckets' /\ buckets'[k].stats = buckets[k].stats
              /\ buckets'[k].credit <= buckets[k].credit]_vars
=============================================================================
