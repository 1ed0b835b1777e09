---------------------------- MODULE EgressProofs ----------------------------
(***************************************************************************)
(* Proofs about Egress, for any budgets, sizes and destinations.           *)
(***************************************************************************)
EXTENDS Egress, FiniteSetTheorems, TLAPS

(* Refill and the invariant of one bucket, at an explicit time and budget. *)
RefillAt(b, t, c) == Least(b.credit + Excess(t, b.at) * c.rate, Cap(c))

GoodAt(b, t, c) ==
    /\ b \in Buckets
    /\ b.at <= t
    /\ b.credit <= Cap(c)
    /\ c # NoConfig =>
         /\ b.window + RefillAt(b, t, c) <= b.bound
         /\ RefillAt(b, t, c) + b.drawn >= c.reserve * Scale

(* The inductive invariant: the registry is bounded and every bucket good. *)
BudgetInv ==
    /\ now \in 0 .. MaxTime
    /\ config \in Configs \cup {NoConfig}
    /\ DOMAIN buckets \subseteq Keys
    /\ IsFiniteSet(DOMAIN buckets) /\ Cardinality(DOMAIN buckets) <= MaxPeers
    /\ buckets = [k \in DOMAIN buckets |-> buckets[k]]
    /\ \A k \in DOMAIN buckets : GoodAt(buckets[k], now, config)
    /\ GoodAt(overflow, now, config)
    /\ total \in Stats

(* A budget's cap is at least its reserve, in fractions. *)
LEMMA CapFacts ==
  ASSUME NEW c \in Configs
  PROVE  /\ c \in [rate : Nat \ {0}, burst : Nat, reserve : Nat]
         /\ Cap(c) = c.burst * Scale /\ Cap(c) \in Nat
         /\ c.reserve * Scale \in Nat
         /\ c.reserve * Scale <= Cap(c)
<1>1. c # NoConfig /\ c.reserve \in Nat /\ c.burst \in Nat /\ c.reserve < c.burst
  BY ConfigAssumption
<1>2. c \in [rate : Nat \ {0}, burst : Nat, reserve : Nat]
  BY ConfigAssumption
<1>3. \A r, n, s \in Nat : r < n => r * s <= n * s /\ r * s \in Nat /\ n * s \in Nat
  OBVIOUS
<1> QED
  BY <1>1, <1>2, <1>3, ScaleAssumption DEF Cap

(* A new bucket is full, and its interval begins with one burst.           *)
LEMMA NewBucketGood ==
  ASSUME now \in 0 .. MaxTime, config \in Configs \cup {NoConfig}
  PROVE  GoodAt(NewBucket(Cap(config), 0), now, config)
<1> DEFINE b == NewBucket(Cap(config), 0)
<1>1. Cap(config) \in Nat
  BY CapFacts DEF Cap
<1>2. NoStats \in Stats
  BY DEF NoStats, Stats
<1>3. b \in Buckets
  BY <1>1, <1>2 DEF NewBucket, Buckets
<1>4. b.at = now /\ b.credit = Cap(config) /\ b.window = 0 /\ b.bound = Cap(config) /\ b.drawn = 0
  BY DEF NewBucket
<1>5. ASSUME config # NoConfig
      PROVE  RefillAt(b, now, config) = Cap(config)
  <2>1. config.rate \in Nat
    BY <1>5, CapFacts
  <2>2. Excess(now, b.at) * config.rate = 0
    BY <1>4, <2>1 DEF Excess
  <2> QED
    BY <1>1, <1>4, <2>2 DEF RefillAt, Least
<1> HIDE DEF b
<1>6. config # NoConfig => config.reserve * Scale <= Cap(config) /\ config.reserve * Scale \in Nat
  BY CapFacts
<1>7. config # NoConfig => b.window + RefillAt(b, now, config) <= b.bound
                           /\ RefillAt(b, now, config) + b.drawn >= config.reserve * Scale
  BY <1>1, <1>4, <1>5, <1>6
<1>8. b.at <= now /\ b.credit <= Cap(config)
  BY <1>1, <1>4
<1> QED
  BY <1>3, <1>7, <1>8 DEF GoodAt, b

(* The refilled credit is a natural number below the cap. *)
LEMMA RefillFacts ==
  ASSUME NEW b, NEW t \in Nat, NEW c \in Configs, GoodAt(b, t, c)
  PROVE  /\ RefillAt(b, t, c) \in Nat /\ RefillAt(b, t, c) <= Cap(c)
         /\ b.credit <= RefillAt(b, t, c)
<1>1. b.credit \in Nat /\ b.at \in Nat /\ b.at <= t /\ b.credit <= Cap(c)
  BY BoundAssumption DEF GoodAt, Buckets
<1>2. c.rate \in Nat /\ Cap(c) \in Nat
  BY CapFacts
<1>3. Excess(t, b.at) \in Nat
  BY <1>1 DEF Excess
<1>4. Excess(t, b.at) * c.rate \in Nat
  BY <1>2, <1>3
<1> QED
  BY <1>1, <1>2, <1>4 DEF RefillAt, Least

(* Bucket::admit keeps the invariant of the bucket, whatever its verdict.  *)
LEMMA ChargedGood ==
  ASSUME NEW b, now \in 0 .. MaxTime, config \in Configs \cup {NoConfig},
         GoodAt(b, now, config),
         NEW bytes \in Sizes, NEW control \in BOOLEAN
  PROVE  GoodAt(Charged(b, bytes, control, Verdict(b, bytes, control)), now, config)
<1> DEFINE v == Verdict(b, bytes, control)
           cost == IF v = "send" THEN bytes * Scale ELSE 0
           t == Charged(b, bytes, control, v)
<1>1. CASE config = NoConfig
  BY <1>1 DEF Charged, Paced
<1>2. CASE config # NoConfig
  <2> DEFINE r == RefillAt(b, now, config)
             res == config.reserve * Scale
  <2>1. config \in Configs /\ now \in Nat
    BY <1>2, BoundAssumption
  <2>2. r \in Nat /\ r <= Cap(config) /\ Cap(config) \in Nat /\ res \in Nat
    BY Zenon, <2>1, RefillFacts, CapFacts
  <2>3. Refill(b) = r
    BY DEF Refill, RefillAt
  <2>4. bytes \in Nat /\ bytes * Scale \in Nat
    BY SizeAssumption, ScaleAssumption
  <2>5. cost \in Nat /\ cost <= r /\ (~control => cost = 0 \/ cost + res <= r)
    <3>1. CASE v # "send"
      BY <3>1, <2>2
    <3>2. CASE v = "send"
      <4>1. ~ (r < (bytes + ReserveOf(control)) * Scale)
        BY <3>2, <1>2, <2>3 DEF Verdict, Paced, TooSoon
      <4>2. config.reserve \in Nat
        BY <2>1, CapFacts
      <4>3. CASE control
        BY <3>2, <4>1, <4>3, <2>2, <2>4 DEF ReserveOf
      <4>4. CASE ~control
        <5>1. (bytes + config.reserve) * Scale = bytes * Scale + res
          BY <2>4, <4>2, ScaleAssumption
        <5> QED
          BY <3>2, <4>1, <4>4, <5>1, <2>2, <2>4 DEF ReserveOf
      <4> QED
        BY <4>3, <4>4
    <3> QED
      BY <3>1, <3>2
  <2>6. t = [b EXCEPT !.credit = r - cost, !.at = IF now > @ THEN now ELSE @,
                      !.window = @ + cost, !.drawn = IF control THEN @ + cost ELSE @]
    BY <1>2, <2>3 DEF Charged, Paced
  <2>7. b \in Buckets /\ b.at <= now /\ b.window + r <= b.bound /\ r + b.drawn >= res
    BY <1>2 DEF GoodAt
  <2>8. b.window \in Nat /\ b.bound \in Nat /\ b.drawn \in Nat /\ b.at \in 0 .. MaxTime
    BY <2>7 DEF Buckets
  <2> HIDE DEF r, res, cost, t, v
  <2>9. t.credit = r - cost /\ t.at = now /\ t.window = b.window + cost /\ t.bound = b.bound
        /\ t.drawn = (IF control THEN b.drawn + cost ELSE b.drawn) /\ t.stats = b.stats
    BY <2>6, <2>7, <2>8, BoundAssumption DEF Buckets
  <2>10. t \in Buckets
    <3>1. r - cost \in Nat /\ b.window + cost \in Nat
      BY <2>2, <2>5, <2>8
    <3>2. (IF control THEN b.drawn + cost ELSE b.drawn) \in Nat
      BY <2>5, <2>8
    <3>3. (IF now > b.at THEN now ELSE b.at) \in 0 .. MaxTime
      BY <2>8
    <3> QED
      BY Zenon, <2>6, <2>7, <3>1, <3>2, <3>3 DEF Buckets
  <2>11. RefillAt(t, now, config) = r - cost
    <3>1. Excess(now, t.at) * config.rate = 0
      BY <2>9, <2>1, CapFacts DEF Excess
    <3> QED
      BY <2>2, <2>5, <2>9, <3>1 DEF RefillAt, Least
  <2>12. t.window + (r - cost) <= t.bound
    BY <2>2, <2>5, <2>7, <2>8, <2>9
  <2>13. (r - cost) + t.drawn >= res
    <3>1. CASE control
      BY <3>1, <2>2, <2>5, <2>7, <2>8, <2>9
    <3>2. CASE ~control
      BY <3>2, <2>2, <2>5, <2>7, <2>8, <2>9
    <3> QED
      BY <3>1, <3>2
  <2>14. t.at <= now /\ t.credit <= Cap(config)
    BY <2>1, <2>2, <2>5, <2>9
  <2> QED
    BY <2>10, <2>11, <2>12, <2>13, <2>14 DEF GoodAt, t, v, res
<1> QED
  BY <1>1, <1>2

(* Egress::configure keeps the invariant under the new budget.             *)
LEMMA ReconfiguredGood ==
  ASSUME NEW b, now \in 0 .. MaxTime, config \in Configs \cup {NoConfig},
         GoodAt(b, now, config), NEW c \in Configs \cup {NoConfig}
  PROVE  GoodAt(Reconfigured(b, c), now, c)
<1> DEFINE credit == Least(b.credit, Cap(c))
           t == Reconfigured(b, c)
<1>0. now \in Nat /\ b \in Buckets /\ b.at \in Nat /\ b.credit \in Nat /\ b.window \in Nat /\ b.bound \in Nat
      /\ b.credit <= Cap(config)
  BY BoundAssumption DEF GoodAt, Buckets
<1>1. Cap(c) \in Nat /\ (c # NoConfig => c.reserve * Scale \in Nat /\ c.rate \in Nat)
  BY CapFacts DEF Cap
<1>2. credit \in Nat /\ credit <= Cap(c) /\ credit <= b.credit
  BY <1>0, <1>1 DEF Least
<1> DEFINE res == c.reserve * Scale
           drawn == IF c = NoConfig THEN 0 ELSE Excess(res, credit)
<1>3. drawn \in Nat /\ (c # NoConfig => credit + drawn >= res)
  BY <1>1, <1>2 DEF Excess
<1>4. t = [b EXCEPT !.credit = credit, !.at = now,
                    !.window = IF c = NoConfig \/ ~Paced THEN 0 ELSE @,
                    !.bound  = IF c = NoConfig \/ ~Paced THEN 0 ELSE @,
                    !.drawn  = drawn]
  BY DEF Reconfigured
<1> HIDE DEF credit, t, drawn
<1>5. /\ t.credit = credit /\ t.at = now /\ t.drawn = drawn
      /\ t.window = IF c = NoConfig \/ ~Paced THEN 0 ELSE b.window
      /\ t.bound = IF c = NoConfig \/ ~Paced THEN 0 ELSE b.bound
  BY <1>0, <1>4 DEF Buckets
<1>6. t \in Buckets
  BY Zenon, <1>0, <1>2, <1>3, <1>4 DEF Buckets
<1>7. ASSUME c # NoConfig
      PROVE  t.window + credit <= t.bound
  <2>1. CASE Paced
    <3>1. b.window + RefillAt(b, now, config) <= b.bound
      BY <2>1 DEF Paced, GoodAt
    <3>2. b.credit <= RefillAt(b, now, config) /\ RefillAt(b, now, config) \in Nat
      BY <1>0, <2>1, RefillFacts DEF Paced
    <3> QED
      BY <1>0, <1>2, <1>5, <1>7, <2>1, <3>1, <3>2
  <2>2. CASE ~Paced
    BY <1>0, <1>2, <1>5, <2>2 DEF Paced, Cap
  <2> QED
    BY <2>1, <2>2
<1>8. ASSUME c # NoConfig
      PROVE  RefillAt(t, now, c) = credit
  <2>1. Excess(now, t.at) * c.rate = 0
    BY <1>0, <1>1, <1>5, <1>8 DEF Excess
  <2> QED
    BY <1>1, <1>2, <1>5, <2>1 DEF RefillAt, Least
<1> QED
  BY <1>0, <1>2, <1>3, <1>5, <1>6, <1>7, <1>8 DEF GoodAt, t

(* A tick earns at most the rate, which is what the bound grows by.        *)
LEMMA AgedGood ==
  ASSUME NEW b, now \in 0 .. MaxTime, config \in Configs \cup {NoConfig}, GoodAt(b, now, config)
  PROVE  GoodAt(Aged(b), now + 1, config)
<1>1. CASE config = NoConfig
  BY <1>1, BoundAssumption DEF Aged, Paced, GoodAt, Buckets
<1>2. CASE config # NoConfig
  <2> DEFINE t == Aged(b)
             old == RefillAt(b, now, config)
             new == RefillAt(t, now + 1, config)
  <2>1. now \in Nat /\ b \in Buckets /\ b.at \in Nat /\ b.at <= now /\ b.credit \in Nat /\ b.window \in Nat
        /\ b.bound \in Nat /\ b.drawn \in Nat /\ b.credit <= Cap(config)
        /\ b.window + old <= b.bound /\ old + b.drawn >= config.reserve * Scale
    BY <1>2, BoundAssumption DEF GoodAt, Buckets
  <2>2. config \in Configs /\ config.rate \in Nat /\ Cap(config) \in Nat /\ config.reserve * Scale \in Nat
    BY <1>2, CapFacts
  <2>3. t = [b EXCEPT !.bound = @ + config.rate]
    BY <1>2 DEF Aged, Paced
  <2>4. t \in Buckets
    BY <2>1, <2>2, <2>3 DEF Buckets
  <2>5. t.credit = b.credit /\ t.at = b.at /\ t.window = b.window /\ t.drawn = b.drawn
        /\ t.bound = b.bound + config.rate
    BY <2>1, <2>3 DEF Buckets
  <2>6. old \in Nat
    BY <2>1, <2>2, RefillFacts
  <2>7. Excess(now + 1, b.at) * config.rate = Excess(now, b.at) * config.rate + config.rate
    <3>1. Excess(now + 1, b.at) = Excess(now, b.at) + 1 /\ Excess(now, b.at) \in Nat
      BY <2>1 DEF Excess
    <3> QED
      BY <3>1, <2>2
  <2>8. Excess(now, b.at) * config.rate \in Nat
    <3>1. Excess(now, b.at) \in Nat
      BY <2>1 DEF Excess
    <3> QED
      BY <3>1, <2>2
  <2>9. new \in Nat /\ old <= new /\ new <= old + config.rate
    BY <2>1, <2>2, <2>5, <2>7, <2>8 DEF RefillAt, Least
  <2> HIDE DEF old, new, t
  <2> QED
    BY <2>1, <2>2, <2>4, <2>5, <2>6, <2>9 DEF GoodAt, new, t
<1> QED
  BY <1>1, <1>2

(* A new interval begins with at most one burst of credit.                 *)
LEMMA MarkedGood ==
  ASSUME NEW b, now \in 0 .. MaxTime, config \in Configs, GoodAt(b, now, config)
  PROVE  GoodAt(Marked(b), now, config)
<1> DEFINE t == Marked(b)
<1>1. b \in Buckets /\ now \in Nat /\ Cap(config) \in Nat /\ config # NoConfig
  BY BoundAssumption, CapFacts, ConfigAssumption DEF GoodAt
<1>2. t \in Buckets
  BY Zenon, <1>1 DEF Marked, Buckets
<1>3. t.credit = b.credit /\ t.at = b.at /\ t.window = 0 /\ t.drawn = b.drawn /\ t.bound = Cap(config)
  BY <1>1 DEF Marked, Buckets
<1>4. RefillAt(t, now, config) = RefillAt(b, now, config)
  BY <1>3 DEF RefillAt
<1>5. RefillAt(b, now, config) \in Nat /\ RefillAt(b, now, config) <= Cap(config)
  BY Zenon, <1>1, RefillFacts
<1> QED
  BY <1>1, <1>2, <1>3, <1>4, <1>5 DEF GoodAt, t

-----------------------------------------------------------------------------
(* Counting one packet in the statistics of a bucket changes nothing else. *)
LEMMA CountedGood ==
  ASSUME NEW b, NEW t, NEW c, GoodAt(b, t, c), NEW what \in {"pacing", "cap", "sent", "backend"}
  PROVE  GoodAt([b EXCEPT !.stats[what] = @ + 1], t, c)
<1> DEFINE s == [b EXCEPT !.stats[what] = @ + 1]
<1>1. b \in Buckets
  BY DEF GoodAt
<1>2. s = [b EXCEPT !.stats = [b.stats EXCEPT ![what] = @ + 1]]
  BY <1>1 DEF Buckets
<1>3. [b.stats EXCEPT ![what] = @ + 1] \in Stats
  BY <1>1 DEF Buckets, Stats
<1> HIDE DEF s
<1>4. s \in Buckets /\ s.credit = b.credit /\ s.at = b.at /\ s.window = b.window
      /\ s.bound = b.bound /\ s.drawn = b.drawn
  BY <1>1, <1>2, <1>3 DEF Buckets
<1>5. RefillAt(s, t, c) = RefillAt(b, t, c)
  BY <1>4 DEF RefillAt
<1> QED
  BY <1>4, <1>5 DEF GoodAt, s

(* Egress::bucket finds a bucket that satisfies the invariant.             *)
LEMMA BucketGood ==
  ASSUME BudgetInv, NEW k \in Keys
  PROVE  GoodAt(Bucket(k), now, config)
<1>1. GoodAt(NewBucket(Cap(config), 0), now, config)
  BY NewBucketGood DEF BudgetInv
<1> QED
  BY <1>1 DEF BudgetInv, Bucket

(* One send keeps the invariant of every bucket, and the number of tracked *)
(* destinations within its limit.                                          *)
LEMMA SendKeepsInv ==
  ASSUME BudgetInv, NEW k \in Keys, NEW bytes \in Sizes, NEW control \in BOOLEAN,
         NEW accepted \in BOOLEAN, Send(k, bytes, control, accepted)
  PROVE  BudgetInv'
<1> DEFINE v == Verdict(Bucket(k), bytes, control)
           what == IF v # "send" THEN v ELSE IF accepted THEN "sent" ELSE "backend"
           b == [Charged(Bucket(k), bytes, control, v) EXCEPT !.stats[what] = @ + 1]
<1>1. what \in {"pacing", "cap", "sent", "backend"}
  BY DEF Verdict
<1>2. GoodAt(Bucket(k), now, config)
  BY BucketGood
<1>3. GoodAt(Charged(Bucket(k), bytes, control, v), now, config)
  BY <1>2, ChargedGood DEF BudgetInv
<1>4. GoodAt(b, now, config)
  BY Zenon, <1>1, <1>3, CountedGood
<1>5. Store(k, b) /\ now' = now /\ config' = config
      /\ total' = [TotalStats(total, what) EXCEPT !.shared = IF Tracked(k) THEN @ ELSE @ + 1]
  BY DEF Send
<1> HIDE DEF b, v, what
<1>6. total' \in Stats
  <2>1. TotalStats(total, what) \in Stats
    BY <1>1 DEF BudgetInv, TotalStats, Stats
  <2> QED
    BY <1>5, <2>1 DEF Stats
<1>7. CASE Tracked(k)
  <2>1. buckets' = [x \in DOMAIN buckets \cup {k} |-> IF x = k THEN b ELSE buckets[x]] /\ overflow' = overflow
    BY <1>5, <1>7 DEF Store
  <2>2. DOMAIN buckets' = DOMAIN buckets \cup {k}
    BY <2>1
  <2>3. IsFiniteSet(DOMAIN buckets') /\ Cardinality(DOMAIN buckets') <= MaxPeers
    <3>1. Cardinality(DOMAIN buckets) \in Nat
      BY FS_CardinalityType DEF BudgetInv
    <3>2. CASE k \in DOMAIN buckets
      <4>1. DOMAIN buckets' = DOMAIN buckets
        BY <2>2, <3>2
      <4> QED
        BY <4>1 DEF BudgetInv
    <3>3. CASE k \notin DOMAIN buckets
      <4>1. Cardinality(DOMAIN buckets) < MaxPeers
        BY <1>7, <3>3 DEF Tracked
      <4>2. IsFiniteSet(DOMAIN buckets') /\ Cardinality(DOMAIN buckets') = Cardinality(DOMAIN buckets) + 1
        BY <2>2, <3>3, FS_AddElement DEF BudgetInv
      <4> QED
        BY <3>1, <4>1, <4>2, BoundAssumption
    <3> QED
      BY <3>2, <3>3
  <2>4. \A x \in DOMAIN buckets' : GoodAt(buckets'[x], now, config)
    BY <1>4, <2>1 DEF BudgetInv
  <2>5. DOMAIN buckets' \subseteq Keys
    BY <2>2 DEF BudgetInv
  <2>6. buckets' = [x \in DOMAIN buckets' |-> buckets'[x]]
    BY <2>1
  <2> QED
    BY <1>5, <1>6, <2>1, <2>3, <2>4, <2>5, <2>6 DEF BudgetInv
<1>8. CASE ~Tracked(k)
  <2>1. overflow' = b /\ buckets' = buckets
    BY <1>5, <1>8 DEF Store
  <2> QED
    BY <1>4, <1>5, <1>6, <2>1 DEF BudgetInv
<1> QED
  BY <1>7, <1>8

(* configure, the ghost Mark and the clock keep the invariant.             *)
LEMMA OtherStepsKeepInv ==
  ASSUME BudgetInv,
         \/ \E c \in Configs \cup {NoConfig} : Configure(c)
         \/ \E k \in Keys : Mark(k)
         \/ Tick
  PROVE  BudgetInv'
<1>0. now \in 0 .. MaxTime /\ config \in Configs \cup {NoConfig} /\ GoodAt(overflow, now, config)
      /\ \A k \in DOMAIN buckets : GoodAt(buckets[k], now, config)
  BY DEF BudgetInv
<1>1. ASSUME NEW c \in Configs \cup {NoConfig}, Configure(c)
      PROVE  BudgetInv'
  <2>1. buckets' = [k \in DOMAIN buckets |-> Reconfigured(buckets[k], c)]
        /\ overflow' = Reconfigured(overflow, c) /\ config' = c /\ now' = now /\ total' = total
    BY <1>1 DEF Configure
  <2>2. GoodAt(overflow', now', config')
    BY <1>0, <2>1, ReconfiguredGood
  <2>3. \A k \in DOMAIN buckets : GoodAt(Reconfigured(buckets[k], c), now, c)
    BY <1>0, ReconfiguredGood
  <2>4. DOMAIN buckets' = DOMAIN buckets /\ \A k \in DOMAIN buckets' : GoodAt(buckets'[k], now', config')
    BY <2>1, <2>3
  <2>5. buckets' = [k \in DOMAIN buckets' |-> buckets'[k]]
    BY <2>1
  <2> QED
    BY <2>1, <2>2, <2>4, <2>5 DEF BudgetInv
<1>2. ASSUME NEW j \in Keys, Mark(j)
      PROVE  BudgetInv'
  <2>1. j \in DOMAIN buckets /\ config \in Configs /\ buckets' = [buckets EXCEPT ![j] = Marked(buckets[j])]
        /\ now' = now /\ config' = config /\ overflow' = overflow /\ total' = total
    BY <1>0, <1>2 DEF Mark, Paced
  <2>2. GoodAt(Marked(buckets[j]), now, config)
    BY <1>0, <2>1, MarkedGood
  <2>3. DOMAIN buckets' = DOMAIN buckets /\ \A k \in DOMAIN buckets' : GoodAt(buckets'[k], now', config')
    BY <1>0, <2>1, <2>2
  <2>4. buckets' = [k \in DOMAIN buckets' |-> buckets'[k]]
    BY Zenon, <2>1
  <2> QED
    BY <2>1, <2>3, <2>4 DEF BudgetInv
<1>3. ASSUME Tick
      PROVE  BudgetInv'
  <2>1. now < MaxTime /\ now' = now + 1 /\ buckets' = [k \in DOMAIN buckets |-> Aged(buckets[k])]
        /\ overflow' = Aged(overflow) /\ config' = config /\ total' = total
    BY <1>3 DEF Tick
  <2>2. now' \in 0 .. MaxTime
    BY <1>0, <2>1, BoundAssumption
  <2>3. GoodAt(overflow', now', config')
    BY <1>0, <2>1, AgedGood
  <2>4. \A k \in DOMAIN buckets : GoodAt(Aged(buckets[k]), now + 1, config)
    BY <1>0, AgedGood
  <2>5. DOMAIN buckets' = DOMAIN buckets /\ \A k \in DOMAIN buckets' : GoodAt(buckets'[k], now', config')
    BY <2>1, <2>4
  <2>6. buckets' = [k \in DOMAIN buckets' |-> buckets'[k]]
    BY <2>1
  <2> QED
    BY <2>1, <2>2, <2>3, <2>5, <2>6 DEF BudgetInv
<1> QED
  BY <1>1, <1>2, <1>3

(* The inductive invariant: every bucket, the overflow bucket included,    *)
(* keeps its credit within the cap, what it was charged in the current     *)
(* interval within the documented bound, and the reserve for control.      *)
THEOREM BudgetInvariant == Spec => []BudgetInv
<1>1. Init => BudgetInv
  <2> SUFFICES ASSUME Init PROVE BudgetInv
    OBVIOUS
  <2>1. now \in 0 .. MaxTime /\ config = NoConfig /\ overflow = NewBucket(0, 0) /\ total = NoStats
        /\ buckets = [k \in {} |-> NewBucket(0, 0)]
    BY BoundAssumption DEF Init
  <2>2. GoodAt(overflow, now, config)
    <3>1. Cap(config) = 0
      BY <2>1 DEF Cap
    <3> QED
      BY <2>1, <3>1, NewBucketGood
  <2>3. DOMAIN buckets = {}
    BY <2>1
  <2>4. IsFiniteSet({}) /\ Cardinality({}) = 0
    BY FS_EmptySet
  <2>5. total \in Stats
    BY <2>1 DEF NoStats, Stats
  <2>6. buckets = [k \in DOMAIN buckets |-> buckets[k]]
    BY <2>1
  <2> QED
    BY <2>1, <2>2, <2>3, <2>4, <2>5, <2>6, BoundAssumption DEF BudgetInv
<1>2. BudgetInv /\ [Next]_vars => BudgetInv'
  <2> SUFFICES ASSUME BudgetInv, [Next]_vars PROVE BudgetInv'
    OBVIOUS
  <2>1. CASE UNCHANGED vars
    BY <2>1 DEF vars, BudgetInv
  <2>2. CASE Next
    BY <2>2, SendKeepsInv, OtherStepsKeepInv DEF Next
  <2> QED
    BY <2>1, <2>2
<1> QED
  BY <1>1, <1>2, PTL DEF Spec

(* The documented rate: in any interval, across any reconfigurations, no   *)
(* destination is charged more than one burst plus the rate times the time *)
(* (Bucket::admit, Egress::configure).                                     *)
THEOREM EnvelopeHolds == Spec => []Envelope
<1>1. BudgetInv => Envelope
  BY DEF BudgetInv, Envelope, All, WithinEnvelope, Paced, GoodAt, Refill, RefillAt
<1> QED
  BY <1>1, BudgetInvariant, PTL

(* Data never spends the control reserve, for any budgets and sizes.       *)
THEOREM ReserveHolds == Spec => []ReserveForControl
<1>1. BudgetInv => ReserveForControl
  BY DEF BudgetInv, ReserveForControl, All, ReserveIntact, Paced, GoodAt, Refill, RefillAt
<1> QED
  BY <1>1, BudgetInvariant, PTL

(* Types, non-negative credit and the bound on tracked destinations.       *)
THEOREM TypeCorrect == Spec => []TypeOK
<1>1. BudgetInv => TypeOK
  BY DEF BudgetInv, TypeOK, GoodAt
<1> QED
  BY <1>1, BudgetInvariant, PTL

(* Installing a budget keeps the counters and restores no credit.          *)
THEOREM NeverRestoresHolds == Spec => NeverRestores
<1>1. ASSUME BudgetInv, [Next]_vars, config' # config
      PROVE  /\ total' = total /\ overflow'.credit <= overflow.credit
             /\ \A k \in DOMAIN buckets :
                  /\ k \in DOMAIN buckets' /\ buckets'[k].stats = buckets[k].stats
                  /\ buckets'[k].credit <= buckets[k].credit
  <2>1. PICK c \in Configs \cup {NoConfig} : Configure(c)
    <3>1. Next
      BY <1>1 DEF vars
    <3>2. ~ Tick /\ \A k \in Keys : ~ Mark(k)
      BY <1>1 DEF Tick, Mark
    <3>3. \A k \in Keys, bytes \in Sizes, control, accepted \in BOOLEAN :
            ~ Send(k, bytes, control, accepted)
      BY <1>1 DEF Send
    <3> QED
      BY <3>1, <3>2, <3>3 DEF Next
  <2>2. Cap(c) \in Nat
    BY CapFacts DEF Cap
  <2>3. ASSUME NEW b \in Buckets
        PROVE  Reconfigured(b, c).credit <= b.credit /\ Reconfigured(b, c).stats = b.stats
    <3>1. b.credit \in Nat
      BY DEF Buckets
    <3>2. Reconfigured(b, c).credit = Least(b.credit, Cap(c)) /\ Reconfigured(b, c).stats = b.stats
      BY DEF Reconfigured, Buckets
    <3> QED
      BY <2>2, <3>1, <3>2 DEF Least
  <2>4. overflow \in Buckets /\ \A k \in DOMAIN buckets : buckets[k] \in Buckets
    BY <1>1 DEF BudgetInv, GoodAt
  <2>5. buckets' = [k \in DOMAIN buckets |-> Reconfigured(buckets[k], c)]
        /\ overflow' = Reconfigured(overflow, c) /\ total' = total
    BY <2>1 DEF Configure
  <2> QED
    BY <2>3, <2>4, <2>5
<1>2. BudgetInv /\ [Next]_vars =>
        [config' # config =>
           /\ total' = total
           /\ overflow'.credit <= overflow.credit
           /\ \A k \in DOMAIN buckets :
                /\ k \in DOMAIN buckets' /\ buckets'[k].stats = buckets[k].stats
                /\ buckets'[k].credit <= buckets[k].credit]_vars
  BY <1>1
<1> QED
  BY <1>2, BudgetInvariant, PTL DEF Spec, NeverRestores

(* Whole units fit below a floor exactly when they fit below the number.   *)
LEMMA FloorFits ==
  ASSUME NEW n \in Nat, NEW s \in Nat \ {0}, NEW x \in Nat
  PROVE  x <= n \div s <=> x * s <= n
<1> DEFINE q == n \div s
<1>1. q \in Nat /\ q * s <= n /\ n < (q + 1) * s
  OBVIOUS
<1> HIDE DEF q
<1>2. x <= q => x * s <= q * s
  BY <1>1
<1>3. x >= q + 1 => x * s >= (q + 1) * s
  BY <1>1
<1>4. x * s \in Nat /\ q * s \in Nat /\ (q + 1) * s \in Nat
  BY <1>1
<1> QED
  BY <1>1, <1>2, <1>3, <1>4 DEF q

(* The preview of Egress::peer_allowance and the verdict of Bucket::admit  *)
(* agree on every size, although each does its own arithmetic.             *)
THEOREM AllowanceHolds == Spec => []AllowanceIsExact
<1>1. ASSUME BudgetInv, config # NoConfig, NEW k \in Keys, NEW bytes \in Sizes
      PROVE  bytes <= Allowance(k) <=> Verdict(Bucket(k), bytes, FALSE) = "send"
  <2> DEFINE r == Refill(Bucket(k))
             need == bytes + config.reserve
  <2>1. config \in Configs /\ now \in Nat /\ GoodAt(Bucket(k), now, config)
    BY <1>1, BucketGood, BoundAssumption DEF BudgetInv
  <2>2. config.reserve \in Nat /\ config.burst \in Nat /\ Cap(config) = config.burst * Scale
    BY <2>1, CapFacts
  <2>3. r \in Nat /\ r <= Cap(config)
    <3>1. r = RefillAt(Bucket(k), now, config)
      BY DEF Refill, RefillAt
    <3> QED
      BY Zenon, <2>1, <3>1, RefillFacts
  <2>4. bytes \in Nat \ {0} /\ need \in Nat /\ Scale \in Nat \ {0}
    BY <2>2, SizeAssumption, ScaleAssumption
  <2>5. Allowance(k) = Excess(r \div Scale, config.reserve)
    BY DEF Allowance
  <2>6. Verdict(Bucket(k), bytes, FALSE) = "send" <=>
          ~ (bytes > config.burst - config.reserve) /\ ~ (r < need * Scale)
    BY <1>1 DEF Verdict, Paced, TooLarge, TooSoon, ReserveOf
  <2> HIDE DEF r, need
  <2>7. need <= r \div Scale <=> need * Scale <= r
    BY <2>3, <2>4, FloorFits
  <2>8. r \div Scale \in Nat /\ r \div Scale <= config.burst
    <3>1. (config.burst + 1) * Scale > r
      <4>1. (config.burst + 1) * Scale = config.burst * Scale + Scale
        BY <2>2, <2>4
      <4>2. config.burst * Scale \in Nat
        BY <2>2, <2>4
      <4> QED
        BY <2>2, <2>3, <2>4, <4>1, <4>2
    <3>2. r \div Scale \in Nat
      BY <2>3, <2>4
    <3>3. ~ (config.burst + 1 <= r \div Scale)
      BY <2>2, <2>3, <2>4, <3>1, FloorFits
    <3> QED
      BY <2>2, <3>2, <3>3
  <2>9. bytes <= Allowance(k) <=> need <= r \div Scale
    BY <2>2, <2>4, <2>5, <2>8 DEF Excess, need
  <2>10. need <= r \div Scale => ~ (bytes > config.burst - config.reserve)
    BY <2>2, <2>4, <2>8 DEF need
  <2>11. ~ (r < need * Scale) <=> need * Scale <= r
    BY <2>3, <2>4
  <2> QED
    BY Zenon, <2>6, <2>7, <2>9, <2>10, <2>11
<1>2. BudgetInv => AllowanceIsExact
  BY Zenon, <1>1 DEF AllowanceIsExact, Paced
<1> QED
  BY <1>2, BudgetInvariant, PTL
=============================================================================
