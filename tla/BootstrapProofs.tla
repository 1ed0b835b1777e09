-------------------------- MODULE BootstrapProofs --------------------------
(***************************************************************************)
(* Proofs about Bootstrap, for any number of threads, tickets, limits and  *)
(* clock resolutions.  The argument for TicketActivatesOnce: a replay key  *)
(* is forgotten only after its ticket has expired (Fences), so a second    *)
(* session of a ticket is issued after that (LaterIssuesLate); activation  *)
(* re-checks the ticket with a wall clock read after the issue, so only a  *)
(* session issued in time is activated (ActivatedIssuedInTime).            *)
(***************************************************************************)
EXTENDS Bootstrap, FiniteSetTheorems, TLAPS

(* The values of details and of call. *)
Detail == [key : Ticket, expires : Int, claimed : BOOLEAN]
Call == [step : Steps, id : Nat, wall : Time, mono : Time]

(* Types, with what ties identities together. *)
Shape ==
    /\ now \in Time /\ next_id \in 0 .. MaxId
    /\ pending \in [DOMAIN pending -> Time]
    /\ active \subseteq activated
    /\ activated \subseteq DOMAIN issued
    /\ DOMAIN issued \subseteq 0 .. next_id - 1
    /\ issued \in [DOMAIN issued -> [key : Ticket, at : Time]]
    /\ \A id \in DOMAIN issued : issued[id].at <= now
    /\ details \in [DOMAIN details -> Detail]
    /\ used \in [DOMAIN used -> Int]
    /\ DOMAIN used \subseteq Keys /\ IsFiniteSet(DOMAIN used)
    /\ claims \in [Ids -> Nat]

(* A call's readings are from the past, the monotonic one not older than   *)
(* the wall clock's; a call about a session began after it was issued.     *)
CallAt(c, time, sessions) ==
    /\ c.wall <= time /\ c.mono <= time
    /\ c.step = "create_locks" => c.wall <= c.mono
    /\ c.step \in {"offer", "build", "connect"} =>
         c.id \in DOMAIN sessions /\ sessions[c.id].at <= c.wall

Calls == call \in [Callers -> Call] /\ \A p \in Callers : CallAt(call[p], now, issued)

(* The details of a session are those it was issued with. *)
Linked ==
    \A id \in DOMAIN details :
        /\ id \in DOMAIN issued
        /\ details[id].key = issued[id].key
        /\ details[id].key # NoKey => details[id].expires # Never

(* A ticket that was used is fenced, or has expired. *)
Fences ==
    /\ \A k \in DOMAIN used : used[k] >= Expiry[k]
    /\ \A id \in DOMAIN issued : issued[id].key # NoKey =>
         issued[id].key \in DOMAIN used \/ Expiry[issued[id].key] <= now

(* Only the first session of a ticket was issued before its expiry ... *)
LaterIssuesLate ==
    \A a, b \in DOMAIN issued :
        a < b /\ issued[a].key = issued[b].key /\ issued[b].key # NoKey =>
            Expiry[issued[b].key] <= issued[b].at

(* ... and only a session issued before that is ever activated. *)
ActivatedIssuedInTime ==
    \A a \in activated : issued[a].key # NoKey => issued[a].at < Expiry[issued[a].key]

(* An offer that got past the claim left its mark. *)
ClaimsMarked ==
    \A id \in Ids :
        /\ claims[id] <= 1
        /\ claims[id] # 0 => id \in DOMAIN issued /\ (id \in DOMAIN details => details[id].claimed)

(* The inductive invariant. *)
BootInv ==
    /\ Shape /\ Calls /\ RegistryConsistent /\ Linked /\ Fences /\ PendingFenced
    /\ LaterIssuesLate /\ ActivatedIssuedInTime /\ ClaimsMarked /\ WithinLimits

-----------------------------------------------------------------------------
(* Division with remainder, for the truncation to seconds. *)
LEMMA DivMod ==
  ASSUME NEW e \in Nat, NEW T \in Nat, T > 0
  PROVE  e = T * (e \div T) + (e % T) /\ e \div T \in Nat /\ e % T \in Nat /\ e % T < T
<1>1. e % T \in Nat /\ e % T < T
  BY Z3
<1>2. e \div T \in Nat
  BY Z3
<1>3. e = T * (e \div T) + (e % T)
  BY Z3
<1> QED
  BY <1>1, <1>2, <1>3

(* Products of naturals are naturals. *)
LEMMA ProductNat ==
  ASSUME NEW m \in Nat, NEW n \in Nat
  PROVE  m * n \in Nat
OBVIOUS

(* Two multiples of T that differ are at least T apart. *)
LEMMA MultiplesApart ==
  ASSUME NEW T \in Nat, NEW q \in Nat, NEW n \in Nat, T * n > T * q
  PROVE  T * n >= T * q + T
<1>1. T * n \in Nat /\ T * q \in Nat
  OBVIOUS
<1>2. n <= q => T * n <= T * q
  OBVIOUS
<1>3. n >= q + 1
  BY <1>1, <1>2
<1>4. T * n >= T * (q + 1)
  BY <1>3
<1>5. T * (q + 1) = T * q + T
  OBVIOUS
<1> QED
  BY <1>1, <1>4, <1>5

(* The wall clock in whole seconds is not ahead of the clock, and a ticket *)
(* that is valid by it is valid by the clock.                              *)
LEMMA SecondsFacts ==
  ASSUME NEW t \in Nat
  PROVE  /\ Seconds(t) \in Int /\ Seconds(t) <= t
         /\ \A k \in Keys : Expiry[k] > Seconds(t) => Expiry[k] > t
<1>1. TicksPerSecond \in Nat /\ TicksPerSecond > 0
  BY TicksAssumption
<1>2. PICK T \in Nat : T = TicksPerSecond
  BY <1>1
<1>3. PICK r \in Nat : r = t % T
  BY <1>1, <1>2, DivMod
<1>4. PICK q \in Nat : q = t \div T
  BY <1>1, <1>2, DivMod
<1>5. t = T * q + r /\ r < T
  BY <1>1, <1>2, <1>3, <1>4, DivMod
<1>6. Seconds(t) = t - r
  BY <1>2, <1>3 DEF Seconds
<1>7. ASSUME NEW k \in Keys, Expiry[k] > Seconds(t)
      PROVE  Expiry[k] > t
  <2>1. PICK e \in Nat : e = Expiry[k]
    BY ExpiryAssumption
  <2>2. e % T = 0
    BY <1>2, <2>1, ExpiryAssumption
  <2>3. PICK n \in Nat : n = e \div T
    BY <1>1, <1>2, DivMod
  <2>4. e = T * n + (e % T)
    BY <1>1, <1>2, <2>3, DivMod
  <2>5. T * n \in Nat /\ T * q \in Nat
    BY <1>2, <1>4, <2>3, ProductNat
  <2>6. e = T * n
    BY <2>2, <2>4, <2>5
  <2>7. T * n > T * q
    BY <1>5, <1>6, <1>7, <2>1, <2>5, <2>6
  <2>8. T * n >= T * q + T
    BY <2>7, MultiplesApart
  <2> QED
    BY <1>5, <2>1, <2>5, <2>6, <2>8
<1> QED
  BY <1>6, <1>7

(* The end of a fence is not before the expiry of its ticket.              *)
LEMMA FenceEndFacts ==
  ASSUME NEW k \in Keys, NEW wall \in Nat, NEW mono \in Nat, wall <= mono
  PROVE  FenceEnd(k, wall, mono) \in Int /\ FenceEnd(k, wall, mono) >= Expiry[k]
         /\ FenceEnd(k, wall, mono) # Never
<1>1. Expiry[k] \in Nat
  BY ExpiryAssumption
<1> QED
  BY <1>1, SecondsFacts DEF FenceEnd, Never

(* The registry is finite, since identities are.                           *)
LEMMA FiniteRegistry ==
  ASSUME BootInv
  PROVE  /\ DOMAIN issued \subseteq Ids /\ DOMAIN details \subseteq Ids
         /\ DOMAIN pending \subseteq Ids /\ active \subseteq Ids
         /\ IsFiniteSet(DOMAIN pending) /\ IsFiniteSet(active)
<1>1. MaxId \in Nat /\ next_id \in 0 .. MaxId
  BY BoundAssumption DEF BootInv, Shape
<1>2. 0 .. next_id - 1 \subseteq Ids
  BY <1>1 DEF Ids
<1>3. DOMAIN issued \subseteq Ids
  BY <1>2 DEF BootInv, Shape
<1>4. DOMAIN details \subseteq DOMAIN issued
  BY DEF BootInv, Linked
<1>5. DOMAIN pending \subseteq DOMAIN details /\ active \subseteq DOMAIN details
  BY DEF BootInv, RegistryConsistent
<1>6. IsFiniteSet(Ids)
  <2>1. 0 \in Int /\ MaxId - 1 \in Int
    BY <1>1
  <2> QED
    BY <2>1, FS_Interval DEF Ids
<1>7. DOMAIN pending \in SUBSET Ids /\ active \in SUBSET Ids
  BY <1>3, <1>4, <1>5
<1>8. IsFiniteSet(DOMAIN pending) /\ IsFiniteSet(active)
  BY <1>6, <1>7, FS_Subset
<1> QED
  BY <1>3, <1>4, <1>7, <1>8

-----------------------------------------------------------------------------
(* What every step that only removes sessions and ended fences, or makes a *)
(* pending session active, does to the registry.                           *)
LEMMA ShrinkKeepsRegistry ==
  ASSUME BootInv, UNCHANGED <<now, issued>>,
         NEW P \in SUBSET DOMAIN pending, NEW U \in SUBSET DOMAIN used,
         pending' = Restrict(pending, P), used' = Restrict(used, U),
         P \cap active' = {}, active' \subseteq DOMAIN pending \cup active,
         DOMAIN details' = P \cup active',
         details' \in [DOMAIN details' -> Detail],
         \A id \in DOMAIN details' : details'[id].key = details[id].key
                                     /\ details'[id].expires = details[id].expires,
         \A k \in DOMAIN used \ U : used[k] <= now,
         \A id \in P : details[id].key # NoKey => details[id].key \in U
  PROVE  /\ RegistryConsistent' /\ Linked' /\ Fences' /\ PendingFenced'
         /\ pending' \in [DOMAIN pending' -> Time] /\ used' \in [DOMAIN used' -> Int]
         /\ DOMAIN used' \subseteq Keys /\ IsFiniteSet(DOMAIN used')
         /\ Cardinality(DOMAIN pending') <= PendingLimit
         /\ Cardinality(DOMAIN used') <= ReplayLimit
<1>1. DOMAIN pending' = P /\ DOMAIN used' = U
  BY DEF Restrict
<1>2. RegistryConsistent'
  BY <1>1 DEF RegistryConsistent
<1>3. DOMAIN details' \subseteq DOMAIN details
  BY <1>1 DEF BootInv, RegistryConsistent
<1>4. Linked'
  BY <1>3 DEF BootInv, Linked
<1>5. \A k \in U : used'[k] = used[k]
  BY DEF Restrict
<1>6. Fences'
  <2>1. \A k \in DOMAIN used' : used'[k] >= Expiry[k]
    BY <1>1, <1>5 DEF BootInv, Fences
  <2>2. ASSUME NEW id \in DOMAIN issued, issued[id].key # NoKey
        PROVE  issued[id].key \in U \/ Expiry[issued[id].key] <= now
    <3> DEFINE k == issued[id].key
    <3>1. CASE k \in DOMAIN used \ U
      <4>1. used[k] <= now /\ used[k] >= Expiry[k] /\ used[k] \in Int /\ now \in Int
        BY <3>1 DEF BootInv, Fences, Shape, Time
      <4>2. k \in Keys
        BY <3>1 DEF BootInv, Shape
      <4>3. Expiry[k] \in Nat
        BY <4>2, ExpiryAssumption
      <4> QED
        BY <4>1, <4>3
    <3>2. CASE k \notin DOMAIN used
      BY <2>2, <3>2 DEF BootInv, Fences
    <3> QED
      BY <3>1, <3>2
  <2> QED
    BY <1>1, <2>1, <2>2 DEF Fences
<1>7. PendingFenced'
  <2>1. \A id \in P : id \in DOMAIN details'
    OBVIOUS
  <2> QED
    BY <1>1, <1>5, <2>1 DEF BootInv, PendingFenced
<1>8. pending' \in [DOMAIN pending' -> Time] /\ used' \in [DOMAIN used' -> Int] /\ DOMAIN used' \subseteq Keys
  BY <1>1 DEF BootInv, Shape, Restrict
<1>9. IsFiniteSet(DOMAIN used') /\ Cardinality(DOMAIN used') <= ReplayLimit
  <2>1. IsFiniteSet(DOMAIN used) /\ Cardinality(DOMAIN used) <= ReplayLimit
    BY DEF BootInv, Shape, WithinLimits
  <2>2. IsFiniteSet(U) /\ Cardinality(U) <= Cardinality(DOMAIN used)
    BY <2>1, FS_Subset
  <2>3. Cardinality(U) \in Nat /\ Cardinality(DOMAIN used) \in Nat
    BY <2>1, <2>2, FS_CardinalityType
  <2> QED
    BY <1>1, <2>1, <2>2, <2>3, BoundAssumption
<1>10. Cardinality(DOMAIN pending') <= PendingLimit
  <2>3. IsFiniteSet(DOMAIN pending) /\ Cardinality(DOMAIN pending) <= PendingLimit
    BY FiniteRegistry DEF BootInv, WithinLimits
  <2>4. IsFiniteSet(P) /\ Cardinality(P) <= Cardinality(DOMAIN pending)
    BY <2>3, FS_Subset
  <2>5. Cardinality(P) \in Nat /\ Cardinality(DOMAIN pending) \in Nat
    BY <2>3, <2>4, FS_CardinalityType
  <2> QED
    BY <1>1, <2>3, <2>4, <2>5, BoundAssumption
<1> QED
  BY <1>2, <1>4, <1>6, <1>7, <1>8, <1>9, <1>10

(* What a cleanup with a reading that is not from the future keeps.        *)
LEMMA KeptFacts ==
  ASSUME BootInv, NEW t \in Time, t <= now
  PROVE  /\ Kept(t) \in SUBSET DOMAIN pending /\ KeptGrants(t) \in SUBSET DOMAIN used
         /\ KeptDetails(t) = Kept(t) \cup active
         /\ \A k \in DOMAIN used \ KeptGrants(t) : used[k] <= now
         /\ \A id \in Kept(t) : details[id].key # NoKey => details[id].key \in KeptGrants(t)
<1>1. Kept(t) \in SUBSET DOMAIN pending /\ KeptGrants(t) \in SUBSET DOMAIN used
  BY DEF Kept, KeptGrants
<1>2. KeptDetails(t) = Kept(t) \cup active
  BY <1>1 DEF KeptDetails, BootInv, RegistryConsistent
<1>3. ASSUME NEW k \in DOMAIN used \ KeptGrants(t) PROVE used[k] <= now
  <2>1. ~ (used[k] > t)
    BY <1>3 DEF KeptGrants
  <2>2. used[k] \in Int /\ now \in Int /\ t \in Int
    BY DEF BootInv, Shape, Time
  <2> QED
    BY <2>1, <2>2
<1>4. ASSUME NEW id \in Kept(t), details[id].key # NoKey
      PROVE  details[id].key \in KeptGrants(t)
  <2>1. id \in DOMAIN pending /\ id \in DOMAIN details
    BY <1>1 DEF BootInv, RegistryConsistent
  <2>2. details[id].key \in DOMAIN used /\ used[details[id].key] = details[id].expires
    BY <1>4, <2>1 DEF BootInv, PendingFenced
  <2>3. details[id].expires # Never
    BY <1>4, <2>1 DEF BootInv, Linked
  <2>4. details[id].expires > t
    BY <2>1, <2>3 DEF Kept
  <2> QED
    BY <2>2, <2>4 DEF KeptGrants
<1> QED
  BY <1>1, <1>2, <1>3, <1>4

(* Replacing one caller's record keeps the facts about calls.              *)
LEMMA CallsKept ==
  ASSUME BootInv, NEW p \in Callers, NEW c \in Call, call' = [call EXCEPT ![p] = c],
         CallAt(c, now', issued'), now' = now,
         \A id \in DOMAIN issued : id \in DOMAIN issued' /\ issued'[id] = issued[id]
  PROVE  Calls'
<1>1. call' \in [Callers -> Call]
  BY DEF BootInv, Calls
<1>2. ASSUME NEW q \in Callers PROVE CallAt(call'[q], now', issued')
  <2>1. CASE q = p
    BY <2>1 DEF BootInv, Calls
  <2>2. CASE q # p
    <3>1. call'[q] = call[q] /\ CallAt(call[q], now, issued)
      BY <2>2 DEF BootInv, Calls
    <3> QED
      BY <3>1 DEF CallAt
  <2> QED
    BY <2>1, <2>2
<1> QED
  BY <1>1, <1>2 DEF Calls

(* A caller that has returned satisfies what is said about calls.          *)
LEMMA IdleCall ==
  ASSUME now \in Time
  PROVE  Idle \in Call /\ \A sessions : CallAt(Idle, now, sessions)
<1>1. 0 \in Time /\ 0 <= now
  BY BoundAssumption DEF Time
<1>2. Idle.step = "idle" /\ Idle.wall = 0 /\ Idle.mono = 0
  BY DEF Idle
<1>3. Idle \in Call
  BY <1>1 DEF Idle, Call, Steps
<1> QED
  BY <1>1, <1>2, <1>3 DEF CallAt

(* Steps that change nothing but a call in progress.                       *)
LEMMA CallOnly ==
  ASSUME BootInv, UNCHANGED <<now, next_id, registry, issued, activated, claims>>, Calls'
  PROVE  BootInv'
<1>1. UNCHANGED <<now, next_id, pending, active, details, used, issued, activated, claims>>
  BY DEF registry
<1>2. Shape' /\ RegistryConsistent' /\ Linked' /\ Fences' /\ PendingFenced'
  BY <1>1 DEF BootInv, Shape, RegistryConsistent, Linked, Fences, PendingFenced
<1>3. LaterIssuesLate' /\ ActivatedIssuedInTime' /\ ClaimsMarked' /\ WithinLimits'
  BY <1>1 DEF BootInv, LaterIssuesLate, ActivatedIssuedInTime, ClaimsMarked, WithinLimits
<1> QED
  BY <1>2, <1>3 DEF BootInv

(* Steps that only clean up.                                               *)
LEMMA CleanupKeeps ==
  ASSUME BootInv, NEW t \in Time, t <= now, CleanupAt(t), Calls',
         UNCHANGED <<now, issued, activated, claims>>,
         next_id' \in 0 .. MaxId, next_id <= next_id'
  PROVE  BootInv'
<1> DEFINE P == Kept(t)
           U == KeptGrants(t)
<1>1. /\ P \in SUBSET DOMAIN pending /\ U \in SUBSET DOMAIN used
      /\ KeptDetails(t) = P \cup active
      /\ \A k \in DOMAIN used \ U : used[k] <= now
      /\ \A id \in P : details[id].key # NoKey => details[id].key \in U
  BY KeptFacts
<1>2. /\ pending' = Restrict(pending, P) /\ used' = Restrict(used, U)
      /\ details' = Restrict(details, P \cup active) /\ active' = active
  BY <1>1 DEF CleanupAt
<1> HIDE DEF P, U
<1>3. DOMAIN details' = P \cup active' /\ DOMAIN details' \subseteq DOMAIN details
      /\ \A id \in DOMAIN details' : details'[id] = details[id]
  BY <1>1, <1>2 DEF Restrict, BootInv, RegistryConsistent
<1>4. details' \in [DOMAIN details' -> Detail]
  BY <1>2, <1>3 DEF BootInv, Shape, Restrict
<1>5. P \cap active' = {} /\ active' \subseteq DOMAIN pending \cup active
  BY <1>1, <1>2 DEF BootInv, RegistryConsistent
<1>6. /\ RegistryConsistent' /\ Linked' /\ Fences' /\ PendingFenced'
      /\ pending' \in [DOMAIN pending' -> Time] /\ used' \in [DOMAIN used' -> Int]
      /\ DOMAIN used' \subseteq Keys /\ IsFiniteSet(DOMAIN used')
      /\ Cardinality(DOMAIN pending') <= PendingLimit
      /\ Cardinality(DOMAIN used') <= ReplayLimit
  BY Zenon, <1>1, <1>2, <1>3, <1>4, <1>5, ShrinkKeepsRegistry
<1>7. 0 .. next_id - 1 \subseteq 0 .. next_id' - 1
  BY DEF BootInv, Shape
<1>8. Shape'
  BY Zenon, <1>2, <1>4, <1>6, <1>7 DEF BootInv, Shape
<1>9. LaterIssuesLate' /\ ActivatedIssuedInTime'
  BY DEF BootInv, LaterIssuesLate, ActivatedIssuedInTime
<1>10. ClaimsMarked'
  BY <1>3 DEF BootInv, ClaimsMarked
<1>11. WithinLimits'
  BY <1>2, <1>6 DEF BootInv, WithinLimits
<1> QED
  BY <1>6, <1>8, <1>9, <1>10, <1>11 DEF BootInv

-----------------------------------------------------------------------------
(* claim_offer: the session stays, marked.                                 *)
LEMMA OfferClaimsKeeps ==
  ASSUME BootInv, NEW p \in Callers, OfferClaims(p), Calls'
  PROVE  BootInv'
<1> DEFINE i == call[p].id
           P == Kept(now)
           U == KeptGrants(now)
<1>1. now \in Time /\ now <= now
  BY DEF BootInv, Shape, Time
<1>2. /\ P \in SUBSET DOMAIN pending /\ U \in SUBSET DOMAIN used
      /\ KeptDetails(now) = P \cup active
      /\ \A k \in DOMAIN used \ U : used[k] <= now
      /\ \A id \in P : details[id].key # NoKey => details[id].key \in U
  BY <1>1, KeptFacts
<1>3. /\ pending' = Restrict(pending, P) /\ used' = Restrict(used, U) /\ active' = active
      /\ details' = [x \in P \cup active |->
                       IF x = i THEN [details[x] EXCEPT !.claimed = TRUE] ELSE details[x]]
      /\ claims' = [claims EXCEPT ![i] = @ + 1]
      /\ i \in P /\ i \in DOMAIN details /\ ~ details[i].claimed
      /\ UNCHANGED <<now, next_id, issued, activated>>
  BY <1>2 DEF OfferClaims, Claim, MayClaim
<1> HIDE DEF P, U, i
<1>4. DOMAIN details' = P \cup active' /\ DOMAIN details' \subseteq DOMAIN details
  BY <1>2, <1>3 DEF BootInv, RegistryConsistent
<1>5. details \in [DOMAIN details -> Detail]
  BY DEF BootInv, Shape
<1>6. ASSUME NEW x \in DOMAIN details'
      PROVE  /\ details'[x] \in Detail /\ details'[x].key = details[x].key
             /\ details'[x].expires = details[x].expires
             /\ x = i \/ details[x].claimed => details'[x].claimed
  <2>1. details[x] \in Detail
    BY <1>4, <1>5
  <2>2. CASE x = i
    <3>1. details'[x] = [details[x] EXCEPT !.claimed = TRUE]
      BY <1>3, <1>4, <2>2
    <3> QED
      BY Zenon, <2>1, <2>2, <3>1 DEF Detail
  <2>3. CASE x # i
    <3>1. details'[x] = details[x]
      BY <1>3, <1>4, <2>3
    <3> QED
      BY <2>1, <2>3, <3>1 DEF Detail
  <2> QED
    BY <2>2, <2>3
<1>7. details' \in [DOMAIN details' -> Detail]
  BY <1>3, <1>4, <1>6
<1>8. P \cap active' = {} /\ active' \subseteq DOMAIN pending \cup active
  BY <1>2, <1>3 DEF BootInv, RegistryConsistent
<1>9. /\ RegistryConsistent' /\ Linked' /\ Fences' /\ PendingFenced'
      /\ pending' \in [DOMAIN pending' -> Time] /\ used' \in [DOMAIN used' -> Int]
      /\ DOMAIN used' \subseteq Keys /\ IsFiniteSet(DOMAIN used')
      /\ Cardinality(DOMAIN pending') <= PendingLimit
      /\ Cardinality(DOMAIN used') <= ReplayLimit
  BY <1>2, <1>3, <1>4, <1>6, <1>7, <1>8, ShrinkKeepsRegistry
<1>10. i \in Ids /\ i \in DOMAIN issued
  BY <1>3, FiniteRegistry DEF BootInv, Linked
<1>11. claims \in [Ids -> Nat]
  BY DEF BootInv, Shape
<1>12. claims[i] = 0
  BY <1>3, <1>10 DEF BootInv, ClaimsMarked
<1>13. claims' \in [Ids -> Nat] /\ claims'[i] = 1 /\ \A x \in Ids \ {i} : claims'[x] = claims[x]
  BY <1>3, <1>10, <1>11, <1>12
<1>14. Shape'
  BY Zenon, <1>3, <1>7, <1>9, <1>13 DEF BootInv, Shape
<1>15. LaterIssuesLate' /\ ActivatedIssuedInTime'
  BY <1>3 DEF BootInv, LaterIssuesLate, ActivatedIssuedInTime
<1>16. ASSUME NEW x \in Ids
       PROVE  /\ claims'[x] <= 1
              /\ claims'[x] # 0 => x \in DOMAIN issued' /\ (x \in DOMAIN details' => details'[x].claimed)
  <2>1. CASE x = i
    <3>1. x \in DOMAIN issued' /\ claims'[x] = 1
      BY <1>3, <1>10, <1>13, <2>1
    <3>2. x \in DOMAIN details' => details'[x].claimed
      BY <1>6, <2>1
    <3> QED
      BY <3>1, <3>2
  <2>2. CASE x # i
    <3>1. claims'[x] = claims[x]
      BY <1>13, <2>2
    <3>2. x \in DOMAIN details' /\ details[x].claimed => details'[x].claimed
      BY <1>6
    <3> QED
      BY <1>3, <1>4, <3>1, <3>2 DEF BootInv, ClaimsMarked
  <2> QED
    BY <2>1, <2>2
<1>17. ClaimsMarked'
  BY <1>16 DEF ClaimsMarked
<1>18. WithinLimits'
  BY <1>3, <1>9 DEF BootInv, WithinLimits
<1> QED
  BY <1>9, <1>14, <1>15, <1>17, <1>18 DEF BootInv

(* Activation: the session moves from pending to active, and its ticket    *)
(* was valid at a reading taken after the session was issued.              *)
LEMMA ConnectActivatesKeeps ==
  ASSUME BootInv, NEW p \in Callers, ConnectActivates(p), Calls'
  PROVE  BootInv'
<1> DEFINE i == call[p].id
           P == Kept(now) \ {i}
           U == KeptGrants(now)
<1>1. now \in Time /\ now <= now
  BY DEF BootInv, Shape, Time
<1>2. /\ Kept(now) \in SUBSET DOMAIN pending /\ U \in SUBSET DOMAIN used
      /\ KeptDetails(now) = Kept(now) \cup active
      /\ \A k \in DOMAIN used \ U : used[k] <= now
      /\ \A id \in Kept(now) : details[id].key # NoKey => details[id].key \in U
  BY <1>1, KeptFacts
<1>3. /\ pending' = Restrict(pending, P) /\ used' = Restrict(used, U)
      /\ active' = active \cup {i} /\ activated' = activated \cup {i}
      /\ details' = Restrict(details, Kept(now) \cup active)
      /\ i \in Kept(now) /\ ActiveRoom
      /\ UNCHANGED <<now, next_id, issued, claims>>
  BY <1>2 DEF ConnectActivates, Activate, MayActivate
<1>4. /\ P \in SUBSET DOMAIN pending /\ Kept(now) \cup active = P \cup active'
      /\ \A id \in P : details[id].key # NoKey => details[id].key \in U
  BY <1>2, <1>3
<1>5. P \cap active' = {} /\ active' \subseteq DOMAIN pending \cup active
  BY <1>2, <1>3 DEF BootInv, RegistryConsistent
<1>6. i \in DOMAIN pending /\ i \in DOMAIN details /\ i \in DOMAIN issued /\ i \notin active
  BY <1>2, <1>3 DEF BootInv, RegistryConsistent, Linked
<1> HIDE DEF P, U, i
<1>7. DOMAIN details' = P \cup active' /\ DOMAIN details' \subseteq DOMAIN details
      /\ \A id \in DOMAIN details' : details'[id] = details[id]
  BY <1>2, <1>3, <1>4 DEF Restrict, BootInv, RegistryConsistent
<1>8. details' \in [DOMAIN details' -> Detail]
  BY <1>3, <1>7 DEF BootInv, Shape, Restrict
<1>9. /\ RegistryConsistent' /\ Linked' /\ Fences' /\ PendingFenced'
      /\ pending' \in [DOMAIN pending' -> Time] /\ used' \in [DOMAIN used' -> Int]
      /\ DOMAIN used' \subseteq Keys /\ IsFiniteSet(DOMAIN used')
      /\ Cardinality(DOMAIN pending') <= PendingLimit
      /\ Cardinality(DOMAIN used') <= ReplayLimit
  BY Zenon, <1>2, <1>3, <1>4, <1>5, <1>7, <1>8, ShrinkKeepsRegistry
<1>10. Shape'
  BY Zenon, <1>3, <1>6, <1>8, <1>9 DEF BootInv, Shape
<1>11. LaterIssuesLate'
  BY <1>3 DEF BootInv, LaterIssuesLate
<1>12. issued[i].key # NoKey => issued[i].at < Expiry[issued[i].key]
  <2> SUFFICES ASSUME issued[i].key # NoKey PROVE issued[i].at < Expiry[issued[i].key]
    OBVIOUS
  <2> DEFINE k == issued[i].key
             w == call[p].wall
  <2>1. details[i].key = k
    BY <1>6 DEF BootInv, Linked
  <2>2. ~ Lapsed(i, w)
    BY <1>6 DEF ConnectActivates, MayActivate, i
  <2>3. ~ (Expiry[k] <= Seconds(w))
    BY <2>1, <2>2 DEF Lapsed
  <2>4. issued[i] \in [key : Ticket, at : Time]
    BY <1>6 DEF BootInv, Shape
  <2>5. k \in Keys /\ issued[i].at \in Nat
    BY <2>4 DEF Ticket, Time
  <2>6. call[p] \in Call /\ CallAt(call[p], now, issued) /\ call[p].step = "connect"
    BY DEF BootInv, Calls, ConnectActivates, At
  <2>7. w \in Nat /\ issued[i].at <= w
    BY <2>6 DEF Call, CallAt, Time, i
  <2>8. Expiry[k] \in Nat
    BY <2>5, ExpiryAssumption
  <2> HIDE DEF k, w
  <2>9. Seconds(w) \in Int /\ (Expiry[k] > Seconds(w) => Expiry[k] > w)
    BY <2>5, <2>7, SecondsFacts
  <2>10. Expiry[k] > w
    BY <2>3, <2>8, <2>9
  <2> QED
    BY <2>5, <2>7, <2>8, <2>10 DEF k
<1>13. ActivatedIssuedInTime'
  BY <1>3, <1>12 DEF BootInv, ActivatedIssuedInTime
<1>14. ClaimsMarked'
  BY <1>3, <1>7 DEF BootInv, ClaimsMarked
<1>15. Cardinality(active') <= ActiveLimit
  <2>1. IsFiniteSet(active)
    BY FiniteRegistry
  <2>2. Cardinality(active \cup {i}) = Cardinality(active) + 1 /\ Cardinality(active) \in Nat
    BY <1>6, <2>1, FS_AddElement, FS_CardinalityType
  <2> QED
    BY <1>3, <2>2, BoundAssumption DEF ActiveRoom
<1>16. WithinLimits'
  BY <1>9, <1>15 DEF WithinLimits
<1> QED
  BY <1>9, <1>10, <1>11, <1>13, <1>14, <1>16 DEF BootInv

(* Deactivation drops the session and keeps the fence.                     *)
LEMMA DisconnectedKeeps ==
  ASSUME BootInv, NEW i \in DOMAIN issued, ClientDisconnected(i)
  PROVE  BootInv'
<1> DEFINE P == DOMAIN pending \ {i}
           U == DOMAIN used
<1>1. /\ pending' = Restrict(pending, P) /\ used' = used /\ active' = active \ {i}
      /\ details' = Restrict(details, DOMAIN details \ {i})
      /\ UNCHANGED <<now, next_id, call, issued, activated, claims>>
  BY DEF ClientDisconnected, Deactivate
<1>2. used' = Restrict(used, U)
  BY <1>1 DEF BootInv, Shape, Restrict
<1>3. DOMAIN details \ {i} = P \cup active'
  BY <1>1 DEF BootInv, RegistryConsistent
<1>4. P \cap active' = {} /\ active' \subseteq DOMAIN pending \cup active
  BY <1>1 DEF BootInv, RegistryConsistent
<1>5. \A id \in P : details[id].key # NoKey => details[id].key \in U
  BY DEF BootInv, PendingFenced
<1>6. P \in SUBSET DOMAIN pending /\ U \in SUBSET DOMAIN used
      /\ \A k \in DOMAIN used \ U : used[k] <= now
  OBVIOUS
<1> HIDE DEF P, U
<1>7. DOMAIN details' = P \cup active' /\ DOMAIN details' \subseteq DOMAIN details
      /\ \A id \in DOMAIN details' : details'[id] = details[id]
  BY <1>1, <1>3 DEF Restrict
<1>8. details' \in [DOMAIN details' -> Detail]
  BY <1>1, <1>7 DEF BootInv, Shape, Restrict
<1>9. /\ RegistryConsistent' /\ Linked' /\ Fences' /\ PendingFenced'
      /\ pending' \in [DOMAIN pending' -> Time] /\ used' \in [DOMAIN used' -> Int]
      /\ DOMAIN used' \subseteq Keys /\ IsFiniteSet(DOMAIN used')
      /\ Cardinality(DOMAIN pending') <= PendingLimit
      /\ Cardinality(DOMAIN used') <= ReplayLimit
  BY Zenon, <1>1, <1>2, <1>4, <1>5, <1>6, <1>7, <1>8, ShrinkKeepsRegistry
<1>10. Shape' /\ Calls'
  BY Zenon, <1>1, <1>8, <1>9 DEF BootInv, Shape, Calls
<1>11. LaterIssuesLate' /\ ActivatedIssuedInTime'
  BY <1>1 DEF BootInv, LaterIssuesLate, ActivatedIssuedInTime
<1>12. ClaimsMarked'
  BY Zenon, <1>1, <1>7 DEF BootInv, ClaimsMarked
<1>13. Cardinality(active') <= ActiveLimit
  <2>1. IsFiniteSet(active) /\ Cardinality(active) <= ActiveLimit
    BY FiniteRegistry DEF BootInv, WithinLimits
  <2>2. active' \in SUBSET active
    BY <1>1
  <2>3. IsFiniteSet(active') /\ Cardinality(active') <= Cardinality(active)
    BY <2>1, <2>2, FS_Subset
  <2>4. Cardinality(active') \in Nat /\ Cardinality(active) \in Nat
    BY <2>1, <2>3, FS_CardinalityType
  <2> QED
    BY <2>1, <2>3, <2>4, BoundAssumption
<1>14. WithinLimits'
  BY <1>9, <1>13 DEF WithinLimits
<1> QED
  BY <1>9, <1>10, <1>11, <1>12, <1>14 DEF BootInv

(* The passing of time invalidates nothing.                                *)
LEMMA TickKeeps ==
  ASSUME BootInv, Tick
  PROVE  BootInv'
<1>1. /\ now' = now + 1 /\ now < MaxTime
      /\ UNCHANGED <<next_id, pending, active, details, used, call, issued, activated, claims>>
  BY DEF Tick, registry
<1>2. now \in Nat /\ now' \in Time
  BY <1>1, BoundAssumption DEF BootInv, Shape, Time
<1>3. ASSUME NEW id \in DOMAIN issued PROVE issued'[id].at <= now'
  <2>1. issued[id].at \in Nat /\ issued[id].at <= now
    BY DEF BootInv, Shape, Time
  <2> QED
    BY <1>1, <1>2, <2>1
<1>4. Shape'
  BY <1>1, <1>2, <1>3 DEF BootInv, Shape
<1>5. ASSUME NEW q \in Callers PROVE CallAt(call'[q], now', issued')
  <2>1. call[q] \in Call /\ CallAt(call[q], now, issued)
    BY DEF BootInv, Calls
  <2>2. call[q].wall \in Nat /\ call[q].mono \in Nat
    BY <2>1 DEF Call, Time
  <2> QED
    BY <1>1, <1>2, <2>1, <2>2 DEF CallAt
<1>6. Calls'
  BY <1>1, <1>5 DEF BootInv, Calls
<1>7. ASSUME NEW id \in DOMAIN issued, issued[id].key # NoKey
      PROVE  issued[id].key \in DOMAIN used \/ Expiry[issued[id].key] <= now'
  <2>1. issued[id].key \in Keys
    BY <1>7 DEF BootInv, Shape, Ticket
  <2>2. Expiry[issued[id].key] \in Nat
    BY <2>1, ExpiryAssumption
  <2>3. issued[id].key \in DOMAIN used \/ Expiry[issued[id].key] <= now
    BY <1>7 DEF BootInv, Fences
  <2> QED
    BY <1>1, <1>2, <2>2, <2>3
<1>8. Fences'
  BY <1>1, <1>7 DEF BootInv, Fences
<1>9. RegistryConsistent' /\ Linked' /\ PendingFenced'
  BY <1>1 DEF BootInv, RegistryConsistent, Linked, PendingFenced
<1>10. LaterIssuesLate' /\ ActivatedIssuedInTime' /\ ClaimsMarked' /\ WithinLimits'
  BY <1>1 DEF BootInv, LaterIssuesLate, ActivatedIssuedInTime, ClaimsMarked, WithinLimits
<1> QED
  BY <1>4, <1>6, <1>8, <1>9, <1>10 DEF BootInv

-----------------------------------------------------------------------------
(* Admission: the one step that adds a session.                            *)
LEMMA AdmittedKeeps ==
  ASSUME BootInv, NEW p \in Callers, CreateAdmitted(p), Calls'
  PROVE  BootInv'
<1> DEFINE i == next_id
           t == call[p].mono
           w == call[p].wall
           P == Kept(t)
           U == KeptGrants(t)
<1>1. /\ call[p] \in Call /\ CallAt(call[p], now, issued) /\ call[p].step = "create_locks"
      /\ now \in Time
  BY DEF BootInv, Calls, Shape, CreateAdmitted, At
<1>2. t \in Time /\ w \in Nat /\ t \in Nat /\ w <= t /\ t <= now /\ now \in Nat
  BY <1>1 DEF Call, CallAt, Time
<1>3. /\ P \in SUBSET DOMAIN pending /\ U \in SUBSET DOMAIN used
      /\ KeptDetails(t) = P \cup active
      /\ \A k \in DOMAIN used \ U : used[k] <= now
      /\ \A id \in P : details[id].key # NoKey => details[id].key \in U
  BY <1>2, KeptFacts
<1>4. PICK k \in Keys \cup {NoKey} :
        /\ Admissible(k, w, t)
        /\ Insert(i, k, IF k = NoKey THEN Never ELSE FenceEnd(k, w, t), t)
        /\ issued' = [x \in DOMAIN issued \cup {i} |->
                        IF x = i THEN [key |-> k, at |-> now] ELSE issued[x]]
  BY Zenon DEF CreateAdmitted
<1>5. /\ ~ Full(t) /\ ~ Exhausted /\ next_id' = i + 1
      /\ UNCHANGED <<now, activated, claims>>
  BY DEF CreateAdmitted
<1>6. PICK e \in Int : /\ e = (IF k = NoKey THEN Never ELSE FenceEnd(k, w, t))
                       /\ k # NoKey => e # Never /\ e >= Expiry[k]
  <2>1. CASE k = NoKey
    BY <2>1 DEF Never
  <2>2. CASE k # NoKey
    <3>1. k \in Keys
      BY <1>4, <2>2
    <3> QED
      BY <1>2, <2>2, <3>1, FenceEndFacts
  <2> QED
    BY <2>1, <2>2
<1>7. /\ pending' = [x \in P \cup {i} |-> IF x = i THEN t ELSE pending[x]]
      /\ details' = [x \in P \cup active \cup {i} |->
                       IF x = i THEN [key |-> k, expires |-> e, claimed |-> FALSE] ELSE details[x]]
      /\ used' = [x \in U \cup ({k} \ {NoKey}) |-> IF x = k THEN e ELSE used[x]]
      /\ active' = active
  BY <1>3, <1>4, <1>6 DEF Insert
<1>8. k # NoKey => k \in Keys /\ k \notin U /\ Cardinality(U) < ReplayLimit
  BY <1>4 DEF Admissible
<1>9. i \in 0 .. MaxId /\ i \in Ids /\ i \notin DOMAIN issued /\ i + 1 \in 0 .. MaxId
  BY <1>5, BoundAssumption DEF BootInv, Shape, Exhausted, Ids
<1>10. /\ DOMAIN details \subseteq DOMAIN issued /\ DOMAIN details = DOMAIN pending \cup active
       /\ i \notin DOMAIN details /\ i \notin P /\ i \notin active /\ P \cap active = {}
  BY <1>3, <1>9 DEF BootInv, Linked, RegistryConsistent
<1>11. ~ (Cardinality(P) >= PendingLimit)
  BY <1>5 DEF Full
<1> HIDE DEF i, t, w, P, U
<1>12. /\ DOMAIN pending' = P \cup {i} /\ DOMAIN details' = P \cup active \cup {i}
       /\ DOMAIN used' = U \cup ({k} \ {NoKey}) /\ DOMAIN issued' = DOMAIN issued \cup {i}
  BY Zenon, <1>4, <1>7
<1>13. /\ details'[i] = [key |-> k, expires |-> e, claimed |-> FALSE]
       /\ \A x \in P \cup active : details'[x] = details[x] /\ x \in DOMAIN details
  BY <1>3, <1>7, <1>10
<1>14. /\ issued'[i] = [key |-> k, at |-> now]
       /\ \A x \in DOMAIN issued : issued'[x] = issued[x] /\ x # i
  BY <1>4, <1>9
<1>15. /\ k # NoKey => used'[k] = e
       /\ \A x \in U : x # k => used'[x] = used[x]
  BY <1>7
<1>16. \A x \in U : x # k /\ x # NoKey /\ used'[x] = used[x]
  <2>1. NoKey \notin U
    BY <1>3, KeyAssumption DEF BootInv, Shape
  <2> QED
    BY <1>8, <1>15, <2>1
<1>17. details'[i].key = k /\ details'[i].expires = e /\ issued'[i].key = k /\ issued'[i].at = now
  BY <1>13, <1>14
<1>18. k \in Ticket /\ details'[i] \in Detail /\ issued'[i] \in [key : Ticket, at : Time]
  <2>1. k \in Ticket
    BY <1>4 DEF Ticket
  <2> QED
    BY <1>1, <1>6, <1>13, <1>14, <2>1 DEF Detail
<1>19. Shape'
  <2>1. pending' \in [DOMAIN pending' -> Time]
    BY <1>2, <1>3, <1>7, <1>12 DEF BootInv, Shape, t
  <2>2. active' \subseteq activated' /\ activated' \subseteq DOMAIN issued'
    BY <1>5, <1>7, <1>12 DEF BootInv, Shape
  <2>3. DOMAIN issued' \subseteq 0 .. next_id' - 1
    BY <1>5, <1>9, <1>12 DEF BootInv, Shape, i
  <2>4. issued' \in [DOMAIN issued' -> [key : Ticket, at : Time]]
    <3>1. \A x \in DOMAIN issued' : issued'[x] \in [key : Ticket, at : Time]
      BY <1>12, <1>14, <1>18 DEF BootInv, Shape
    <3> QED
      BY Zenon, <1>4, <1>12, <3>1
  <2>5. \A id \in DOMAIN issued' : issued'[id].at <= now'
    BY <1>2, <1>5, <1>12, <1>14, <1>17 DEF BootInv, Shape
  <2>6. details' \in [DOMAIN details' -> Detail]
    <3>1. \A x \in DOMAIN details' : details'[x] \in Detail
      BY Zenon, <1>12, <1>13, <1>18 DEF BootInv, Shape
    <3> QED
      BY Zenon, <1>7, <1>12, <3>1
  <2>7. used' \in [DOMAIN used' -> Int]
    <3>1. \A x \in DOMAIN used' : used'[x] \in Int
      BY <1>3, <1>6, <1>12, <1>15, <1>16 DEF BootInv, Shape
    <3> QED
      BY Zenon, <1>7, <1>12, <3>1
  <2>8. DOMAIN used' \subseteq Keys
    BY <1>3, <1>8, <1>12 DEF BootInv, Shape
  <2>9. IsFiniteSet(DOMAIN used')
    <3>1. IsFiniteSet(U)
      BY <1>3, FS_Subset DEF BootInv, Shape
    <3>2. IsFiniteSet(U \cup {k})
      BY <3>1, FS_AddElement
    <3> QED
      BY <1>12, <3>2, FS_Subset
  <2> QED
    BY <1>1, <1>5, <1>9, <2>1, <2>2, <2>3, <2>4, <2>5, <2>6, <2>7, <2>8, <2>9 DEF BootInv, Shape
<1>20. RegistryConsistent'
  BY <1>7, <1>10, <1>12 DEF RegistryConsistent
<1>21. Linked'
  <2>1. ASSUME NEW x \in P \cup active
        PROVE  /\ x \in DOMAIN issued' /\ details'[x].key = issued'[x].key
               /\ details'[x].key # NoKey => details'[x].expires # Never
    <3>1. x \in DOMAIN details /\ details'[x] = details[x] /\ x \in DOMAIN issued
      BY <1>10, <1>13
    <3> QED
      BY <1>12, <1>14, <3>1 DEF BootInv, Linked
  <2> QED
    BY <1>6, <1>12, <1>17, <2>1 DEF Linked
(* a key that was used before and is not fenced any more has expired *)
<1>22. ASSUME NEW id \in DOMAIN issued, issued[id].key # NoKey, issued[id].key \notin U
       PROVE  Expiry[issued[id].key] <= now
  <2> DEFINE h == issued[id].key
  <2>1. CASE h \in DOMAIN used
    <3>1. used[h] <= now /\ used[h] >= Expiry[h] /\ used[h] \in Int /\ h \in Keys
      BY <1>3, <1>22, <2>1 DEF BootInv, Fences, Shape
    <3>2. Expiry[h] \in Nat
      BY <3>1, ExpiryAssumption
    <3> QED
      BY <1>2, <3>1, <3>2
  <2>2. CASE h \notin DOMAIN used
    BY <1>22, <2>2 DEF BootInv, Fences
  <2> QED
    BY <2>1, <2>2
<1>23. Fences'
  <2>1. \A x \in DOMAIN used' : used'[x] >= Expiry[x]
    BY <1>3, <1>6, <1>12, <1>15, <1>16 DEF BootInv, Fences
  <2>2. ASSUME NEW id \in DOMAIN issued', issued'[id].key # NoKey
        PROVE  issued'[id].key \in DOMAIN used' \/ Expiry[issued'[id].key] <= now'
    <3>1. CASE id = i
      BY <1>12, <1>17, <2>2, <3>1
    <3>2. CASE id # i
      <4>1. id \in DOMAIN issued /\ issued'[id] = issued[id]
        BY <1>12, <1>14, <3>2
      <4> QED
        BY <1>5, <1>12, <1>22, <2>2, <4>1
    <3> QED
      BY <3>1, <3>2
  <2> QED
    BY <2>1, <2>2 DEF Fences
<1>24. PendingFenced'
  <2>1. \A a \in P : a \in DOMAIN pending /\ details'[a] = details[a] /\ a # i
    BY <1>3, <1>10, <1>13
  <2>2. \A a \in P : details[a].key # NoKey => details[a].key \in U /\ details[a].key # k
    BY <1>3, <1>16
  <2>3. ASSUME NEW a \in P, details'[a].key # NoKey
        PROVE  /\ details'[a].key \in DOMAIN used' /\ used'[details'[a].key] = details'[a].expires
               /\ \A b \in DOMAIN pending' : details'[b].key = details'[a].key => a = b
    <3>1. details[a].key \in U /\ details[a].key # k /\ used[details[a].key] = details[a].expires
      BY <2>1, <2>2, <2>3 DEF BootInv, PendingFenced
    <3>2. \A b \in P : details'[b].key = details'[a].key => a = b
      BY <2>1, <2>3 DEF BootInv, PendingFenced
    <3> QED
      BY <1>12, <1>16, <1>17, <2>1, <3>1, <3>2
  <2>4. ASSUME k # NoKey
        PROVE  /\ k \in DOMAIN used' /\ used'[k] = e
               /\ \A b \in P : details'[b].key # k
    BY <1>12, <1>15, <2>1, <2>2, <2>4
  <2> QED
    BY <1>12, <1>17, <2>3, <2>4 DEF PendingFenced
<1>25. LaterIssuesLate'
  <2> SUFFICES ASSUME NEW a \in DOMAIN issued', NEW b \in DOMAIN issued', a < b,
                      issued'[a].key = issued'[b].key, issued'[b].key # NoKey
               PROVE  Expiry[issued'[b].key] <= issued'[b].at
    BY DEF LaterIssuesLate
  <2>1. a \in DOMAIN issued
    BY <1>9, <1>12 DEF BootInv, Shape, i
  <2>2. CASE b = i
    <3>1. issued[a].key = k /\ k # NoKey
      BY <1>14, <1>17, <2>1, <2>2
    <3>2. Expiry[k] <= now
      BY <1>8, <1>22, <2>1, <3>1
    <3> QED
      BY <1>17, <2>2, <3>2
  <2>3. CASE b # i
    <3>1. b \in DOMAIN issued
      BY <1>12, <2>3
    <3> QED
      BY <1>14, <2>1, <3>1 DEF BootInv, LaterIssuesLate
  <2> QED
    BY <2>2, <2>3
<1>26. ActivatedIssuedInTime'
  BY <1>5, <1>14 DEF BootInv, ActivatedIssuedInTime, Shape
<1>27. ClaimsMarked'
  <2> SUFFICES ASSUME NEW x \in Ids
               PROVE  /\ claims[x] <= 1
                      /\ claims[x] # 0 => x \in DOMAIN issued'
                                          /\ (x \in DOMAIN details' => details'[x].claimed)
    BY <1>5 DEF ClaimsMarked
  <2>1. /\ claims[x] <= 1
        /\ claims[x] # 0 => x \in DOMAIN issued /\ (x \in DOMAIN details => details[x].claimed)
    BY DEF BootInv, ClaimsMarked
  <2> QED
    BY <1>9, <1>12, <1>13, <2>1
<1>28. WithinLimits'
  <2>1. IsFiniteSet(P) /\ IsFiniteSet(U)
    BY <1>3, FiniteRegistry, FS_Subset DEF BootInv, Shape
  <2>2. Cardinality(P \cup {i}) = Cardinality(P) + 1 /\ Cardinality(P) \in Nat
    BY <1>10, <2>1, FS_AddElement, FS_CardinalityType
  <2>3. Cardinality(DOMAIN pending') <= PendingLimit
    BY <1>11, <1>12, <2>2, BoundAssumption
  <2>4. Cardinality(DOMAIN used') <= ReplayLimit
    <3>1. CASE k = NoKey
      <4>1. DOMAIN used' = U
        BY <1>12, <3>1
      <4>2. Cardinality(U) <= Cardinality(DOMAIN used) /\ Cardinality(DOMAIN used) <= ReplayLimit
        BY <1>3, FS_Subset DEF BootInv, Shape, WithinLimits
      <4>3. Cardinality(U) \in Nat /\ Cardinality(DOMAIN used) \in Nat
        BY <2>1, FS_CardinalityType DEF BootInv, Shape
      <4> QED
        BY <4>1, <4>2, <4>3, BoundAssumption
    <3>2. CASE k # NoKey
      <4>1. DOMAIN used' = U \cup {k}
        BY <1>12, <3>2
      <4>2. Cardinality(U \cup {k}) = Cardinality(U) + 1 /\ Cardinality(U) \in Nat
        BY Zenon, <1>8, <2>1, <3>2, FS_AddElement, FS_CardinalityType
      <4> QED
        BY <1>8, <3>2, <4>1, <4>2, BoundAssumption
    <3> QED
      BY <3>1, <3>2
  <2> QED
    BY <1>7, <2>3, <2>4 DEF BootInv, WithinLimits
<1> QED
  BY <1>19, <1>20, <1>21, <1>23, <1>24, <1>25, <1>26, <1>27, <1>28 DEF BootInv

-----------------------------------------------------------------------------
(* Every step of a call keeps the invariant.                               *)
LEMMA CallStepKeeps ==
  ASSUME BootInv, NEW p \in Callers, CallStep(p)
  PROVE  BootInv'
<1> DEFINE c == call[p]
<1>1. now \in Time /\ now \in Nat /\ now <= now /\ next_id \in 0 .. MaxId
  BY DEF BootInv, Shape, Time
<1>2. Idle \in Call /\ \A sessions : CallAt(Idle, now, sessions)
  BY <1>1, IdleCall
<1>2a. Idle.mono = 0 /\ DOMAIN Idle = {"step", "id", "wall", "mono"}
  BY DEF Idle
<1>3. c \in Call /\ CallAt(c, now, issued)
  BY DEF BootInv, Calls
<1>4. c.mono \in Time /\ c.mono <= now /\ c.wall <= now
  BY <1>3 DEF Call, CallAt
<1>5. ASSUME NEW d \in Call, CallAt(d, now, issued), Becomes(p, d), UNCHANGED <<now, issued>>
      PROVE  Calls'
  BY Zenon, <1>5, CallsKept DEF Becomes
<1>6. ASSUME Becomes(p, Idle), UNCHANGED <<now, issued>> PROVE Calls'
  BY <1>2, <1>5, <1>6
<1> HIDE DEF c
<1>7. CASE CreateSession(p)
  <2> DEFINE d == [Idle EXCEPT !.step = "create", !.wall = now]
  <2>1. d.step = "create" /\ d.wall = now /\ d.mono = 0
    BY <1>2a
  <2>2. d \in Call
    BY Zenon, <1>1, <1>2 DEF Call, Steps
  <2>3. CallAt(d, now, issued)
    <3> HIDE DEF d
    <3> QED
      BY <1>1, <2>1 DEF CallAt
  <2>4. Calls'
    BY <1>5, <1>7, <2>2, <2>3 DEF CreateSession
  <2> QED
    BY <1>7, <2>4, CallOnly DEF CreateSession
<1>8. CASE CreateReadsInstant(p)
  <2> DEFINE d == [c EXCEPT !.step = "create_locks", !.mono = now]
  <2>1. d \in Call
    BY Zenon, <1>1, <1>3 DEF Call, Steps
  <2>2. d.step = "create_locks" /\ d.mono = now /\ d.wall = c.wall
    BY <1>3 DEF Call
  <2>3. CallAt(d, now, issued)
    <3> HIDE DEF d
    <3> QED
      BY <1>1, <1>4, <2>2 DEF CallAt
  <2>4. Calls'
    BY <1>5, <1>8, <2>1, <2>3 DEF CreateReadsInstant, c
  <2> QED
    BY <1>8, <2>4, CallOnly DEF CreateReadsInstant
<1>9. CASE CreateRefused(p)
  <2>1. next_id' \in 0 .. MaxId /\ next_id <= next_id'
    BY <1>1, <1>9 DEF CreateRefused
  <2> QED
    BY Zenon, <1>1, <1>4, <1>6, <1>9, <2>1, CleanupKeeps DEF CreateRefused, c
<1>10. CASE CreateAdmitted(p)
  <2>1. PICK k : issued' = [x \in DOMAIN issued \cup {next_id} |->
                              IF x = next_id THEN [key |-> k, at |-> now] ELSE issued[x]]
    BY Zenon, <1>10 DEF CreateAdmitted
  <2>2. next_id \notin DOMAIN issued
    BY <1>1 DEF BootInv, Shape
  <2>3. \A id \in DOMAIN issued : id \in DOMAIN issued' /\ issued'[id] = issued[id]
    BY <2>1, <2>2
  <2>4. Calls'
    BY Zenon, <1>2, <1>10, <2>3, CallsKept DEF CreateAdmitted, Becomes
  <2> QED
    BY <1>10, <2>4, AdmittedKeeps
<1>11. CASE CreateRejected(p)
  <2>1. next_id' \in 0 .. MaxId /\ next_id <= next_id'
    BY <1>1, <1>11, BoundAssumption DEF CreateRejected, Exhausted
  <2> QED
    BY Zenon, <1>1, <1>4, <1>6, <1>11, <2>1, CleanupKeeps DEF CreateRejected, c
<1>12. ASSUME NEW i \in DOMAIN issued, NEW s \in {"offer", "connect"},
              Becomes(p, [Idle EXCEPT !.step = s, !.id = i, !.wall = now]),
              UNCHANGED <<now, issued>>
       PROVE  Calls'
  <2> DEFINE d == [Idle EXCEPT !.step = s, !.id = i, !.wall = now]
  <2>1. d.step = s /\ d.id = i /\ d.wall = now /\ d.mono = 0
    BY <1>2a
  <2>2. i \in Nat /\ issued[i].at <= now
    BY DEF BootInv, Shape
  <2>3. s \in Steps /\ s # "create_locks" /\ 0 \in Time
    BY BoundAssumption DEF Steps, Time
  <2>4. d \in Call
    BY Zenon, <1>1, <1>2, <2>2, <2>3 DEF Call
  <2>6. CallAt(d, now, issued)
    <3> HIDE DEF d
    <3> QED
      BY <1>1, <2>1, <2>2, <2>3 DEF CallAt
  <2> QED
    BY <1>5, <1>12, <2>4, <2>6
<1>13. CASE AcceptOffer(p)
  <2>1. PICK i \in DOMAIN issued : Becomes(p, [Idle EXCEPT !.step = "offer", !.id = i, !.wall = now])
    BY Zenon, <1>13 DEF AcceptOffer
  <2>2. Calls'
    BY Zenon, <1>12, <1>13, <2>1 DEF AcceptOffer
  <2> QED
    BY <1>13, <2>2, CallOnly DEF AcceptOffer
<1>14. CASE OfferClaims(p)
  <2> DEFINE d == [c EXCEPT !.step = "build"]
  <2>1. d \in Call
    BY <1>3 DEF Call, Steps
  <2>2. d.step = "build" /\ d.mono = c.mono /\ d.wall = c.wall /\ d.id = c.id
    BY <1>3 DEF Call
  <2>3. c.step = "offer"
    BY <1>14 DEF OfferClaims, At, c
  <2>4. CallAt(d, now, issued)
    <3> HIDE DEF d
    <3> QED
      BY <1>3, <2>2, <2>3 DEF CallAt
  <2>5. Calls'
    BY <1>5, <1>14, <2>1, <2>4 DEF OfferClaims, c
  <2> QED
    BY <1>14, <2>5, OfferClaimsKeeps
<1>15. CASE OfferRefused(p)
  BY <1>1, <1>6, <1>15, CleanupKeeps DEF OfferRefused
<1>16. CASE OfferBuilds(p)
  BY <1>6, <1>16, CallOnly DEF OfferBuilds
<1>17. CASE ClientConnected(p)
  <2>1. PICK i \in DOMAIN issued : Becomes(p, [Idle EXCEPT !.step = "connect", !.id = i, !.wall = now])
    BY Zenon, <1>17 DEF ClientConnected
  <2>2. Calls'
    BY Zenon, <1>12, <1>17, <2>1 DEF ClientConnected
  <2> QED
    BY <1>17, <2>2, CallOnly DEF ClientConnected
<1>18. CASE ConnectActivates(p)
  <2>1. Calls'
    BY <1>6, <1>18 DEF ConnectActivates
  <2> QED
    BY <1>18, <2>1, ConnectActivatesKeeps
<1>19. CASE ConnectRefused(p)
  BY <1>1, <1>6, <1>19, CleanupKeeps DEF ConnectRefused
<1> QED
  BY <1>7, <1>8, <1>9, <1>10, <1>11, <1>13, <1>14, <1>15, <1>16, <1>17, <1>18, <1>19 DEF CallStep

(* Every step of the service keeps the invariant.                          *)
LEMMA StepKeeps ==
  ASSUME BootInv, [Next]_vars
  PROVE  BootInv'
<1>1. CASE Tick
  BY <1>1, TickKeeps
<1>2. CASE CleanupSessions
  <2>1. now \in Time /\ now <= now /\ next_id \in 0 .. MaxId /\ next_id <= next_id
    BY DEF BootInv, Shape, Time
  <2>2. Calls'
    BY <1>2 DEF CleanupSessions, BootInv, Calls
  <2> QED
    BY <1>2, <2>1, <2>2, CleanupKeeps DEF CleanupSessions
<1>3. CASE \E p \in Callers : CallStep(p)
  BY <1>3, CallStepKeeps
<1>4. CASE \E id \in DOMAIN issued : ClientDisconnected(id)
  BY <1>4, DisconnectedKeeps
<1>5. CASE UNCHANGED vars
  <2>1. Calls'
    BY <1>5 DEF vars, BootInv, Calls
  <2> QED
    BY <1>5, <2>1, CallOnly DEF vars, registry
<1> QED
  BY <1>1, <1>2, <1>3, <1>4, <1>5 DEF Next

(* An empty registry satisfies it.                                         *)
LEMMA InitKeeps ==
  ASSUME Init
  PROVE  BootInv
<1>1. /\ now = 0 /\ next_id = 0 /\ active = {} /\ activated = {}
      /\ DOMAIN pending = {} /\ DOMAIN details = {} /\ DOMAIN used = {} /\ DOMAIN issued = {}
  BY DEF Init, Empty
<1>2. claims \in [Ids -> Nat] /\ \A id \in Ids : claims[id] = 0
  BY DEF Init
<1>3. Shape
  <2>1. /\ pending \in [DOMAIN pending -> Time] /\ details \in [DOMAIN details -> Detail]
        /\ used \in [DOMAIN used -> Int]
        /\ issued \in [DOMAIN issued -> [key : Ticket, at : Time]]
    BY DEF Init, Empty
  <2> QED
    BY <1>1, <1>2, <2>1, BoundAssumption, FS_EmptySet DEF Shape, Time
<1>4. Calls
  <2>1. Idle \in Call /\ \A sessions : CallAt(Idle, now, sessions)
    BY <1>3, IdleCall DEF Shape
  <2> QED
    BY <2>1 DEF Init, Calls
<1>5. RegistryConsistent /\ Linked /\ Fences /\ PendingFenced
  BY <1>1 DEF RegistryConsistent, Linked, Fences, PendingFenced
<1>6. LaterIssuesLate /\ ActivatedIssuedInTime /\ ClaimsMarked
  BY <1>1, <1>2 DEF LaterIssuesLate, ActivatedIssuedInTime, ClaimsMarked
<1>7. WithinLimits
  BY <1>1, BoundAssumption, FS_EmptySet DEF WithinLimits
<1> QED
  BY <1>3, <1>4, <1>5, <1>6, <1>7 DEF BootInv

-----------------------------------------------------------------------------
(* The inductive invariant holds in every reachable state.                 *)
THEOREM BootInvariant == Spec => []BootInv
BY InitKeeps, StepKeeps, PTL DEF Spec

(* Types, and no identity past the allocator's last one.                   *)
THEOREM TypeCorrect == Spec => []TypeOK
<1>1. ASSUME BootInv PROVE TypeOK
  BY <1>1, FiniteRegistry DEF TypeOK, BootInv, Shape, Calls, Call, Detail
<1> QED
  BY <1>1, BootInvariant, PTL

(* pending, active and details always describe the same sessions, and no   *)
(* interleaving of calls exceeds the limits on them.                       *)
THEOREM RegistryHolds == Spec => []RegistrySound
<1>1. BootInv => RegistrySound
  BY DEF BootInv, RegistrySound
<1> QED
  BY <1>1, BootInvariant, PTL

(* The ticket of a pending session is fenced.                              *)
THEOREM PendingFencedHolds == Spec => []PendingFenced
<1>1. BootInv => PendingFenced
  BY DEF BootInv
<1> QED
  BY <1>1, BootInvariant, PTL

(* One admission ticket lets in at most one session, ever: of two sessions *)
(* of one ticket the later was issued after the ticket's expiry, and such  *)
(* a session is never activated.                                           *)
THEOREM TicketHolds == Spec => []TicketActivatesOnce
<1>1. ASSUME BootInv PROVE TicketActivatesOnce
  <2> SUFFICES ASSUME NEW a \in activated, NEW b \in activated,
                      issued[a].key = issued[b].key, issued[a].key # NoKey
               PROVE  a = b
    BY DEF TicketActivatesOnce
  <2>1. a \in DOMAIN issued /\ b \in DOMAIN issued /\ a \in Int /\ b \in Int
    BY <1>1 DEF BootInv, Shape
  <2>2. \A x \in {a, b} : issued[x].at \in Int /\ issued[x].key \in Keys
    BY <1>1, <2>1 DEF BootInv, Shape, Ticket, Time
  <2>3. \A x \in {a, b} : Expiry[issued[x].key] \in Int
    BY <2>2, ExpiryAssumption
  <2>4. \A x \in {a, b} : issued[x].at < Expiry[issued[x].key]
    BY <1>1 DEF BootInv, ActivatedIssuedInTime
  <2>5. ~ (a < b) /\ ~ (b < a)
    BY <1>1, <2>1, <2>2, <2>3, <2>4 DEF BootInv, LaterIssuesLate
  <2> QED
    BY <2>1, <2>5
<1> QED
  BY <1>1, BootInvariant, PTL

(* A session gets at most one RTC construction.                            *)
THEOREM ClaimHolds == Spec => []OfferClaimedOnce
<1>1. BootInv => OfferClaimedOnce
  BY DEF BootInv, ClaimsMarked, OfferClaimedOnce
<1> QED
  BY <1>1, BootInvariant, PTL

(* No step forgets a replay key before its ticket has expired: whatever a  *)
(* step drops had ended at a reading that is not from the future, and a    *)
(* fence never ends before its ticket.                                     *)
THEOREM FenceHolds == Spec => FenceOutlastsTicket
<1>1. ASSUME BootInv, [Next]_vars
      PROVE  [\A k \in DOMAIN used \ DOMAIN used' : Expiry[k] <= now]_vars
  <2>1. ASSUME NEW t \in Time, t <= now, KeptGrants(t) \subseteq DOMAIN used',
               NEW k \in DOMAIN used \ DOMAIN used'
        PROVE  Expiry[k] <= now
    <3>1. k \in DOMAIN used \ KeptGrants(t)
      BY <2>1
    <3>2. used[k] <= now
      BY <1>1, <2>1, <3>1, KeptFacts
    <3>3. used[k] \in Int /\ used[k] >= Expiry[k] /\ k \in Keys /\ now \in Int
      BY <1>1, <3>1 DEF BootInv, Shape, Fences, Time
    <3>4. Expiry[k] \in Nat
      BY <3>3, ExpiryAssumption
    <3> QED
      BY <3>2, <3>3, <3>4
  <2>2. now \in Time /\ now <= now
    BY <1>1 DEF BootInv, Shape, Time
  <2>3. ASSUME NEW t, CleanupAt(t) PROVE KeptGrants(t) \subseteq DOMAIN used'
    BY <2>3 DEF CleanupAt, Restrict
  <2>4. CASE used' = used
    BY <2>4
  <2>5. CASE CleanupSessions
    BY <2>1, <2>2, <2>3, <2>5 DEF CleanupSessions
  <2>6. ASSUME NEW p \in Callers, CallStep(p), used' # used
        PROVE  \E t \in Time : t <= now /\ KeptGrants(t) \subseteq DOMAIN used'
    <3>1. call[p].mono \in Time /\ call[p].mono <= now
      BY <1>1 DEF BootInv, Calls, Call, CallAt
    <3>2. CASE CreateRefused(p) \/ CreateRejected(p)
      BY <2>3, <3>1, <3>2 DEF CreateRefused, CreateRejected
    <3>3. CASE OfferRefused(p) \/ ConnectRefused(p)
      BY <2>2, <2>3, <3>3 DEF OfferRefused, ConnectRefused
    <3>4. CASE CreateAdmitted(p)
      <4>1. KeptGrants(call[p].mono) \subseteq DOMAIN used'
        BY Zenon, <3>4 DEF CreateAdmitted, Insert
      <4> QED
        BY <3>1, <4>1
    <3>5. CASE OfferClaims(p)
      BY <2>2, <3>5 DEF OfferClaims, Restrict
    <3>6. CASE ConnectActivates(p)
      BY Zenon, <2>2, <3>6 DEF ConnectActivates, Activate, Restrict
    <3>7. ~ (CreateSession(p) \/ CreateReadsInstant(p) \/ AcceptOffer(p) \/ OfferBuilds(p) \/ ClientConnected(p))
      BY Zenon, <2>6 DEF CreateSession, CreateReadsInstant, AcceptOffer, OfferBuilds, ClientConnected, registry
    <3> QED
      BY <2>6, <3>2, <3>3, <3>4, <3>5, <3>6, <3>7 DEF CallStep
  <2>7. CASE \E p \in Callers : CallStep(p)
    BY <2>1, <2>4, <2>6, <2>7
  <2>8. CASE Tick \/ (\E id \in DOMAIN issued : ClientDisconnected(id)) \/ UNCHANGED vars
    BY Zenon, <2>4, <2>8 DEF Tick, registry, ClientDisconnected, Deactivate, vars
  <2> QED
    BY <1>1, <2>5, <2>7, <2>8 DEF Next
<1> QED
  BY <1>1, BootInvariant, PTL DEF Spec, FenceOutlastsTicket
=============================================================================
