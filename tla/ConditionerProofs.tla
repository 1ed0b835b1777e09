------------------------- MODULE ConditionerProofs -------------------------
(***************************************************************************)
(* The client's conditioner, for any configurations, durations, sizes and  *)
(* bounds: its queues are sound, it delivers nothing that was offered      *)
(* before the latest change, nothing passes during an outage, and outages  *)
(* are reported as they happen.                                            *)
(***************************************************************************)
EXTENDS Conditioner, PacketConditionerProofs

Packet == [due : Nat, bytes : Sizes, payload : [seq : Nat, change : Nat]]

Account == [offered : Nat, bypassed : Nat, delivered : Nat]

(* The handle: each change has moved its revision on, and the outage it    *)
(* holds is the one that was asked for.                                    *)
HandleInv ==
    /\ changes \in 0..MaxChanges
    /\ IsControl(control)
    /\ control.config \in Configs
    /\ control.stats \in [Direction -> Stats]
    /\ control.revision = changes
    /\ asked \in Durations \cup {0}
    /\ control.pending_outage = asked

(* The gate: an operation that clears the engine is out of step with it.   *)
GateInv ==
    /\ now \in 0..MaxTime
    /\ gate \in {"idle", "clearing", "detaching", "attaching"}
    /\ gate \in {"clearing", "detaching"} => Attached /\ ~InStep(Pair)
    /\ gate = "attaching" => ~Attached
    /\ engine.queues \in [Direction -> Seq(Packet)]
    /\ Attached => /\ IsEngine(engine)
                   /\ engine.last_now \in 0..now
                   /\ engine.revision \in {Unsynced} \cup 0..changes

(* The accounts: each packet is in one place.                              *)
AccountInv ==
    /\ account \in [Direction -> Account]
    /\ \A d \in Direction :
          account[d].offered = account[d].bypassed + account[d].delivered
                                 + Accounted(control.stats, d)

(* What an engine in step holds was offered after the latest change, is    *)
(* older than the next packet, and is nothing at all during an outage.     *)
QueueInv(x, n, until, d, offered) ==
    \A i \in 1..Len(x.engine.queues[d]) :
        LET packet == x.engine.queues[d][i]
        IN  /\ packet.payload.change = n
            /\ packet.payload.seq < offered
            /\ until = 0

(* The outage an engine in step enforces is the one that was noticed; an   *)
(* engine out of step has noticed none since the latest change.            *)
OutageInv ==
    /\ dark \in Nat
    /\ InStep(Pair) =>
          /\ asked = 0
          /\ engine.outage_until = IF dark > engine.last_now THEN dark ELSE 0
          /\ control.outage_active = (engine.outage_until # 0)
          /\ \A d \in Direction :
                QueueInv(Pair, changes, engine.outage_until, d, account[d].offered)
    /\ ~InStep(Pair) => dark = 0 /\ control.outage_active = (asked # 0)

Inv ==
    /\ HandleInv /\ GateInv /\ AccountInv /\ OutageInv
    /\ CountersMatch(Pair) /\ WithinLimits(Pair)
    /\ \A d \in Direction : Ordered(engine.queues[d])
-----------------------------------------------------------------------------
(* The pair of the control block and the engine.                           *)
LEMMA PairIs ==
  /\ Pair.control = control /\ Pair.engine = engine
  /\ IsControl(control) /\ IsEngine(engine) => IsPair(Pair)
  /\ InStep(Pair) <=> engine.revision = control.revision
  BY DEF Pair, IsPair, InStep

(* The same after a step.                                                  *)
LEMMA PairNext ==
  /\ Pair'.control = control' /\ Pair'.engine = engine'
  /\ InStep(Pair)' <=> engine'.revision = control'.revision
  BY DEF Pair, IsPair, InStep

(* What a missing engine looks like: no revision is out of range.          *)
LEMMA NoEngineOps ==
  /\ NoEngine.queues = EmptyQueues /\ NoEngine.revision = Revisions
  /\ ~Attached => engine.queues = EmptyQueues /\ engine.revision = Revisions
  BY DEF NoEngine, Attached

(* An engine has a revision, and a missing one has another.                *)
LEMMA RevisionIs ==
  ASSUME Inv
  PROVE  /\ changes \in Nat /\ changes <= Revisions - 2
         /\ engine.revision \in {Revisions, Revisions - 1} \cup 0..changes
  BY NoEngineOps, ConditionerAssumption, RevisionsAssumption
     DEF Inv, GateInv, HandleInv, Unsynced

(* Empty queues satisfy what is said about queues.                         *)
LEMMA EmptyQueuesOps ==
  /\ EmptyQueues \in [Direction -> Seq(Packet)]
  /\ \A d \in Direction : EmptyQueues[d] = <<>> /\ Ordered(EmptyQueues[d])
  BY DEF EmptyQueues, Ordered

(* A change of the handle: the engine is out of step until its next poll.  *)
LEMMA ChangeKeeps ==
  ASSUME Inv, changes < MaxChanges, changes' = changes + 1, engine' = engine, now' = now,
         IsControl(control'), control'.config \in Configs,
         control'.stats \in [Direction -> Stats],
         \A d \in Direction : /\ control'.stats[d].queued_packets = 0
                              /\ control'.stats[d].queued_bytes = 0,
         control'.revision = Successor(control.revision),
         asked' \in Durations \cup {0}, control'.pending_outage = asked',
         control'.outage_active = (asked' # 0), dark' = 0,
         AccountInv', gate' \in {"idle", "clearing", "detaching", "attaching"},
         gate' \in {"clearing", "detaching"} => Attached,
         gate' = "attaching" => ~Attached
  PROVE  Inv'
<1>1. /\ changes \in Nat /\ changes <= Revisions - 2
      /\ engine.revision \in {Revisions, Revisions - 1} \cup 0..changes
  BY RevisionIs
<1>2. MaxChanges \in 0..(Revisions - 2) /\ Revisions \in Nat
  BY ConditionerAssumption, RevisionsAssumption
<1>3. control.revision = changes
  BY DEF Inv, HandleInv
<1>4. control'.revision = changes + 1
  BY <1>1, <1>2, <1>3 DEF Successor
<1>5. ~InStep(Pair)'
  BY <1>1, <1>2, <1>4, PairNext
<1>6. HandleInv'
  BY <1>1, <1>2, <1>4 DEF HandleInv
<1>7. Attached' = Attached
  BY DEF Attached, NoEngine
<1>8. GateInv'
  <2>1. engine.revision \in {Unsynced} \cup 0..changes =>
           engine.revision \in {Unsynced} \cup 0..(changes + 1)
    BY <1>1
  <2> QED
    BY <1>5, <1>7, <2>1 DEF Inv, GateInv
<1>9. OutageInv'
  BY <1>5 DEF OutageInv
<1>10. CountersMatch(Pair)' /\ WithinLimits(Pair)'
  <2> DEFINE x == Pair'
  <2>1. ~InStep(x)
    BY <1>5 DEF InStep
  <2>2. x.control = control'
    BY PairNext
  <2> HIDE DEF x
  <2>3. CountersMatch(x) /\ WithinLimits(x)
    BY <2>1, <2>2, EmptiedCounts
  <2> QED
    BY <2>3 DEF x, CountersMatch, WithinLimits, InStep
<1>11. \A d \in Direction : Ordered(engine.queues[d])'
  BY DEF Inv, Ordered
<1> QED
  BY <1>6, <1>8, <1>9, <1>10, <1>11 DEF Inv

(* The second half of a gate operation gives the gate an engine that is    *)
(* out of step, as the one before was, or none.                            *)
LEMMA EngineKeeps ==
  ASSUME Inv, ~InStep(Pair), ~InStep(Pair)', gate' = "idle",
         UNCHANGED <<now, control, changes, account, asked, dark>>,
         engine'.queues = EmptyQueues,
         Attached' => /\ IsEngine(engine') /\ engine'.last_now = 0
                      /\ engine'.revision \in {Unsynced} \cup 0..changes
  PROVE  Inv'
<1>1. HandleInv' /\ AccountInv'
  BY DEF Inv, HandleInv, AccountInv
<1>2. GateInv'
  BY EmptyQueuesOps DEF Inv, GateInv
<1>3. OutageInv'
  BY DEF Inv, OutageInv
<1>4. CountersMatch(Pair)' /\ WithinLimits(Pair)'
  <2>1. \A d \in Direction : /\ control.stats[d].queued_packets = 0
                             /\ control.stats[d].queued_bytes = 0
    BY PairIs, BytesEmpty DEF Inv, CountersMatch
  <2> DEFINE x == Pair'
  <2>2. ~InStep(x) /\ x.control = control
    BY PairNext DEF InStep
  <2> HIDE DEF x
  <2>3. CountersMatch(x) /\ WithinLimits(x)
    BY <2>1, <2>2, EmptiedCounts
  <2> QED
    BY <2>3 DEF x, CountersMatch, WithinLimits, InStep
<1>5. \A d \in Direction : Ordered(engine.queues[d])'
  BY EmptyQueuesOps DEF Ordered
<1> QED
  BY <1>1, <1>2, <1>3, <1>4, <1>5 DEF Inv

-----------------------------------------------------------------------------
(* A fresh account is that of a fresh session.                             *)
LEMMA FreshAccount ==
  ASSUME account' = NoAccount, control'.stats = FreshStats
  PROVE  AccountInv'
<1>1. account' \in [Direction -> Account]
  BY DEF NoAccount, Account
<1>2. ASSUME NEW d \in Direction
      PROVE  account'[d].offered = account'[d].bypassed + account'[d].delivered
                                     + Accounted(control'.stats, d)
  BY FreshStatsOps DEF NoAccount
<1> QED
  BY <1>1, <1>2 DEF AccountInv, Accounted

(* The initial states.                                                     *)
LEMMA ClientStarts == Init => Inv
<1> SUFFICES ASSUME Init PROVE Inv
  OBVIOUS
<1>1. PICK config \in Configs : control = NewHandle(config)
  BY DEF Init
<1>2. /\ IsControl(control) /\ control.config \in Configs /\ control.stats = FreshStats
      /\ control.outage_active = FALSE /\ control.pending_outage = 0
      /\ control.revision = 0
  BY <1>1, NewHandleOps, Zenon
<1>3. MaxChanges \in Nat /\ MaxTime \in Nat /\ Revisions \in Nat /\ Revisions > 3
  BY ConditionerAssumption, RevisionsAssumption
<1>4. HandleInv
  BY <1>2, <1>3, FreshStatsOps DEF Init, HandleInv
<1>5. ~Attached /\ engine.queues = EmptyQueues /\ engine.revision = Revisions
  BY NoEngineOps DEF Init, Attached
<1>6. ~InStep(Pair)
  BY <1>2, <1>3, <1>5, PairIs
<1>7. GateInv
  BY <1>3, <1>5, EmptyQueuesOps DEF Init, GateInv
<1>8. AccountInv
  <2>1. account \in [Direction -> Account]
    BY DEF Init, NoAccount, Account
  <2>2. ASSUME NEW d \in Direction
        PROVE  account[d].offered = account[d].bypassed + account[d].delivered
                                      + Accounted(control.stats, d)
    BY <1>2, FreshStatsOps DEF Init, NoAccount
  <2> QED
    BY <2>1, <2>2 DEF AccountInv
<1>9. OutageInv
  BY <1>2, <1>6, Zenon DEF Init, OutageInv
<1>10. CountersMatch(Pair) /\ WithinLimits(Pair)
  BY <1>2, <1>6, PairIs, EmptiedCounts, FreshStatsOps
<1>11. \A d \in Direction : Ordered(engine.queues[d])
  BY <1>5, EmptyQueuesOps
<1> QED
  BY <1>4, <1>7, <1>8, <1>9, <1>10, <1>11 DEF Inv

(* ConditionerHandle::configure and ConditionerHandle::outage move what is *)
(* queued to the transition drops, so the accounts still add up.           *)
LEMMA DiscardKeeps ==
  ASSUME Inv, control'.stats = DiscardQueues(control.stats), account' = account
  PROVE  /\ AccountInv' /\ control'.stats \in [Direction -> Stats]
         /\ \A d \in Direction : /\ control'.stats[d].queued_packets = 0
                                 /\ control'.stats[d].queued_bytes = 0
<1>1. control.stats \in [Direction -> Stats]
  BY DEF Inv, HandleInv
<1>2. /\ control'.stats \in [Direction -> Stats]
      /\ \A d \in Direction :
            /\ control'.stats[d].queued_packets = 0
            /\ control'.stats[d].queued_bytes = 0
            /\ Accounted(control'.stats, d) = Accounted(control.stats, d)
  BY <1>1, DiscardQueuesOps
<1>3. AccountInv'
  <2>1. account' \in [Direction -> Account]
    BY DEF Inv, AccountInv
  <2>2. ASSUME NEW d \in Direction
        PROVE  account'[d].offered = account'[d].bypassed + account'[d].delivered
                                       + Accounted(control'.stats, d)
    BY <1>2 DEF Inv, AccountInv
  <2> QED
    BY <2>1, <2>2 DEF AccountInv, Accounted
<1> QED
  BY <1>2, <1>3

(* ConditionerHandle::configure keeps the invariant.                       *)
LEMMA ConfigureStep ==
  ASSUME Inv, NEW config \in Configs, Configure(config)
  PROVE  Inv'
<1>1. IsControl(control)
  BY DEF Inv, HandleInv
<1>2. /\ IsControl(control') /\ control'.config = config
      /\ control'.stats = DiscardQueues(control.stats)
      /\ control'.outage_active = FALSE /\ control'.pending_outage = 0
      /\ control'.revision = Successor(control.revision)
  BY <1>1, ConfiguredOps, Zenon DEF Configure
<1>3. /\ AccountInv' /\ control'.stats \in [Direction -> Stats]
      /\ \A d \in Direction : /\ control'.stats[d].queued_packets = 0
                              /\ control'.stats[d].queued_bytes = 0
  BY <1>2, DiscardKeeps DEF Configure
<1>4. /\ gate' \in {"idle", "clearing", "detaching", "attaching"}
      /\ gate' \in {"clearing", "detaching"} => Attached
      /\ gate' = "attaching" => ~Attached
  BY DEF Inv, GateInv, Configure
<1> QED
  BY <1>2, <1>3, <1>4, ChangeKeeps, Zenon DEF Configure, Changed

(* ConditionerHandle::outage keeps the invariant.                          *)
LEMMA OutageStep ==
  ASSUME Inv, NEW duration \in Durations, Outage(duration)
  PROVE  Inv'
<1>1. IsControl(control) /\ control.config \in Configs
  BY DEF Inv, HandleInv
<1>2. /\ IsControl(control') /\ control'.config = control.config
      /\ control'.stats = DiscardQueues(control.stats)
      /\ control'.outage_active = (duration # 0) /\ control'.pending_outage = duration
      /\ control'.revision = Successor(control.revision)
  BY <1>1, OutagedOps DEF Outage
<1>3. /\ AccountInv' /\ control'.stats \in [Direction -> Stats]
      /\ \A d \in Direction : /\ control'.stats[d].queued_packets = 0
                              /\ control'.stats[d].queued_bytes = 0
  BY <1>2, DiscardKeeps DEF Outage
<1>4. /\ gate' \in {"idle", "clearing", "detaching", "attaching"}
      /\ gate' \in {"clearing", "detaching"} => Attached
      /\ gate' = "attaching" => ~Attached
  BY DEF Inv, GateInv, Outage
<1> QED
  BY <1>1, <1>2, <1>3, <1>4, ChangeKeeps DEF Outage, Changed

(* A reset of the handle keeps the invariant, whatever it begins.          *)
LEMMA ResetHandleStep ==
  ASSUME Inv, ResetHandle, engine' = engine, now' = now,
         gate' \in {"idle", "clearing", "detaching", "attaching"},
         gate' \in {"clearing", "detaching"} => Attached,
         gate' = "attaching" => ~Attached
  PROVE  Inv'
<1>1. IsControl(control) /\ control.config \in Configs
  BY DEF Inv, HandleInv
<1>2. /\ IsControl(control') /\ control'.config = control.config
      /\ control'.stats = FreshStats
      /\ control'.outage_active = FALSE /\ control'.pending_outage = 0
      /\ control'.revision = Successor(control.revision)
  BY <1>1, SessionResetOps, Zenon DEF ResetHandle
<1>3. /\ AccountInv' /\ control'.stats \in [Direction -> Stats]
      /\ \A d \in Direction : /\ control'.stats[d].queued_packets = 0
                              /\ control'.stats[d].queued_bytes = 0
  BY <1>2, FreshAccount, FreshStatsOps DEF ResetHandle
<1> QED
  BY <1>1, <1>2, <1>3, ChangeKeeps, Zenon DEF ResetHandle, Changed

(* The operations that begin with a reset of the handle.                   *)
LEMMA BeginStep ==
  ASSUME Inv, ResetSession \/ Reset \/ Detach \/ Attach
  PROVE  Inv'
<1>1. /\ gate \in {"idle", "clearing", "detaching", "attaching"}
      /\ gate \in {"clearing", "detaching"} => Attached
      /\ gate = "attaching" => ~Attached
  BY DEF Inv, GateInv
<1>2. CASE ResetSession
  BY <1>1, <1>2, ResetHandleStep DEF ResetSession
<1>3. CASE Reset \/ Detach
  BY <1>3, ResetHandleStep DEF Reset, Detach, BeginClear, Idle
<1>4. CASE Attach
  BY <1>4, ResetHandleStep DEF Attach, Idle
<1> QED
  BY <1>2, <1>3, <1>4

(* PacketGate::reset ends: the engine keeps its revision.                  *)
LEMMA EndResetStep ==
  ASSUME Inv, EndReset
  PROVE  Inv'
<1>1. Attached /\ ~InStep(Pair) /\ IsEngine(engine)
      /\ engine.revision \in {Unsynced} \cup 0..changes
  BY DEF Inv, GateInv, EndReset
<1>2. /\ IsEngine(engine') /\ engine'.queues = EmptyQueues /\ engine'.last_now = 0
      /\ engine'.revision = engine.revision
  BY DEF EndReset, Cleared, NewEngine, IsEngine
<1>3. ~InStep(Pair)'
  BY <1>1, <1>2, PairIs, PairNext DEF EndReset
<1> QED
  BY <1>1, <1>2, <1>3, EngineKeeps DEF EndReset

(* PacketGate::detach ends: there is no engine.                            *)
LEMMA EndDetachStep ==
  ASSUME Inv, EndDetach
  PROVE  Inv'
<1>1. ~InStep(Pair)
  BY DEF Inv, GateInv, EndDetach
<1>2. engine'.queues = EmptyQueues /\ engine'.revision = Revisions /\ ~Attached'
  BY NoEngineOps DEF EndDetach, Attached, NoEngine
<1>3. ~InStep(Pair)'
  BY <1>2, PairNext, RevisionIs, RevisionsAssumption DEF EndDetach, Inv, HandleInv
<1> QED
  BY <1>1, <1>2, <1>3, EngineKeeps DEF EndDetach

(* PacketGate::attach ends: the new engine has seen no revision.           *)
LEMMA EndAttachStep ==
  ASSUME Inv, EndAttach
  PROVE  Inv'
<1>1. control.revision = changes /\ changes \in Nat /\ changes <= Revisions - 2
      /\ Revisions \in Nat
  BY RevisionIs, RevisionsAssumption DEF Inv, HandleInv
<1>2. ~InStep(Pair)
  BY <1>1, PairIs, NoEngineOps DEF Inv, GateInv, EndAttach
<1>3. /\ IsEngine(engine') /\ engine'.queues = EmptyQueues /\ engine'.last_now = 0
      /\ engine'.revision = Revisions - 1
  BY NewEngineOps DEF EndAttach
<1>4. ~InStep(Pair)'
  BY <1>1, <1>3, PairNext DEF EndAttach
<1> QED
  BY <1>2, <1>3, <1>4, EngineKeeps DEF EndAttach, Unsynced

(* Time passes.                                                            *)
LEMMA TickStep ==
  ASSUME Inv, Tick
  PROVE  Inv'
<1>1. Pair' = Pair /\ Attached' = Attached
  BY DEF Tick, Pair, Attached, NoEngine
<1>2. HandleInv' /\ AccountInv'
  BY DEF Inv, HandleInv, AccountInv, Tick
<1>3. GateInv'
  <2>1. \A n \in 0..now : n \in 0..(now + 1)
    BY DEF Inv, GateInv
  <2>2. now' \in 0..MaxTime
    BY ConditionerAssumption DEF Inv, GateInv, Tick
  <2> QED
    BY <1>1, <2>1, <2>2 DEF Inv, GateInv, Tick, InStep
<1>4. OutageInv'
  BY <1>1, Zenon DEF Inv, OutageInv, Tick, InStep, QueueInv
<1>5. CountersMatch(Pair)' /\ WithinLimits(Pair)'
  BY <1>1 DEF Inv, CountersMatch, WithinLimits, InStep
<1>6. \A d \in Direction : Ordered(engine.queues[d])'
  <2> SUFFICES ASSUME NEW d \in Direction PROVE Ordered(engine'.queues[d])
    BY DEF Ordered
  <2>1. engine' = engine
    BY DEF Tick
  <2> QED
    BY <2>1, Zenon DEF Inv
<1> QED
  BY <1>2, <1>3, <1>4, <1>5, <1>6 DEF Inv

(* A step that changes nothing.                                            *)
LEMMA StutterStep ==
  ASSUME Inv, UNCHANGED vars
  PROVE  Inv'
<1>1. Pair' = Pair /\ Attached' = Attached
  BY DEF vars, Pair, Attached, NoEngine
<1>2. HandleInv' /\ AccountInv' /\ GateInv' /\ OutageInv'
  BY <1>1, Zenon DEF Inv, HandleInv, AccountInv, GateInv, OutageInv, vars, InStep, QueueInv
<1>3. CountersMatch(Pair)' /\ WithinLimits(Pair)'
  BY <1>1 DEF Inv, CountersMatch, WithinLimits, InStep
<1>4. \A d \in Direction : Ordered(engine.queues[d])'
  <2> SUFFICES ASSUME NEW d \in Direction PROVE Ordered(engine'.queues[d])
    BY DEF Ordered
  <2>1. engine' = engine
    BY DEF vars
  <2> QED
    BY <2>1, Zenon DEF Inv
<1> QED
  BY <1>2, <1>3, <1>4 DEF Inv

-----------------------------------------------------------------------------
(* A pair that was just polled, at time t with n changes behind it: acc is *)
(* the account and dk the end of the outage.                               *)
Settled(x, acc, dk, n, t) ==
    /\ IsPair(x)
    /\ x.control.config \in Configs
    /\ x.control.stats \in [Direction -> Stats]
    /\ x.control.revision = n /\ x.control.pending_outage = 0
    /\ x.engine.revision = n /\ x.engine.last_now = t
    /\ x.engine.queues \in [Direction -> Seq(Packet)]
    /\ CountersMatch(x) /\ WithinLimits(x)
    /\ \A d \in Direction : Ordered(x.engine.queues[d])
    /\ x.engine.outage_until = IF dk > t THEN dk ELSE 0
    /\ x.control.outage_active = (x.engine.outage_until # 0)
    /\ \A d \in Direction : QueueInv(x, n, x.engine.outage_until, d, acc[d].offered)
    /\ acc \in [Direction -> Account]
    /\ \A d \in Direction :
          acc[d].offered = acc[d].bypassed + acc[d].delivered
                             + Accounted(x.control.stats, d)

(* A poll leaves the gate with a pair that was just polled.                *)
LEMMA SettledKeeps ==
  ASSUME Inv, NEW y, NEW acc, NEW dk \in Nat, Settled(y, acc, dk, changes, now),
         control' = y.control, engine' = y.engine, account' = acc, dark' = dk,
         asked' = 0, UNCHANGED <<gate, changes, now>>, gate = "idle"
  PROVE  Inv'
<1>1. Pair' = y
  BY DEF Pair, Settled, IsPair
<1>2. /\ changes \in Nat /\ changes <= Revisions - 2 /\ changes \in 0..MaxChanges
      /\ Revisions \in Nat /\ now \in 0..MaxTime /\ MaxTime \in Nat
  BY RevisionIs, RevisionsAssumption, ConditionerAssumption DEF Inv, HandleInv, GateInv
<1>3. HandleInv'
  BY <1>2 DEF HandleInv, Settled, IsPair
<1>4. GateInv'
  <2>1. IsEngine(engine') /\ engine'.last_now \in 0..now
        /\ engine'.revision \in {Unsynced} \cup 0..changes
    BY <1>2 DEF Settled, IsPair
  <2> QED
    BY <1>2, <2>1 DEF GateInv, Settled
<1>5. AccountInv'
  BY DEF AccountInv, Settled, Accounted
<1>6. OutageInv'
  <2>1. InStep(Pair)'
    BY PairNext, Zenon DEF Settled
  <2> QED
    BY <1>1, <2>1, Zenon DEF OutageInv, Settled, QueueInv
<1>7. CountersMatch(Pair)' /\ WithinLimits(Pair)'
  BY <1>1, Zenon DEF Settled, CountersMatch, WithinLimits, InStep
<1>8. \A d \in Direction : Ordered(engine.queues[d])'
  <2> SUFFICES ASSUME NEW d \in Direction PROVE Ordered(engine'.queues[d])
    BY DEF Ordered
  <2>1. engine'.queues = y.engine.queues
    OBVIOUS
  <2> QED
    BY <2>1, Zenon DEF Settled
<1> QED
  BY <1>3, <1>4, <1>5, <1>6, <1>7, <1>8, Zenon DEF Inv

NoticedAt == IF asked # 0 THEN now + asked ELSE dark

(* sync settles the pair: the outage it enforces is the one noticed now or *)
(* before, and an older revision leaves no packet behind.                  *)
LEMMA SyncSettles ==
  ASSUME Inv, Attached
  PROVE  /\ NoticedAt \in Nat
         /\ Settled(Synced(Pair, now), account, NoticedAt, changes, now)
<1> DEFINE x == Pair
           y == Synced(x, now)
           until == SyncedOutage(x, now)
<1>1. /\ IsControl(control) /\ IsEngine(engine) /\ control.config \in Configs
      /\ control.stats \in [Direction -> Stats]
      /\ control.revision = changes /\ control.pending_outage = asked
      /\ engine.last_now \in 0..now /\ now \in 0..MaxTime
      /\ engine.queues \in [Direction -> Seq(Packet)]
      /\ asked \in Durations \cup {0} /\ dark \in Nat
  BY Zenon DEF Inv, HandleInv, GateInv, OutageInv
<1>2. asked \in Nat /\ now \in Nat /\ engine.last_now \in Nat /\ engine.last_now <= now
  BY <1>1, ConditionerAssumption
<1>3. IsPair(x) /\ x.control = control /\ x.engine = engine
  BY <1>1, PairIs
<1>4. Later(now, engine.last_now) = now
  BY <1>2 DEF Later
<1> HIDE DEF x
<1>5. /\ IsPair(y) /\ y.control.config = control.config
      /\ y.control.stats = control.stats /\ y.control.revision = control.revision
      /\ y.control.pending_outage =
            IF engine.revision = control.revision THEN control.pending_outage ELSE 0
      /\ y.control.outage_active = (until # 0)
      /\ y.engine.queues = SyncedQueues(x) /\ y.engine.revision = control.revision
      /\ y.engine.last_now = now /\ y.engine.outage_until = until
  BY <1>3, <1>4, SyncedOps
<1>6. InStep(x) <=> engine.revision = control.revision
  BY <1>3 DEF InStep
<1>7. /\ InStep(x) => /\ asked = 0
                      /\ engine.outage_until = IF dark > engine.last_now THEN dark ELSE 0
      /\ ~InStep(x) => dark = 0
  BY DEF Inv, OutageInv, x
<1>8. y.control.pending_outage = 0
  BY <1>1, <1>5, <1>6, <1>7
<1>9. NoticedAt \in Nat
  BY <1>1, <1>2 DEF NoticedAt
<1>10. until = IF NoticedAt > now THEN NoticedAt ELSE 0
  <2>1. CASE InStep(x)
    BY <1>1, <1>2, <1>3, <1>6, <1>7, <2>1 DEF SyncedOutage, NoticedAt
  <2>2. CASE ~InStep(x)
    BY <1>1, <1>2, <1>3, <1>6, <1>7, <2>2 DEF SyncedOutage, NoticedAt
  <2> QED
    BY <2>1, <2>2
<1>11. CountersMatch(y) /\ WithinLimits(y)
  <2>1. CountersMatch(x) /\ WithinLimits(x)
    BY DEF Inv, x
  <2>2. Limited(x.control.config)
    BY <1>1, <1>3, ConditionerAssumption DEF Limited
  <2> QED
    BY <1>3, <2>1, <2>2, SyncedCounts
<1>12. /\ InStep(x) => y.engine.queues = engine.queues
       /\ ~InStep(x) => y.engine.queues = EmptyQueues
  BY <1>3, <1>5, <1>6 DEF SyncedQueues
<1>13. /\ y.engine.queues \in [Direction -> Seq(Packet)]
       /\ \A d \in Direction : Ordered(y.engine.queues[d])
  BY <1>1, <1>12, EmptyQueuesOps, Zenon DEF Inv
<1>14. ASSUME NEW d \in Direction
       PROVE  QueueInv(y, changes, until, d, account[d].offered)
  <2>1. CASE InStep(x)
    <3>1. QueueInv(x, changes, engine.outage_until, d, account[d].offered)
      BY <2>1 DEF Inv, OutageInv, x
    <3>2. engine.outage_until = 0 => until = 0
      BY <1>1, <1>2, <1>3, <1>6, <2>1 DEF SyncedOutage
    <3> QED
      BY <1>3, <1>12, <2>1, <3>1, <3>2, Zenon DEF QueueInv
  <2>2. CASE ~InStep(x)
    <3>1. Len(y.engine.queues[d]) = 0
      BY <1>12, <2>2, EmptyQueuesOps
    <3> QED
      BY <3>1 DEF QueueInv
  <2> QED
    BY <2>1, <2>2
<1>15. /\ account \in [Direction -> Account]
       /\ \A d \in Direction :
             account[d].offered = account[d].bypassed + account[d].delivered
                                    + Accounted(y.control.stats, d)
  BY <1>5 DEF Inv, AccountInv
<1> HIDE DEF y, until
<1>16. Settled(y, account, NoticedAt, changes, now)
  BY <1>1, <1>5, <1>8, <1>10, <1>11, <1>13, <1>14, <1>15, Zenon DEF Settled
<1> QED
  BY <1>9, <1>16 DEF y, x

Offering(acc, d, verdict) ==
    [acc EXCEPT ![d].offered = @ + 1,
                ![d].bypassed = IF verdict = "bypass" THEN @ + 1 ELSE @]

OfferedOnce(acc, new, d, verdict) ==
    /\ new \in [Direction -> Account]
    /\ acc[d].offered \in Nat /\ acc[d].bypassed \in Nat /\ acc[d].delivered \in Nat
    /\ new[d].offered = acc[d].offered + 1
    /\ new[d].delivered = acc[d].delivered
    /\ new[d].bypassed = acc[d].bypassed + (IF verdict = "bypass" THEN 1 ELSE 0)
    /\ \A e \in Direction \ {d} : new[e] = acc[e]

(* One more packet in an account.                                          *)
LEMMA OfferingOps ==
  ASSUME NEW acc \in [Direction -> Account], NEW d \in Direction, NEW verdict
  PROVE  OfferedOnce(acc, Offering(acc, d, verdict), d, verdict)
<1> DEFINE a == acc[d]
           n == a.offered + 1
           b == IF verdict = "bypass" THEN a.bypassed + 1 ELSE a.bypassed
           u == [a EXCEPT !.offered = n, !.bypassed = b]
<1>1. a \in Account
  OBVIOUS
<1>2. a.offered \in Nat /\ a.bypassed \in Nat /\ a.delivered \in Nat /\ n \in Nat /\ b \in Nat
      /\ b = a.bypassed + (IF verdict = "bypass" THEN 1 ELSE 0)
  BY <1>1 DEF Account
<1>3. Offering(acc, d, verdict) = [acc EXCEPT ![d] = u]
  BY Zenon DEF Offering
<1>4. u \in Account /\ u.offered = n /\ u.bypassed = b /\ u.delivered = a.delivered
  <2> HIDE DEF a, n, b
  <2> QED
    BY <1>1, <1>2, Zenon DEF Account
<1> HIDE DEF u
<1>5. /\ [acc EXCEPT ![d] = u] \in [Direction -> Account] /\ [acc EXCEPT ![d] = u][d] = u
      /\ \A e \in Direction \ {d} : [acc EXCEPT ![d] = u][e] = acc[e]
  BY <1>4
<1> QED
  BY <1>2, <1>3, <1>4, <1>5 DEF OfferedOnce

(* Packets have a deadline, a size and a number.                           *)
LEMMA PacketSized ==
  /\ Sized(Packet)
  /\ \A e \in Packet : e.due \in Nat /\ e.bytes \in Nat /\ e.payload.seq \in Nat
  BY ConditionerAssumption, Zenon DEF Packet, Sized

(* enqueue keeps a settled pair settled, with one more packet offered.     *)
LEMMA EnqueueSettles ==
  ASSUME NEW x, NEW acc, NEW dk \in Nat, NEW n \in Nat, NEW t \in Nat,
         Settled(x, acc, dk, n, t), NEW d \in Direction, NEW bytes \in Sizes, NEW lost,
         NEW delay \in Nat, NEW verdict, verdict = Verdict(x, d, bytes, lost),
         NEW payload \in [seq : {acc[d].offered}, change : {n}]
  PROVE  Settled(Enqueued(x, d, bytes, payload, verdict, delay),
                 Offering(acc, d, verdict), dk, n, t)
<1> DEFINE y == Enqueued(x, d, bytes, payload, verdict, delay)
           p == [due |-> x.engine.last_now + delay, bytes |-> bytes, payload |-> payload]
           new == Offering(acc, d, verdict)
           q == x.engine.queues[d]
           r == y.engine.queues[d]
           until == x.engine.outage_until
<1>1. /\ IsPair(x) /\ x.control.config \in Configs
      /\ x.control.stats \in [Direction -> Stats]
      /\ x.control.revision = n /\ x.control.pending_outage = 0
      /\ x.engine.revision = n /\ x.engine.last_now = t
      /\ x.engine.queues \in [Direction -> Seq(Packet)]
      /\ CountersMatch(x) /\ WithinLimits(x) /\ InStep(x)
      /\ acc \in [Direction -> Account]
  BY Zenon DEF Settled, InStep
<1>2. /\ new \in [Direction -> Account]
      /\ acc[d].offered \in Nat /\ acc[d].bypassed \in Nat /\ acc[d].delivered \in Nat
      /\ new[d].offered = acc[d].offered + 1
      /\ new[d].delivered = acc[d].delivered
      /\ new[d].bypassed = acc[d].bypassed + (IF verdict = "bypass" THEN 1 ELSE 0)
      /\ \A e \in Direction \ {d} : new[e] = acc[e]
  <2>1. OfferedOnce(acc, new, d, verdict)
    BY <1>1, OfferingOps, Zenon
  <2> HIDE DEF new
  <2> QED
    BY <2>1 DEF OfferedOnce
<1>3. p \in Packet /\ p.payload.seq = acc[d].offered /\ p.payload.change = n
  <2>1. x.engine.last_now = t
    BY <1>1, Zenon
  <2>2. x.engine.last_now + delay \in Nat
    BY <2>1
  <2> QED
    BY <1>2, <2>2 DEF Packet
<1>4. /\ IsPair(y) /\ y.control.config = x.control.config
      /\ y.control.revision = n /\ y.control.pending_outage = 0
      /\ y.control.outage_active = x.control.outage_active
      /\ y.engine.revision = n /\ y.engine.last_now = t /\ y.engine.outage_until = until
  <2>1. Untouched(x, y)
    BY <1>1, EnqueuedOps
  <2> QED
    BY <1>1, <2>1, Zenon DEF Untouched
<1>5. y.engine.queues \in [Direction -> Seq(Packet)]
  BY <1>1, <1>3, PacketSized, EnqueuedTyped, Zenon
<1>6. /\ y.control.stats \in [Direction -> Stats]
      /\ CountersMatch(y) /\ WithinLimits(y)
      /\ \A e \in Direction \ {d} : /\ y.control.stats[e] = x.control.stats[e]
                                    /\ y.engine.queues[e] = x.engine.queues[e]
      /\ Accounted(y.control.stats, d) =
            Accounted(x.control.stats, d) + (IF verdict = "bypass" THEN 0 ELSE 1)
  <2>1. Limited(x.control.config) /\ bytes \in Nat
    BY <1>1, ConditionerAssumption, Zenon DEF Limited
  <2>2. EnqueueCounted(x, y, d, verdict)
    BY <1>1, <1>3, <2>1, PacketSized, EnqueuedCounts, Zenon
  <2> QED
    BY <2>2, Zenon DEF EnqueueCounted
<1>7. r = IF verdict = "queue" THEN Inserted(q, p) ELSE q
  <2>1. CASE verdict = "queue"
    BY <1>1, <2>1 DEF Enqueued, IsPair, IsEngine
  <2>2. CASE verdict # "queue"
    BY <1>1, <2>2 DEF Enqueued, IsPair
  <2> QED
    BY <2>1, <2>2, Zenon
<1>8. q \in Seq(Packet) /\ Ordered(q) /\ QueueInv(x, n, until, d, acc[d].offered)
  BY <1>1, Zenon DEF Settled
<1>9. \A i \in 1..Len(q) : /\ q[i].payload.change = n
                           /\ q[i].payload.seq < acc[d].offered /\ until = 0
  BY <1>8, Zenon DEF QueueInv
<1>10. verdict = "queue" => until = 0
  BY DEF Verdict
<1> HIDE DEF y, p, new, until
<1>11. Ordered(r)
  <2> HIDE DEF q, r
  <2>1. \A i \in 1..Len(q) : q[i].payload.seq < p.payload.seq
    BY <1>3, <1>9
  <2>2. Ordered(Inserted(q, p))
    BY <1>3, <1>8, <2>1, PacketSized, InsertedOrdered, Zenon
  <2> QED
    BY <1>7, <1>8, <2>2
<1>12. QueueInv(y, n, until, d, new[d].offered)
  <2> HIDE DEF q
  <2> SUFFICES ASSUME NEW i \in 1..Len(r)
               PROVE  r[i].payload.change = n /\ r[i].payload.seq < new[d].offered
                      /\ until = 0
    BY Zenon DEF QueueInv
  <2> HIDE DEF r
  <2>1. CASE verdict = "queue"
    <3>1. r[i] = p \/ \E j \in 1..Len(q) : r[i] = q[j]
      <4>1. \A e \in Packet : e.due \in Nat /\ e.bytes \in Nat
        BY PacketSized, Zenon
      <4>2. p \in Packet /\ q \in Seq(Packet)
        BY <1>3, <1>8, Zenon
      <4>3. i \in 1..Len(Inserted(q, p)) /\ r = Inserted(q, p)
        BY <1>7, <2>1
      <4>4. Inserted(q, p)[i] = p \/ \E j \in 1..Len(q) : Inserted(q, p)[i] = q[j]
        BY <4>1, <4>2, <4>3, InsertedElements
      <4> QED
        BY <4>3, <4>4, Zenon
    <3>2. ASSUME NEW j \in 1..Len(q), r[i] = q[j]
          PROVE  r[i].payload.change = n /\ r[i].payload.seq < new[d].offered
      <4>1. q[j] \in Packet
        BY <1>8
      <4>2. q[j].payload.seq \in Nat
        BY <4>1, PacketSized
      <4>3. q[j].payload.change = n /\ q[j].payload.seq < acc[d].offered
        BY <1>9, Zenon
      <4>4. acc[d].offered \in Nat /\ new[d].offered = acc[d].offered + 1
        BY <1>2, Zenon
      <4>5. q[j].payload.seq < new[d].offered
        BY <4>2, <4>3, <4>4
      <4> QED
        BY <3>2, <4>3, <4>5, Zenon
    <3>3. CASE r[i] = p
      <4>1. r[i].payload.change = n /\ r[i].payload.seq = acc[d].offered
        BY <1>3, <3>3
      <4>2. acc[d].offered < new[d].offered
        BY <1>2
      <4> QED
        BY <1>10, <2>1, <4>1, <4>2
    <3> QED
      BY <1>10, <2>1, <3>1, <3>2, <3>3
  <2>2. CASE verdict # "queue"
    <3>1. r = q /\ q[i] \in Packet
      BY <1>7, <1>8, <2>2
    <3>2. q[i].payload.seq \in Nat
      BY <3>1, PacketSized
    <3> QED
      BY <1>2, <1>9, <3>1, <3>2
  <2> QED
    BY <2>1, <2>2
<1>13. ASSUME NEW e \in Direction
       PROVE  Ordered(y.engine.queues[e]) /\ QueueInv(y, n, until, e, new[e].offered)
  <2>1. CASE e = d
    BY <1>11, <1>12, <2>1
  <2>2. CASE e # d
    <3>1. y.engine.queues[e] = x.engine.queues[e] /\ new[e] = acc[e]
      BY <1>2, <1>6, <2>2, Zenon
    <3>2. Ordered(x.engine.queues[e]) /\ QueueInv(x, n, until, e, acc[e].offered)
      BY Zenon DEF Settled, until
    <3> QED
      BY <3>1, <3>2, Zenon DEF QueueInv
  <2> QED
    BY <2>1, <2>2
<1>14. ASSUME NEW e \in Direction
       PROVE  new[e].offered = new[e].bypassed + new[e].delivered
                                 + Accounted(y.control.stats, e)
  <2>1. acc[e].offered = acc[e].bypassed + acc[e].delivered
                           + Accounted(x.control.stats, e)
    BY Zenon DEF Settled
  <2>2. CASE e = d
    <3>1. Accounted(x.control.stats, d) \in Nat
      BY <1>1, AccountedTyped, Zenon
    <3> DEFINE s == IF verdict = "bypass" THEN 1 ELSE 0
               u == IF verdict = "bypass" THEN 0 ELSE 1
    <3>2. s \in Nat /\ u \in Nat /\ s + u = 1
      OBVIOUS
    <3>3. /\ acc[d].offered \in Nat /\ acc[d].bypassed \in Nat /\ acc[d].delivered \in Nat
          /\ acc[d].offered = acc[d].bypassed + acc[d].delivered
                                 + Accounted(x.control.stats, d)
      BY <1>2, <2>1, <2>2, Zenon
    <3>4. acc[d].offered + 1 = (acc[d].bypassed + s) + acc[d].delivered
                                 + (Accounted(x.control.stats, d) + u)
      <4> DEFINE o == acc[d].offered
                 b == acc[d].bypassed
                 v == acc[d].delivered
                 w == Accounted(x.control.stats, d)
      <4>1. o = b + v + w /\ o \in Nat /\ b \in Nat /\ v \in Nat /\ w \in Nat
        BY <3>1, <3>3
      <4> HIDE DEF s, u, o, b, v, w
      <4>2. o + 1 = (b + s) + v + (w + u)
        BY <3>2, <4>1
      <4> QED
        BY <4>2 DEF o, b, v, w
    <3>5. /\ new[d].offered = acc[d].offered + 1
          /\ new[d].delivered = acc[d].delivered
          /\ new[d].bypassed = acc[d].bypassed + s
          /\ Accounted(y.control.stats, d) = Accounted(x.control.stats, d) + u
      BY <1>2, <1>6, Zenon
    <3> HIDE DEF s, u
    <3> QED
      BY <2>2, <3>4, <3>5, Zenon
  <2>3. CASE e # d
    <3>1. y.control.stats[e] = x.control.stats[e] /\ new[e] = acc[e]
      BY <1>2, <1>6, <2>3, Zenon
    <3> QED
      BY <2>1, <3>1, Zenon DEF Accounted
  <2> QED
    BY <2>2, <2>3
<1>15. /\ until = IF dk > t THEN dk ELSE 0
       /\ x.control.outage_active = (until # 0)
  BY Zenon DEF Settled, until
<1>16. Settled(y, new, dk, n, t)
  BY <1>1, <1>2, <1>4, <1>5, <1>6, <1>13, <1>14, <1>15, Zenon DEF Settled
<1> QED
  BY <1>16 DEF y, new

Delivering(acc, d, n) == [acc EXCEPT ![d].delivered = @ + n]

DeliveredMore(acc, new, d, n) ==
    /\ new \in [Direction -> Account]
    /\ acc[d].offered \in Nat /\ acc[d].bypassed \in Nat /\ acc[d].delivered \in Nat
    /\ new[d].offered = acc[d].offered
    /\ new[d].delivered = acc[d].delivered + n
    /\ new[d].bypassed = acc[d].bypassed
    /\ \A e \in Direction \ {d} : new[e] = acc[e]

(* n packets more are delivered.                                           *)
LEMMA DeliveringOps ==
  ASSUME NEW acc \in [Direction -> Account], NEW d \in Direction, NEW n \in Nat
  PROVE  DeliveredMore(acc, Delivering(acc, d, n), d, n)
<1> DEFINE a == acc[d]
           m == a.delivered + n
           u == [a EXCEPT !.delivered = m]
<1>1. a \in Account
  OBVIOUS
<1>2. a.offered \in Nat /\ a.bypassed \in Nat /\ a.delivered \in Nat /\ m \in Nat
  BY <1>1 DEF Account
<1>3. Delivering(acc, d, n) = [acc EXCEPT ![d] = u]
  BY DEF Delivering
<1>4. u \in Account /\ u.offered = a.offered /\ u.bypassed = a.bypassed /\ u.delivered = m
  <2> HIDE DEF a, m
  <2> QED
    BY <1>1, <1>2 DEF Account
<1> HIDE DEF u
<1>5. /\ [acc EXCEPT ![d] = u] \in [Direction -> Account] /\ [acc EXCEPT ![d] = u][d] = u
      /\ \A e \in Direction \ {d} : [acc EXCEPT ![d] = u][e] = acc[e]
  BY <1>4
<1> QED
  BY <1>2, <1>3, <1>4, <1>5 DEF DeliveredMore

(* drain_ready keeps a settled pair settled, with what it pops delivered:  *)
(* packets that are due and were offered since the latest change, and none *)
(* during an outage.                                                       *)
LEMMA DrainSettles ==
  ASSUME NEW x, NEW acc, NEW dk \in Nat, NEW n \in Nat, NEW t \in Nat,
         Settled(x, acc, dk, n, t), NEW d \in Direction
  PROVE  /\ Len(Ready(x, d)) \in 0..Len(x.engine.queues[d])
         /\ Settled(Drained(x, d), Delivering(acc, d, Len(Ready(x, d))), dk, n, t)
         /\ \A i \in 1..Len(Ready(x, d)) :
               /\ x.engine.queues[d][i].due <= t
               /\ x.engine.queues[d][i].payload.change = n
               /\ t >= dk
<1> DEFINE y == Drained(x, d)
           m == Len(Ready(x, d))
           new == Delivering(acc, d, m)
           q == x.engine.queues[d]
           r == y.engine.queues[d]
           until == x.engine.outage_until
<1>1. /\ IsPair(x) /\ x.control.config \in Configs
      /\ x.control.stats \in [Direction -> Stats]
      /\ x.control.revision = n /\ x.control.pending_outage = 0
      /\ x.engine.revision = n /\ x.engine.last_now = t
      /\ x.engine.queues \in [Direction -> Seq(Packet)]
      /\ CountersMatch(x) /\ WithinLimits(x) /\ InStep(x)
      /\ acc \in [Direction -> Account]
  BY Zenon DEF Settled, InStep
<1>2. DrainCounted(x, y, d, m)
  <2>1. Limited(x.control.config) /\ x.engine.last_now \in Nat
    BY <1>1, ConditionerAssumption, Zenon DEF Limited
  <2> QED
    BY <1>1, <2>1, PacketSized, DrainedCounts, Zenon
<1>3. /\ IsPair(y) /\ y.control.config = x.control.config
      /\ y.control.revision = n /\ y.control.pending_outage = 0
      /\ y.control.outage_active = x.control.outage_active
      /\ y.engine.revision = n /\ y.engine.last_now = t /\ y.engine.outage_until = until
  <2>1. Untouched(x, y)
    BY <1>1, DrainedOps, Zenon
  <2> QED
    BY <1>1, <2>1, Zenon DEF Untouched
<1>4. y.engine.queues \in [Direction -> Seq(Packet)]
  <2>1. x.engine.last_now \in Nat
    BY <1>1
  <2> QED
    BY <1>1, <2>1, PacketSized, DrainedTyped, Zenon
<1>5. /\ y.control.stats \in [Direction -> Stats]
      /\ CountersMatch(y) /\ WithinLimits(y)
      /\ \A e \in Direction \ {d} : /\ y.control.stats[e] = x.control.stats[e]
                                    /\ y.engine.queues[e] = x.engine.queues[e]
      /\ m \in 0..Len(q) /\ \A i \in 1..m : q[i].due <= t
      /\ r = SubSeq(q, m + 1, Len(q))
      /\ Accounted(y.control.stats, d) + m = Accounted(x.control.stats, d)
  BY <1>1, <1>2, Zenon DEF DrainCounted
<1>6. q \in Seq(Packet) /\ Ordered(q) /\ QueueInv(x, n, until, d, acc[d].offered)
  BY <1>1, Zenon DEF Settled
<1>7. \A i \in 1..Len(q) : /\ q[i].payload.change = n
                           /\ q[i].payload.seq < acc[d].offered /\ until = 0
  BY <1>6, Zenon DEF QueueInv
<1>8. /\ until = IF dk > t THEN dk ELSE 0
      /\ x.control.outage_active = (until # 0)
  BY Zenon DEF Settled, until
<1> HIDE DEF y, m, q, r, until
<1>9. m \in Nat /\ \A i \in 1..m : i \in 1..Len(q)
  <2>1. m \in 0..Len(q) /\ q \in Seq(Packet)
    BY <1>5, <1>6, Zenon
  <2>2. Len(q) \in Nat
    BY <2>1
  <2> QED
    BY <2>1, <2>2
<1>10. \A i \in 1..m : q[i].due <= t /\ q[i].payload.change = n /\ t >= dk
  <2>1. until = 0 => t >= dk
    BY <1>8
  <2> QED
    BY <1>5, <1>7, <1>9, <2>1
<1>11. DeliveredMore(acc, new, d, m)
  BY <1>1, <1>9, DeliveringOps, Zenon
<1> HIDE DEF new
<1>12. /\ new \in [Direction -> Account]
       /\ acc[d].offered \in Nat /\ acc[d].bypassed \in Nat /\ acc[d].delivered \in Nat
       /\ new[d].offered = acc[d].offered
       /\ new[d].delivered = acc[d].delivered + m
       /\ new[d].bypassed = acc[d].bypassed
       /\ \A e \in Direction \ {d} : new[e] = acc[e]
  BY <1>11 DEF DeliveredMore
<1>13. /\ Ordered(r) /\ \A i \in 1..Len(r) : m + i \in 1..Len(q) /\ r[i] = q[m + i]
  BY <1>5, <1>6, PacketSized, RestOps
<1>14. QueueInv(y, n, until, d, new[d].offered)
  BY <1>7, <1>12, <1>13, Zenon DEF QueueInv, r
<1>15. ASSUME NEW e \in Direction
       PROVE  Ordered(y.engine.queues[e]) /\ QueueInv(y, n, until, e, new[e].offered)
  <2>1. CASE e = d
    BY <1>13, <1>14, <2>1 DEF r
  <2>2. CASE e # d
    <3>1. y.engine.queues[e] = x.engine.queues[e] /\ new[e] = acc[e]
      BY <1>5, <1>12, <2>2
    <3>2. Ordered(x.engine.queues[e]) /\ QueueInv(x, n, until, e, acc[e].offered)
      BY Zenon DEF Settled, until
    <3> QED
      BY <3>1, <3>2, Zenon DEF QueueInv
  <2> QED
    BY <2>1, <2>2
<1>16. ASSUME NEW e \in Direction
       PROVE  new[e].offered = new[e].bypassed + new[e].delivered
                                 + Accounted(y.control.stats, e)
  <2>1. acc[e].offered = acc[e].bypassed + acc[e].delivered
                           + Accounted(x.control.stats, e)
    BY Zenon DEF Settled
  <2>2. CASE e = d
    <3>1. Accounted(x.control.stats, d) \in Nat /\ Accounted(y.control.stats, d) \in Nat
      BY <1>1, <1>5, AccountedTyped, Zenon
    <3>2. /\ acc[d].offered \in Nat /\ acc[d].bypassed \in Nat /\ acc[d].delivered \in Nat
          /\ acc[d].offered = acc[d].bypassed + acc[d].delivered
                                 + Accounted(x.control.stats, d)
          /\ Accounted(y.control.stats, d) + m = Accounted(x.control.stats, d)
          /\ m \in Nat
      BY <1>5, <1>9, <1>12, <2>1, <2>2, Zenon
    <3>3. acc[d].offered = acc[d].bypassed + (acc[d].delivered + m)
                             + Accounted(y.control.stats, d)
      BY <3>1, <3>2
    <3> QED
      BY <1>12, <2>2, <3>3, Zenon
  <2>3. CASE e # d
    <3>1. y.control.stats[e] = x.control.stats[e] /\ new[e] = acc[e]
      BY <1>5, <1>12, <2>3, Zenon
    <3> QED
      BY <2>1, <3>1 DEF Accounted
  <2> QED
    BY <2>2, <2>3
<1>17. Settled(y, new, dk, n, t)
  BY <1>1, <1>3, <1>4, <1>5, <1>8, <1>12, <1>15, <1>16, Zenon DEF Settled
<1> QED
  BY <1>5, <1>10, <1>17, Zenon DEF y, new, m, q

-----------------------------------------------------------------------------
(* A packet of direction d passes only when no outage is in force, and the *)
(* packets that are delivered are current.                                 *)
PassesCurrent ==
    \A d \in Direction :
        /\ account'[d].bypassed > account[d].bypassed => now >= dark'
        /\ \A i \in Delivered(d) :
              /\ engine.queues[d][i].due <= now
              /\ engine.queues[d][i].payload.change = changes
              /\ now >= dark'

(* A poll of the gate works on the synchronised pair.                      *)
LEMMA DeferIs ==
  ASSUME NEW d, NEW bytes, NEW lost, NEW delay, Defer(d, bytes, lost, delay)
  PROVE  LET x == Synced(Pair, now)
             v == Verdict(x, d, bytes, lost)
             payload == [seq |-> account[d].offered, change |-> changes]
             y == Enqueued(x, d, bytes, payload, v, delay)
         IN  /\ control' = y.control /\ engine' = y.engine
             /\ account' = Offering(account, d, v)
  BY Zenon DEF Defer, Offering

(* PacketGate::defer keeps the invariant.                                  *)
LEMMA DeferStep ==
  ASSUME Inv, NEW d \in Direction, NEW bytes \in Sizes, NEW lost, NEW delay \in Nat,
         Defer(d, bytes, lost, delay)
  PROVE  Inv' /\ PassesCurrent
<1> DEFINE x == Synced(Pair, now)
           v == Verdict(x, d, bytes, lost)
           payload == [seq |-> account[d].offered, change |-> changes]
           y == Enqueued(x, d, bytes, payload, v, delay)
           acc == Offering(account, d, v)
           dk == NoticedAt
<1>1. control' = y.control /\ engine' = y.engine /\ account' = acc
  BY DeferIs
<1>2. /\ dark' = dk /\ asked' = 0 /\ gate = "idle" /\ Attached
      /\ UNCHANGED <<gate, changes, now>>
  BY DEF Defer, Noticed, NoticedAt, Idle
<1>3. dk \in Nat /\ Settled(x, account, dk, changes, now)
  BY <1>2, SyncSettles
<1>4. /\ changes \in Nat /\ now \in Nat /\ account \in [Direction -> Account]
  <2>1. changes \in Nat /\ account \in [Direction -> Account]
    BY RevisionIs, Zenon DEF Inv, AccountInv
  <2>2. now \in 0..MaxTime
    BY Zenon DEF Inv, GateInv
  <2> QED
    BY <2>1, <2>2
<1>5. payload \in [seq : {account[d].offered}, change : {changes}]
  OBVIOUS
<1> HIDE DEF x, v, payload, acc, dk
<1>6. v = Verdict(x, d, bytes, lost) /\ acc = Offering(account, d, v)
  BY DEF v, acc
<1>7. Settled(y, acc, dk, changes, now)
  <2>1. Settled(y, Offering(account, d, v), dk, changes, now)
    BY <1>3, <1>4, <1>5, <1>6, EnqueueSettles
  <2> QED
    BY <1>6, <2>1
<1> HIDE DEF y
<1>8. Inv'
  BY <1>1, <1>2, <1>3, <1>7, SettledKeeps
<1>9. OfferedOnce(account, acc, d, v)
  BY <1>4, <1>6, OfferingOps
<1>10. v = "bypass" => now >= dk
  <2>1. v = "bypass" => x.engine.outage_until = 0
    BY <1>6 DEF Verdict
  <2>2. x.engine.outage_until = IF dk > now THEN dk ELSE 0
    BY <1>3, Zenon DEF Settled
  <2> QED
    BY <1>3, <1>4, <2>1, <2>2
<1>11. PassesCurrent
  <2> SUFFICES ASSUME NEW e \in Direction
               PROVE  /\ acc[e].bypassed > account[e].bypassed => now >= dk
                      /\ Delivered(e) = {}
    BY <1>1, <1>2 DEF PassesCurrent
  <2>1. /\ account[e].bypassed \in Nat /\ account[e].delivered \in Nat
        /\ acc[e].delivered = account[e].delivered
    BY <1>4, <1>9 DEF OfferedOnce, Account
  <2>2. acc[e].bypassed > account[e].bypassed => v = "bypass"
    <3>1. CASE e = d
      BY <1>9, <2>1, <3>1 DEF OfferedOnce
    <3>2. CASE e # d
      BY <1>9, <2>1, <3>2 DEF OfferedOnce
    <3> QED
      BY <3>1, <3>2
  <2>3. Delivered(e) = {}
    BY <1>1, <2>1 DEF Delivered
  <2> QED
    BY <1>10, <2>2, <2>3
<1> QED
  BY <1>8, <1>11

(* A drain of the gate works on the synchronised pair.                     *)
LEMMA DrainIs ==
  ASSUME NEW d, Drain(d)
  PROVE  LET x == Synced(Pair, now)
         IN  /\ control' = Drained(x, d).control /\ engine' = Drained(x, d).engine
             /\ account' = Delivering(account, d, Len(Ready(x, d)))
  BY Zenon DEF Drain, Delivering

(* PacketGate::drain keeps the invariant, and delivers current packets.    *)
LEMMA DrainStep ==
  ASSUME Inv, NEW d \in Direction, Drain(d)
  PROVE  Inv' /\ PassesCurrent
<1> DEFINE x == Synced(Pair, now)
           y == Drained(x, d)
           n == Len(Ready(x, d))
           acc == Delivering(account, d, n)
           dk == NoticedAt
<1>1. control' = y.control /\ engine' = y.engine /\ account' = acc
  BY DrainIs
<1>2. /\ dark' = dk /\ asked' = 0 /\ gate = "idle" /\ Attached
      /\ UNCHANGED <<gate, changes, now>>
  BY DEF Drain, Noticed, NoticedAt, Idle
<1>3. dk \in Nat /\ Settled(x, account, dk, changes, now)
  BY <1>2, SyncSettles
<1>4. changes \in Nat /\ now \in Nat /\ account \in [Direction -> Account]
  <2>1. changes \in Nat /\ account \in [Direction -> Account]
    BY RevisionIs, Zenon DEF Inv, AccountInv
  <2>2. now \in 0..MaxTime
    BY Zenon DEF Inv, GateInv
  <2> QED
    BY <2>1, <2>2
<1>5. /\ IsPair(Pair) /\ Pair.engine = engine
  BY <1>2, PairIs, Zenon DEF Inv, HandleInv, GateInv
<1>6. x.engine.queues = engine.queues \/ x.engine.queues = EmptyQueues
  <2>1. x.engine.queues = SyncedQueues(Pair)
    BY <1>5, SyncedOps
  <2> QED
    BY <1>5, <2>1 DEF SyncedQueues
<1> HIDE DEF x, dk
<1>7. /\ n \in 0..Len(x.engine.queues[d])
      /\ Settled(y, acc, dk, changes, now)
      /\ \A i \in 1..n : /\ x.engine.queues[d][i].due <= now
                         /\ x.engine.queues[d][i].payload.change = changes
                         /\ now >= dk
  BY <1>3, <1>4, DrainSettles, Zenon
<1>8. n \in Nat /\ (x.engine.queues = EmptyQueues => n = 0)
  <2>1. x.engine.queues[d] \in Seq(Packet)
    BY <1>3, Zenon DEF Settled
  <2>2. n \in 0..Len(x.engine.queues[d])
    BY <1>7, Zenon
  <2>3. x.engine.queues = EmptyQueues => x.engine.queues[d] = <<>>
    BY EmptyQueuesOps, Zenon
  <2> HIDE DEF n
  <2> QED
    BY <2>1, <2>2, <2>3
<1> HIDE DEF y, n
<1>9. DeliveredMore(account, acc, d, n)
  BY <1>4, <1>8, DeliveringOps
<1> HIDE DEF acc
<1>10. Inv'
  BY <1>1, <1>2, <1>3, <1>7, SettledKeeps
<1>11. PassesCurrent
  <2> SUFFICES ASSUME NEW e \in Direction
               PROVE  /\ ~(acc[e].bypassed > account[e].bypassed)
                      /\ \A i \in Delivered(e) : /\ engine.queues[e][i].due <= now
                                                 /\ engine.queues[e][i].payload.change = changes
                                                 /\ now >= dk
    BY <1>1, <1>2 DEF PassesCurrent
  <2>1. /\ account[e].bypassed \in Nat /\ account[e].delivered \in Nat
        /\ acc[e].bypassed = account[e].bypassed
    BY <1>4, <1>9 DEF DeliveredMore, Account
  <2>2. CASE e = d
    <3>1. Delivered(e) = 1..n
      <4>1. acc[e].delivered - account[e].delivered = n
        BY <1>8, <1>9, <2>1, <2>2 DEF DeliveredMore
      <4> QED
        BY <1>1, <4>1 DEF Delivered
    <3>2. n # 0 => x.engine.queues = engine.queues
      BY <1>6, <1>8
    <3>3. \A i \in 1..n : n # 0
      BY <1>8
    <3>4. ASSUME NEW i \in 1..n
          PROVE  /\ engine.queues[d][i].due <= now
                 /\ engine.queues[d][i].payload.change = changes
                 /\ now >= dk
      <4>1. x.engine.queues = engine.queues
        BY <3>2, <3>3, Zenon
      <4>2. /\ x.engine.queues[d][i].due <= now
            /\ x.engine.queues[d][i].payload.change = changes
            /\ now >= dk
        BY <1>7, Zenon
      <4> QED
        BY <4>1, <4>2, Zenon
    <3> QED
      BY <2>1, <2>2, <3>1, <3>4
  <2>3. CASE e # d
    <3>1. Delivered(e) = {}
      BY <1>1, <1>9, <2>1, <2>3 DEF DeliveredMore, Delivered
    <3> QED
      BY <2>1, <3>1
  <2> QED
    BY <2>2, <2>3
<1> QED
  BY <1>10, <1>11

(* An account that does not grow passes no packet.                         *)
LEMMA NothingPasses ==
  ASSUME Inv, account' = account \/ account' = NoAccount
  PROVE  PassesCurrent
<1> SUFFICES ASSUME NEW d \in Direction
             PROVE  /\ ~(account'[d].bypassed > account[d].bypassed)
                    /\ Delivered(d) = {}
  BY DEF PassesCurrent
<1>1. account[d].bypassed \in Nat /\ account[d].delivered \in Nat
  BY DEF Inv, AccountInv, Account
<1>2. CASE account' = account
  BY <1>1, <1>2 DEF Delivered
<1>3. CASE account' = NoAccount
  <2>1. account'[d].bypassed = 0 /\ account'[d].delivered = 0
    BY <1>3 DEF NoAccount
  <2> QED
    BY <1>1, <2>1 DEF Delivered
<1> QED
  BY <1>2, <1>3

(* Every step keeps the invariant and passes only current packets.         *)
LEMMA ClientStep == Inv /\ [Next]_vars => Inv' /\ PassesCurrent
<1> SUFFICES ASSUME Inv, [Next]_vars PROVE Inv' /\ PassesCurrent
  OBVIOUS
<1>1. ASSUME NEW config \in Configs, Configure(config) PROVE Inv' /\ PassesCurrent
  BY <1>1, ConfigureStep, NothingPasses DEF Configure
<1>2. ASSUME NEW duration \in Durations, Outage(duration) PROVE Inv' /\ PassesCurrent
  BY <1>2, OutageStep, NothingPasses DEF Outage
<1>3. CASE ResetSession \/ Reset \/ Detach \/ Attach
  BY <1>3, BeginStep, NothingPasses
     DEF ResetSession, Reset, Detach, Attach, BeginClear, ResetHandle
<1>4. ASSUME NEW d \in Direction, NEW bytes \in Sizes, NEW lost \in control.config.loss,
             NEW delay \in control.config.delays, Defer(d, bytes, lost, delay)
      PROVE  Inv' /\ PassesCurrent
  <2>1. delay \in Nat
    BY ConditionerAssumption DEF Inv, HandleInv
  <2> QED
    BY <1>4, <2>1, DeferStep
<1>5. ASSUME NEW d \in Direction, Drain(d) PROVE Inv' /\ PassesCurrent
  BY <1>5, DrainStep
<1>6. CASE EndReset
  BY <1>6, EndResetStep, NothingPasses DEF EndReset
<1>7. CASE EndDetach
  BY <1>7, EndDetachStep, NothingPasses DEF EndDetach
<1>8. CASE EndAttach
  BY <1>8, EndAttachStep, NothingPasses DEF EndAttach
<1>9. CASE Tick
  BY <1>9, TickStep, NothingPasses DEF Tick
<1>10. CASE UNCHANGED vars
  BY <1>10, StutterStep, NothingPasses DEF vars
<1> QED
  BY <1>1, <1>2, <1>3, <1>4, <1>5, <1>6, <1>7, <1>8, <1>9, <1>10 DEF Next, UI, Gate

(* The handle and its engine stay consistent through every interleaving of *)
(* the UI with the two halves of the gate's operations.                    *)
THEOREM ClientInvariant == Spec => []Inv
<1>1. Inv /\ [Next]_vars => Inv'
  BY ClientStep
<1> QED
  BY ClientStarts, <1>1, PTL DEF Spec

(* The counters a UI reads are the engine's queues, the queues are ordered *)
(* and within their limits, and every packet of the session is in exactly  *)
(* one place (QueuesSound), for any configurations and bounds.             *)
THEOREM QueuesSoundHolds == Spec => []QueuesSound
<1>1. Inv => QueuesSound
  <2> SUFFICES ASSUME Inv PROVE QueuesSound
    OBVIOUS
  <2>1. /\ now \in 0..MaxTime
        /\ gate \in {"idle", "clearing", "detaching", "attaching"}
        /\ gate \in {"clearing", "detaching"} => Attached
        /\ control.config \in Configs
        /\ control.pending_outage \in Durations \cup {0}
    BY DEF Inv, GateInv, HandleInv
  <2>2. ASSUME NEW d \in Direction, NEW f \in DOMAIN NoStats
        PROVE  control.stats[d][f] \in Nat
    <3>1. control.stats[d] \in Stats
      BY DEF Inv, HandleInv
    <3>2. f \in {"queued_packets", "queued_bytes", "loss_drops", "outage_drops",
                 "overflow_drops", "transition_drops"}
      BY DEF NoStats
    <3> QED
      BY <3>1, <3>2 DEF Stats
  <2>3. ASSUME NEW d \in Direction, NEW i \in 1..Len(engine.queues[d])
        PROVE  engine.queues[d][i].due \in Nat /\ engine.queues[d][i].bytes \in Sizes
    <3>1. engine.queues[d] \in Seq(Packet)
      BY DEF Inv, GateInv
    <3>2. engine.queues[d][i] \in Packet
      BY <3>1
    <3> QED
      BY <3>2 DEF Packet
  <2>4. TypeOK
    BY <2>1, <2>2, <2>3 DEF TypeOK
  <2> QED
    BY <2>4 DEF Inv, AccountInv, QueuesSound
<1> QED
  BY ClientInvariant, <1>1, PTL

(* The handle reports an outage exactly while one is asked for or in force *)
(* (OutageReported).                                                       *)
THEOREM OutageReportedHolds == Spec => []OutageReported
<1>1. Inv => OutageReported
  <2> SUFFICES ASSUME Inv PROVE OutageReported
    OBVIOUS
  <2>1. control.revision = changes /\ dark \in Nat
    BY DEF Inv, HandleInv, OutageInv
  <2>2. Attached => engine.last_now \in Nat
    BY DEF Inv, GateInv
  <2>3. CASE InStep(Pair)
    <3>1. Attached
      BY <2>1, <2>3, PairIs, NoEngineOps, RevisionIs, RevisionsAssumption
    <3>2. /\ asked = 0 /\ control.outage_active = (engine.outage_until # 0)
          /\ engine.outage_until = IF dark > engine.last_now THEN dark ELSE 0
      BY <2>3 DEF Inv, OutageInv
    <3>3. engine.outage_until # 0 <=> dark > engine.last_now
      BY <2>1, <2>2, <3>1, <3>2
    <3> QED
      BY <3>1, <3>2, <3>3, Zenon DEF OutageReported
  <2>4. CASE ~InStep(Pair)
    <3>1. dark = 0 /\ control.outage_active = (asked # 0)
      BY <2>4, Zenon DEF Inv, OutageInv
    <3>2. ~(Attached /\ dark > engine.last_now)
      BY <2>2, <3>1
    <3> QED
      BY <3>1, <3>2, Zenon DEF OutageReported
  <2> QED
    BY <2>3, <2>4
<1> QED
  BY ClientInvariant, <1>1, PTL

(* drain_ready hands out only packets that are due and were offered after  *)
(* the latest change of the handle (DeliversCurrent).                      *)
THEOREM DeliversCurrentHolds == Spec => DeliversCurrent
<1> DEFINE A == \A d \in Direction : \A i \in Delivered(d) :
                   LET packet == engine.queues[d][i]
                   IN  packet.due <= now /\ packet.payload.change = changes
<1>1. Inv /\ [Next]_vars => [A]_vars
  BY ClientStep DEF PassesCurrent
<1>2. Spec => [][A]_vars
  <2> HIDE DEF A
  <2> QED
    BY ClientInvariant, <1>1, PTL DEF Spec
<1> QED
  BY <1>2 DEF DeliversCurrent

(* Nothing passes in either direction between the poll that notices an     *)
(* outage and its end (OutageIsSilent).                                    *)
THEOREM OutageIsSilentHolds == Spec => OutageIsSilent
<1> DEFINE A == \A d \in Direction :
                   \/ account'[d].delivered > account[d].delivered
                   \/ account'[d].bypassed > account[d].bypassed
                   => now >= dark'
<1>1. Inv /\ [Next]_vars => [A]_vars
  <2> SUFFICES ASSUME Inv, Inv', PassesCurrent, NEW d \in Direction,
                      account'[d].delivered > account[d].delivered
               PROVE  now >= dark'
    BY ClientStep DEF PassesCurrent
  <2>1. account[d].delivered \in Nat /\ account'[d].delivered \in Nat
    BY DEF Inv, AccountInv, Account
  <2>2. 1 \in Delivered(d)
    BY <2>1 DEF Delivered
  <2> QED
    BY <2>2 DEF PassesCurrent
<1>2. Spec => [][A]_vars
  <2> HIDE DEF A
  <2> QED
    BY ClientInvariant, <1>1, PTL DEF Spec
<1> QED
  BY <1>2 DEF OutageIsSilent

=============================================================================
