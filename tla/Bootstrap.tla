----------------------------- MODULE Bootstrap -----------------------------
(***************************************************************************)
(* The session bootstrap service (src/src/bootstrap.rs): an identity       *)
(* allocator, the session registry behind its mutex, the replay fence for  *)
(* admission tickets and the claim that lets a session build one RTC peer  *)
(* (src/src/sdp_http.rs).  HTTP handlers and the server loop call it       *)
(* concurrently.  Every call reads its clocks BEFORE it takes the mutex,   *)
(* so a call may run with readings that are arbitrarily old.               *)
(*                                                                         *)
(* Time is counted in ticks, TicksPerSecond to the second.  The wall clock *)
(* is never stepped: both clocks are the one variable now.  Grant expiries *)
(* are whole seconds, and the code compares them with the wall clock       *)
(* truncated to seconds.                                                   *)
(***************************************************************************)
EXTENDS Integers, FiniteSets, Functions

CONSTANTS
    Callers,         \* threads that call the service
    Keys,            \* replay keys, one per admission ticket
    NoKey,           \* the session of a policy that issues no grant
    Expiry,          \* expires_at of each ticket, in ticks
    TicksPerSecond,
    Ttl,             \* session_ttl, in ticks
    PendingLimit, ActiveLimit, ReplayLimit,  \* BootstrapLimits
    MaxId,           \* bound: identities before the allocator is exhausted
    MaxTime          \* bound: last tick

ASSUME TicksAssumption == TicksPerSecond \in Nat \ {0}
ASSUME KeyAssumption   == NoKey \notin Keys
ASSUME ExpiryAssumption == Expiry \in [Keys -> Nat] /\ \A k \in Keys : Expiry[k] % TicksPerSecond = 0
ASSUME BoundAssumption ==
    /\ {Ttl, MaxId, MaxTime} \subseteq Nat
    /\ {PendingLimit, ActiveLimit, ReplayLimit} \subseteq Nat \ {0}

Ids  == 0 .. MaxId - 1
Time == 0 .. MaxTime
Never == -1   \* expires == None

VARIABLES
    now,        \* the clock
    next_id,    \* MonotonicClientIdAllocator
    pending,    \* id -> the tick it was issued at
    active,     \* set of ids
    details,    \* id -> SessionDetails
    used,       \* used_grants: key -> the tick the fence ends
    call,       \* what each caller is doing, with the clocks it has read
    issued,     \* ghost: id -> key and tick of every session ever issued
    activated,  \* ghost: every id ever activated
    claims      \* ghost: id -> offers that got past the claim

vars == <<now, next_id, pending, active, details, used, call, issued, activated, claims>>
registry == <<pending, active, details, used>>

Steps == {"idle", "create", "create_locks", "offer", "build", "connect"}
Idle == [step |-> "idle", id |-> 0, wall |-> 0, mono |-> 0]

Empty == [x \in {} |-> 0]

Init ==
    /\ now = 0 /\ next_id = 0
    /\ pending = Empty /\ active = {} /\ details = Empty /\ used = Empty
    /\ call = [p \in Callers |-> Idle]
    /\ issued = Empty /\ activated = {} /\ claims = [id \in Ids |-> 0]

-----------------------------------------------------------------------------
(* Clock arithmetic. *)

Seconds(t) == t - (t % TicksPerSecond)     \* Duration::as_secs, in ticks

Age(t, start) == IF t < start THEN 0 ELSE t - start   \* saturating_duration_since

(* Mutant: round the elapsed second up, so that the fence ends early. *)
FenceEndRoundsUp(k, wall, mono) == mono + Expiry[k] - (Seconds(wall) + TicksPerSecond)

(* The monotonic instant a ticket's expiry is taken to be. *)
FenceEnd(k, wall, mono) == mono + Expiry[k] - Seconds(wall)

-----------------------------------------------------------------------------
(* InMemorySessionRegistry *)

(* Mutant: the grant's own expiry does not end a pending session. *)
KeptIgnoresGrant(t) == {id \in DOMAIN pending : Age(t, pending[id]) < Ttl}

(* cleanup_at(t): what stays of pending, details and used_grants. *)
Kept(t) ==
    {id \in DOMAIN pending :
        /\ Age(t, pending[id]) < Ttl
        /\ id \in DOMAIN details => details[id].expires = Never \/ details[id].expires > t}
KeptDetails(t) == {id \in DOMAIN details : id \in Kept(t) \cup active}
KeptGrants(t)  == {k \in DOMAIN used : used[k] > t}

CleanupAt(t) ==
    /\ pending' = Restrict(pending, Kept(t))
    /\ details' = Restrict(details, KeptDetails(t))
    /\ used'    = Restrict(used, KeptGrants(t))
    /\ UNCHANGED active

Full(t) == Cardinality(Kept(t)) >= PendingLimit \/ Cardinality(active) >= ActiveLimit

(* try_issue_at and the two insertions that follow it. *)
Insert(id, k, expires, t) ==
    /\ pending' = [x \in Kept(t) \cup {id} |-> IF x = id THEN t ELSE pending[x]]
    /\ details' = [x \in KeptDetails(t) \cup {id} |->
                     IF x = id THEN [key |-> k, expires |-> expires, claimed |-> FALSE]
                               ELSE details[x]]
    /\ used' = [x \in KeptGrants(t) \cup ({k} \ {NoKey}) |-> IF x = k THEN expires ELSE used[x]]
    /\ UNCHANGED active

(* Mutant: only admission looks at the limit on active sessions. *)
ActiveRoomUnchecked == TRUE

ActiveRoom == Cardinality(active) < ActiveLimit

(* activate_at of a pending session, with ActiveRoom *)
Activate(id, t) ==
    /\ pending' = Restrict(pending, Kept(t) \ {id})
    /\ active'  = active \cup {id}
    /\ details' = Restrict(details, KeptDetails(t))
    /\ used'    = Restrict(used, KeptGrants(t))

(* Mutant: the details of the departed session stay. *)
DeactivateKeepsDetails(id) ==
    /\ pending' = Restrict(pending, DOMAIN pending \ {id})
    /\ active'  = active \ {id}
    /\ UNCHANGED <<details, used>>

(* deactivate: the replay fence outlives the session. *)
Deactivate(id) ==
    /\ pending' = Restrict(pending, DOMAIN pending \ {id})
    /\ active'  = active \ {id}
    /\ details' = Restrict(details, DOMAIN details \ {id})
    /\ UNCHANGED used

-----------------------------------------------------------------------------
(* create_session_with_request *)

At(p, step) == call[p].step = step
Becomes(p, c) == call' = [call EXCEPT ![p] = c]

CreateSession(p) ==
    /\ At(p, "idle")
    /\ Becomes(p, [Idle EXCEPT !.step = "create", !.wall = now])
    /\ UNCHANGED <<now, next_id, registry, issued, activated, claims>>

CreateReadsInstant(p) ==
    /\ At(p, "create")
    /\ Becomes(p, [call[p] EXCEPT !.step = "create_locks", !.mono = now])
    /\ UNCHANGED <<now, next_id, registry, issued, activated, claims>>

(* try_next: checked_add *)
Exhausted == next_id = MaxId

CreateRefused(p) ==
    /\ At(p, "create_locks")
    /\ Full(call[p].mono) \/ Exhausted
    /\ CleanupAt(call[p].mono)
    /\ Becomes(p, Idle)
    /\ UNCHANGED <<now, next_id, issued, activated, claims>>

(* SecureSessionAuthPolicy::issue_session and the checks of the service.   *)
Admissible(k, wall, mono) ==
    k # NoKey =>
        /\ Expiry[k] > Seconds(wall)
        /\ Expiry[k] - Seconds(wall) <= Ttl
        /\ k \notin KeptGrants(mono)
        /\ Cardinality(KeptGrants(mono)) < ReplayLimit

CreateAdmitted(p) ==
    LET wall == call[p].wall
        mono == call[p].mono
    IN  /\ At(p, "create_locks")
        /\ ~Full(mono) /\ ~Exhausted
        /\ next_id \notin Kept(mono) \cup active
        /\ \E k \in Keys \cup {NoKey} :
             /\ Admissible(k, wall, mono)
             /\ Insert(next_id, k, IF k = NoKey THEN Never ELSE FenceEnd(k, wall, mono), mono)
             /\ issued' = [x \in DOMAIN issued \cup {next_id} |->
                             IF x = next_id THEN [key |-> k, at |-> now] ELSE issued[x]]
        /\ next_id' = next_id + 1
        /\ Becomes(p, Idle)
        /\ UNCHANGED <<now, activated, claims>>

(* A refused request has consumed its identity and run the cleanup.        *)
CreateRejected(p) ==
    /\ At(p, "create_locks")
    /\ ~Full(call[p].mono) /\ ~Exhausted
    /\ CleanupAt(call[p].mono)
    /\ next_id' = next_id + 1
    /\ Becomes(p, Idle)
    /\ UNCHANGED <<now, issued, activated, claims>>

-----------------------------------------------------------------------------
(* A client can name only a session whose response it has.  accept_offer   *)
(* borrows the transport, so offers exclude each other.                    *)

(* Mutant: an expired grant is not looked at. *)
LapsedNever(id, wall) == FALSE

(* grant.expires_at <= now.as_secs() *)
Lapsed(id, wall) == details[id].key # NoKey /\ Expiry[details[id].key] <= Seconds(wall)

AcceptOffer(p) ==
    /\ At(p, "idle")
    /\ \A q \in Callers : call[q].step \notin {"offer", "build"}
    /\ \E id \in DOMAIN issued :
         Becomes(p, [Idle EXCEPT !.step = "offer", !.id = id, !.wall = now])
    /\ UNCHANGED <<now, next_id, registry, issued, activated, claims>>

MayClaim(p) ==
    LET id == call[p].id
    IN  /\ id \in Kept(now) \cap DOMAIN details
        /\ ~details[id].claimed /\ ~Lapsed(id, call[p].wall)

(* Mutant: the claim is left for later, as if a failed offer could retry.  *)
ClaimUnmarked(id) == details' = Restrict(details, KeptDetails(now))

Claim(id) ==
    details' = [x \in KeptDetails(now) |->
                  IF x = id THEN [details[x] EXCEPT !.claimed = TRUE] ELSE details[x]]

OfferClaims(p) ==
    /\ At(p, "offer") /\ MayClaim(p)
    /\ Claim(call[p].id)
    /\ pending' = Restrict(pending, Kept(now))
    /\ used' = Restrict(used, KeptGrants(now))
    /\ Becomes(p, [call[p] EXCEPT !.step = "build"])
    /\ claims' = [claims EXCEPT ![call[p].id] = @ + 1]
    /\ UNCHANGED <<now, next_id, active, issued, activated>>

(* Also when the session token is missing or wrong. *)
OfferRefused(p) ==
    /\ At(p, "offer")
    /\ CleanupAt(now)
    /\ Becomes(p, Idle)
    /\ UNCHANGED <<now, next_id, issued, activated, claims>>

(* accept_offer_and_add_peer runs after the registry mutex is released and *)
(* succeeds or fails; the peer it adds is MixedServer's AddPeerCall.       *)
OfferBuilds(p) ==
    /\ At(p, "build")
    /\ Becomes(p, Idle)
    /\ UNCHANGED <<now, next_id, registry, issued, activated, claims>>

-----------------------------------------------------------------------------
(* on_client_connected, on_client_connected_with_user_data *)

ClientConnected(p) ==
    /\ At(p, "idle")
    /\ \E id \in DOMAIN issued :
         Becomes(p, [Idle EXCEPT !.step = "connect", !.id = id, !.wall = now])
    /\ UNCHANGED <<now, next_id, registry, issued, activated, claims>>

(* The second clock read of activate is that of is_pending: a session that *)
(* lapses between the two is refused as if both had been the later one.    *)
MayActivate(p) ==
    LET id == call[p].id
    IN  /\ id \in Kept(now)
        /\ id \in DOMAIN details => ~Lapsed(id, call[p].wall)
        /\ ActiveRoom

ConnectActivates(p) ==
    /\ At(p, "connect") /\ MayActivate(p)
    /\ Activate(call[p].id, now)
    /\ activated' = activated \cup {call[p].id}
    /\ Becomes(p, Idle)
    /\ UNCHANGED <<now, next_id, issued, claims>>

(* Also when a session with a grant presents no or other netcode user data. *)
ConnectRefused(p) ==
    /\ At(p, "connect")
    /\ MayActivate(p) => call[p].id \in DOMAIN details /\ details[call[p].id].key # NoKey
    /\ CleanupAt(now)
    /\ Becomes(p, Idle)
    /\ UNCHANGED <<now, next_id, issued, activated, claims>>

-----------------------------------------------------------------------------
ClientDisconnected(id) ==
    /\ Deactivate(id)
    /\ UNCHANGED <<now, next_id, call, issued, activated, claims>>

(* cleanup_sessions, session_grant and is_pending_session. *)
CleanupSessions ==
    /\ CleanupAt(now)
    /\ UNCHANGED <<now, next_id, call, issued, activated, claims>>

Tick ==
    /\ now < MaxTime
    /\ now' = now + 1
    /\ UNCHANGED <<next_id, registry, call, issued, activated, claims>>

CallStep(p) ==
    \/ CreateSession(p) \/ CreateReadsInstant(p)
    \/ CreateRefused(p) \/ CreateAdmitted(p) \/ CreateRejected(p)
    \/ AcceptOffer(p) \/ OfferClaims(p) \/ OfferRefused(p) \/ OfferBuilds(p)
    \/ ClientConnected(p) \/ ConnectActivates(p) \/ ConnectRefused(p)

Next ==
    \/ Tick
    \/ CleanupSessions
    \/ \E p \in Callers : CallStep(p)
    \/ \E id \in DOMAIN issued : ClientDisconnected(id)

Spec == Init /\ [][Next]_vars

-----------------------------------------------------------------------------
Ticket == Keys \cup {NoKey}

(* The registry's maps hold identities, keys and instants; no identity is  *)
(* handed out past the allocator's last one.                               *)
TypeOK ==
    /\ now \in Time /\ next_id \in 0 .. MaxId
    /\ DOMAIN pending \subseteq Ids /\ pending \in [DOMAIN pending -> Time]
    /\ active \subseteq Ids
    /\ DOMAIN details \subseteq Ids
    /\ details \in [DOMAIN details -> [key : Ticket, expires : Int, claimed : BOOLEAN]]
    /\ DOMAIN used \subseteq Keys /\ used \in [DOMAIN used -> Int]
    /\ call \in [Callers -> [step : Steps, id : Nat, wall : Time, mono : Time]]
    /\ DOMAIN issued \subseteq 0 .. next_id - 1
    /\ issued \in [DOMAIN issued -> [key : Ticket, at : Time]]
    /\ activated \subseteq DOMAIN issued
    /\ claims \in [Ids -> Nat]

(* The three maps describe the same sessions: every session has details,   *)
(* nothing else has, and no session is both pending and active.  cleanup,  *)
(* activation and deactivation each edit the maps one after the other.     *)
RegistryConsistent ==
    /\ DOMAIN details = DOMAIN pending \cup active
    /\ DOMAIN pending \cap active = {}

(* BootstrapLimits bound memory, also when calls run with old clocks.      *)
WithinLimits ==
    /\ Cardinality(DOMAIN pending) <= PendingLimit
    /\ Cardinality(active) <= ActiveLimit
    /\ Cardinality(DOMAIN used) <= ReplayLimit

(* Whatever the threads do between their clock readings and the mutex, the *)
(* registry holds one account of every session, within its limits.         *)
RegistrySound == RegistryConsistent /\ WithinLimits

(* As long as a session is pending its ticket is fenced, so no two pending *)
(* sessions come from one ticket.                                          *)
PendingFenced ==
    \A a \in DOMAIN pending : details[a].key # NoKey =>
        /\ details[a].key \in DOMAIN used
        /\ used[details[a].key] = details[a].expires
        /\ \A b \in DOMAIN pending : details[b].key = details[a].key => a = b

(* One admission ticket lets in at most one session, ever, although a      *)
(* create call that waited for the mutex may still accept the ticket after *)
(* its fence is gone.                                                      *)
TicketActivatesOnce ==
    \A a, b \in activated :
        issued[a].key = issued[b].key /\ issued[a].key # NoKey => a = b

(* A session gets at most one RTC construction; failed offers consume it.  *)
OfferClaimedOnce == \A id \in Ids : claims[id] <= 1

(* A replay key is forgotten only once its ticket has expired by the wall  *)
(* clock, whatever the truncation to seconds and the age of the readings.  *)
FenceOutlastsTicket ==
    [][\A k \in DOMAIN used \ DOMAIN used' : Expiry[k] <= now]_vars
=============================================================================
