------------------------------ MODULE DemoServer ------------------------------
(***************************************************************************)
(* The example authoritative server: src/examples/server/src/main.rs.      *)
(*                                                                         *)
(* Two Bevy systems share AuthoritativeState.  network_transport_update    *)
(* drains the transport's events into two lists; fixed_server_tick empties *)
(* the lists, reads the inputs, simulates one tick and publishes what      *)
(* changed.  The systems run at different rates, so any number of updates  *)
(* may fall between two ticks.                                             *)
(*                                                                         *)
(* Ticks are relative here: an input carries its age in ticks, a respawn   *)
(* entry the ticks it still has to wait.  The world is a line of cells,    *)
(* two entities touch when they share a cell, and a player's mass is the   *)
(* number of meals it has had, at most MaxMass of them told apart; one     *)
(* meal more is enough to eat another player (PLAYER_CONSUME_RATIO).       *)
(* Colour, velocity, radius and log lines are left out.                    *)
(***************************************************************************)
EXTENDS InputSeq, FiniteSets, SequencesExt

CONSTANTS
    Client,                     \* client ids; the allocator never reuses one
    Spawn,                      \* [Client -> Cells], spawn_point_from_id
    Edge,                       \* the cells are 0 .. Edge
    PelletIds,                  \* ids handed to pellets, disjoint from Client
    PelletCells,                \* bound: the cells rand_range draws
    TARGET_PELLET_COUNT,
    RESPAWN_TICKS,
    INPUT_STALE_TIMEOUT_TICKS,
    MaxMass                     \* bound on the masses told apart

ASSUME DemoAssumption ==
    /\ Client \subseteq Nat /\ PelletIds \subseteq Nat
    /\ Client \cap PelletIds = {}
    /\ Cardinality(PelletIds) >= 2 * TARGET_PELLET_COUNT
    /\ RESPAWN_TICKS \in Nat \ {0} /\ INPUT_STALE_TIMEOUT_TICKS \in Nat \ {0}
    /\ Spawn \in [Client -> 0..Edge]
    /\ PelletCells \subseteq 0..Edge

VARIABLES
    session,    \* the bootstrap registry: [Client -> none/pending/active/ended]
    conn,       \* RenetServer's connections: [Client -> none/connected/closing]
    flight,     \* inputs on the unreliable channel: [Client -> SUBSET Input]
    inbox,      \* inputs renet holds for the next tick: [Client -> Seq(Input)]
    game,       \* AuthoritativeState and the entities of the Bevy world
    beat        \* the low bit of ServerTickCounter

vars == <<session, conn, flight, inbox, game, beat>>

Cells == 0..Edge
Dirs == {-1, 0, 1}
Input == [seq : 0..SeqSpace - 1, dir : Dirs]
Body == [pos : Cells, mass : 0..MaxMass]

(* A partial function without some of its keys: HashMap::remove. *)
Without(f, keys) == Restrict(f, DOMAIN f \ keys)

(* server.clients_id(): the connections renet has not marked disconnected. *)
Connected == {c \in Client : conn[c] = "connected"}

-----------------------------------------------------------------------------
(* The stages of a tick, each from one game state to the next. *)

(* Mutant: the respawn queue keeps the entries of a client that left. *)
handle_disconnect_no_queue(g, gone) ==
    [g EXCEPT !.players = Without(@, gone),
              !.inputs = Without(@, gone),
              !.age = Without(@, gone),
              !.last_input_seq = Without(@, gone),
              !.pending_join_snapshots = @ \ gone]

(* despawn_player_entities and every map entry of the clients that left. *)
handle_disconnect(g, gone) ==
    [g EXCEPT !.players = Without(@, gone),
              !.inputs = Without(@, gone),
              !.age = Without(@, gone),
              !.last_input_seq = Without(@, gone),
              !.respawn_queue = SelectSeq(@, LAMBDA e : e.client \notin gone),
              !.pending_join_snapshots = @ \ gone]

take_pending_disconnects(g) ==
    [handle_disconnect(g, g.pending_disconnects) EXCEPT
        !.pending_disconnects = {}]

(* spawn_player for every client of new, at its spawn point and base mass. *)
spawn_player(g, new) ==
    [g EXCEPT !.players = [c \in new |-> [pos |-> Spawn[c], mass |-> 0]] @@ @]

(* The connects still connected and without a player spawn one and queue    *)
(* their join snapshot.                                                     *)
take_pending_connects(g, connected) ==
    LET new == (g.pending_connects \cap connected) \ DOMAIN g.players
    IN  [spawn_player(g, new) EXCEPT
            !.pending_connects = {},
            !.pending_join_snapshots = @ \cup new]

(* Mutant: the latest input to arrive wins, however old. *)
process_client_input_last_wins(g, c, input) ==
    [g EXCEPT !.last_input_seq = (c :> input.seq) @@ @,
              !.age = (c :> 0) @@ @,
              !.inputs = (c :> input) @@ @]

(* An input counts when it is the client's first or newer than its last. *)
process_client_input_message(g, c, input) ==
    IF c \notin DOMAIN g.last_input_seq
       \/ is_newer_input_seq(input.seq, g.last_input_seq[c])
    THEN [g EXCEPT !.last_input_seq = (c :> input.seq) @@ @,
                   !.age = (c :> 0) @@ @,
                   !.inputs = (c :> input) @@ @]
    ELSE g

(* Every connected client's queue is drained in order. *)
receive_inputs(g, connected, boxes) ==
    LET Drain(h, c) ==
            FoldLeft(LAMBDA k, i : process_client_input_message(k, c, i),
                     h, boxes[c])
    IN  FoldSet(LAMBDA c, h : Drain(h, c), g, connected)

(* tick := tick + 1, seen by everything that remembers a tick. *)
advance_tick(g) ==
    [g EXCEPT !.age = [c \in DOMAIN @ |->
                          IF @[c] > INPUT_STALE_TIMEOUT_TICKS THEN @[c]
                                                              ELSE @[c] + 1],
              !.respawn_queue = [i \in DOMAIN @ |->
                                    [@[i] EXCEPT !.wait = @ - 1]]]

(* Mutant: an entry is dropped when it is due, player or not. *)
process_respawns_forgets(g, connected) ==
    [g EXCEPT !.respawn_queue = SelectSeq(@, LAMBDA e : e.wait > 0)]

(* Entries that are due leave the queue; their clients respawn when they    *)
(* are connected and have no player.                                        *)
process_respawns(g, connected) ==
    LET due == {e.client : e \in {x \in Range(g.respawn_queue) : x.wait <= 0}}
        back == (due \cap connected) \ DOMAIN g.players
    IN  [spawn_player(g, back) EXCEPT
            !.respawn_queue = SelectSeq(@, LAMBDA e : e.wait > 0),
            !.eventful = @ \/ back # {}]

Clamp(x) == IF x < 0 THEN 0 ELSE IF x > Edge THEN Edge ELSE x

(* A player moves by its input while the input is fresh. *)
apply_player_movement(g) ==
    LET Fresh(c) == /\ c \in DOMAIN g.inputs
                    /\ c \in DOMAIN g.age
                    /\ g.age[c] <= INPUT_STALE_TIMEOUT_TICKS
        Step(c) == IF Fresh(c) THEN g.inputs[c].dir ELSE 0
    IN  [g EXCEPT !.players = [c \in DOMAIN @ |->
            [@[c] EXCEPT !.pos = Clamp(@ + Step(c))]]]

Heavier(mass, gain) == IF mass + gain > MaxMass THEN MaxMass ELSE mass + gain

(* A pellet goes to the player with the lowest id among those touching it. *)
consume_pellets(g) ==
    LET Near(p) == {c \in DOMAIN g.players : g.players[c].pos = g.pellets[p]}
        eaten == {p \in DOMAIN g.pellets : Near(p) # {}}
        Meals(c) == {p \in eaten : c = Min(Near(p))}
    IN  [g EXCEPT !.players = [c \in DOMAIN @ |->
                       [@[c] EXCEPT !.mass = Heavier(@, Cardinality(Meals(c)))]],
                  !.pellets = Without(@, eaten),
                  !.eventful = @ \/ eaten # {}]

(* The pairs of players in the order of the two nested loops. *)
PlayerPairs(ids) ==
    SetToSortSeq({p \in ids \X ids : p[1] < p[2]},
                 LAMBDA p, q : p[1] < q[1] \/ (p[1] = q[1] /\ p[2] < q[2]))

(* Who eats whom, <<eater, eaten>> in order.  Masses are those at the start *)
(* of the stage; the dead neither eat nor are eaten again.                  *)
player_meals(g) ==
    LET Eats(a, b) == /\ g.players[a].pos = g.players[b].pos
                      /\ g.players[a].mass > g.players[b].mass
        Dead(meals) == {m[2] : m \in Range(meals)}
        Duel(meals, p) ==
            CASE {p[1], p[2]} \cap Dead(meals) # {} -> meals
              [] Eats(p[1], p[2]) -> Append(meals, p)
              [] Eats(p[2], p[1]) -> Append(meals, <<p[2], p[1]>>)
              [] OTHER -> meals
    IN  FoldLeft(Duel, <<>>, PlayerPairs(DOMAIN g.players))

(* The eaten lose their player, input and input age, keep their last        *)
(* sequence number and queue for a respawn.                                 *)
consume_players(g) ==
    LET meals == player_meals(g)
        dead == {m[2] : m \in Range(meals)}
        Gain(c) == Cardinality({i \in DOMAIN meals : meals[i][1] = c})
    IN  [g EXCEPT
            !.players = Without([c \in DOMAIN @ |->
                [@[c] EXCEPT !.mass = Heavier(@, Gain(c))]], dead),
            !.inputs = Without(@, dead),
            !.age = Without(@, dead),
            !.respawn_queue = @ \o [i \in DOMAIN meals |->
                [client |-> meals[i][2], wait |-> RESPAWN_TICKS]],
            !.eventful = @ \/ meals # <<>>]

(* Fresh ids for n pellets.  next_entity_id only grows, so an id that is in *)
(* the world or in the last published world is never handed out again.      *)
FreshIds(g, n) ==
    LET free == PelletIds \ (DOMAIN g.pellets \cup DOMAIN g.snapshot_cache)
    IN  {free \ {q \in free : Cardinality({p \in free : p < q}) >= n}}

MissingPellets(g) == TARGET_PELLET_COUNT - Cardinality(DOMAIN g.pellets)

(* The states after the budget is refilled: the generator picks the places. *)
maintain_pellet_budget(g) ==
    UNION {{[g EXCEPT !.pellets = places @@ @] : places \in [ids -> PelletCells]}
           : ids \in FreshIds(g, MissingPellets(g))}

(* The entities by id, as every client is told of them. *)
current_entity_map(g) ==
    g.players @@ [p \in DOMAIN g.pellets |-> [pos |-> g.pellets[p], mass |-> 0]]

(* What changed since the last publication. *)
build_world_delta(g) ==
    LET current == current_entity_map(g)
        cache == g.snapshot_cache
        Same(id) == id \in DOMAIN cache /\ cache[id] = current[id]
    IN  [upserts |-> RestrictDomain(current, LAMBDA id : ~Same(id)),
         removed |-> DOMAIN cache \ DOMAIN current]

(* Who gets a join snapshot: still connected and still in the world. *)
join_recipients(g, connected) ==
    g.pending_join_snapshots \cap connected \cap DOMAIN g.players

(* A delta goes out when an entity changed or something happened. *)
WorthSending(g, delta) ==
    DOMAIN delta.upserts # {} \/ delta.removed # {} \/ g.eventful

(* snapshot_cache := current; the join list and the events are taken. *)
Published(g) == [g EXCEPT !.snapshot_cache = current_entity_map(g),
                          !.pending_join_snapshots = {},
                          !.eventful = FALSE]

(* Everything fixed_server_tick does before it publishes, stage by stage. *)
Simulated(g, connected, boxes) ==
    LET left == {take_pending_disconnects(g)}
        joined == {take_pending_connects(h, connected) : h \in left}
        steered == {receive_inputs(h, connected, boxes) : h \in joined}
        ticked == {advance_tick(h) : h \in steered}
        respawned == {process_respawns(h, connected) : h \in ticked}
        moved == {apply_player_movement(h) : h \in respawned}
        fed == {consume_pellets(h) : h \in moved}
        fought == {consume_players(h) : h \in fed}
    IN  UNION {maintain_pellet_budget(h) : h \in fought}

-----------------------------------------------------------------------------
(* The actions. *)

Empty == [x \in {} |-> 0]

AuthoritativeState_new ==
    [players |-> Empty, pellets |-> Empty, inputs |-> Empty, age |-> Empty,
     last_input_seq |-> Empty, respawn_queue |-> <<>>, snapshot_cache |-> Empty,
     pending_connects |-> {}, pending_disconnects |-> {},
     pending_join_snapshots |-> {}, eventful |-> FALSE]

(* bootstrap_authoritative_world has filled the pellet budget. *)
Init ==
    /\ session = [c \in Client |-> "none"]
    /\ conn = [c \in Client |-> "none"]
    /\ flight = [c \in Client |-> {}]
    /\ inbox = [c \in Client |-> <<>>]
    /\ game \in maintain_pellet_budget(AuthoritativeState_new)
    /\ beat = 0

(* The HTTP thread issues a session for a fresh id. *)
SessionNew(c) ==
    /\ session[c] = "none"
    /\ session' = [session EXCEPT ![c] = "pending"]
    /\ UNCHANGED <<conn, flight, inbox, game, beat>>

(* The registry's TTL ends a session nobody connected with. *)
SessionExpires(c) ==
    /\ session[c] = "pending"
    /\ session' = [session EXCEPT ![c] = "ended"]
    /\ UNCHANGED <<conn, flight, inbox, game, beat>>

(* network_transport_update draining ClientConnected: a client whose session *)
(* is not pending is disconnected at once.                                   *)
network_transport_connected(c) ==
    /\ conn[c] = "none"
    /\ IF session[c] = "pending"
       THEN /\ session' = [session EXCEPT ![c] = "active"]
            /\ conn' = [conn EXCEPT ![c] = "connected"]
            /\ game' = [game EXCEPT !.pending_connects = @ \cup {c}]
       ELSE /\ conn' = [conn EXCEPT ![c] = "closing"]
            /\ UNCHANGED <<session, game>>
    /\ UNCHANGED <<flight, inbox, beat>>

(* network_transport_update draining ClientDisconnected: renet has dropped   *)
(* the connection with its queues, and the registry forgets the client.      *)
network_transport_disconnected(c) ==
    /\ conn[c] \in {"connected", "closing"}
    /\ conn' = [conn EXCEPT ![c] = "none"]
    /\ session' = [session EXCEPT ![c] = IF @ = "none" THEN @ ELSE "ended"]
    /\ game' = [game EXCEPT !.pending_disconnects = @ \cup {c}]
    /\ flight' = [flight EXCEPT ![c] = {}]
    /\ inbox' = [inbox EXCEPT ![c] = <<>>]
    /\ UNCHANGED beat

(* A connection renet itself marks disconnected, the event still to come. *)
ConnectionFails(c) ==
    /\ conn[c] = "connected"
    /\ conn' = [conn EXCEPT ![c] = "closing"]
    /\ UNCHANGED <<session, flight, inbox, game, beat>>

(* network_transport_update receiving inputs, in any order; one that is      *)
(* never received is lost.                                                   *)
InputArrives(c) ==
    /\ conn[c] = "connected"
    /\ \E input \in flight[c] :
          /\ flight' = [flight EXCEPT ![c] = @ \ {input}]
          /\ inbox' = [inbox EXCEPT ![c] = Append(@, input)]
    /\ UNCHANGED <<session, conn, game, beat>>

(* network_transport_update, for one client's event. *)
network_transport_update(c) ==
    network_transport_connected(c) \/ network_transport_disconnected(c)

(* tick_counter.0 + 1, the sign that a tick took place. *)
Beat == beat' = 1 - beat

(* The tick that leaves the world g behind. *)
fixed_server_tick(g) ==
    /\ g \in Simulated(game, Connected, inbox)
    /\ game' = Published(g)
    /\ inbox' = [c \in Client |-> IF c \in Connected THEN <<>> ELSE inbox[c]]
    /\ Beat
    /\ UNCHANGED <<session, conn, flight>>

-----------------------------------------------------------------------------
(* Everyone is accounted for.  A client that is connected and no longer      *)
(* waiting to spawn has exactly one of a player and a place in the respawn   *)
(* queue, so being eaten, respawning, leaving and joining between two ticks  *)
(* never lose or duplicate it; whatever fixed_server_tick remembers of a     *)
(* client belongs to an admitted session or to one whose disconnect the next *)
(* tick handles.                                                             *)
PlayersAccounted ==
    \A c \in Client :
        LET g == game
            queued == {i \in DOMAIN g.respawn_queue : g.respawn_queue[i].client = c}
            lives == Cardinality({c} \cap DOMAIN g.players) + Cardinality(queued)
            known == \/ lives > 0
                     \/ c \in DOMAIN g.inputs \cup DOMAIN g.last_input_seq
                               \cup g.pending_join_snapshots
        IN  /\ lives <= 1
            /\ conn[c] = "connected" /\ c \notin g.pending_connects => lives = 1
            /\ known => session[c] = "active" \/ c \in g.pending_disconnects

(* The newest input rules.  However the unreliable channel reorders inputs,  *)
(* the sequence number a tick leaves with process_client_input_message is    *)
(* the newest of those received so far, and the input the player moves by,   *)
(* when it has one, is the input of that number.                             *)
NewestInputRules ==
    [][ \A c \in Connected :
          LET seen == {i.seq : i \in Range(inbox[c])}
                         \cup {game.last_input_seq[d] :
                                  d \in {c} \cap DOMAIN game.last_input_seq}
              newest == CHOOSE s \in seen :
                            \A r \in seen : r = s \/ is_newer_input_seq(s, r)
          IN  (inbox[c] # <<>> /\ inbox'[c] = <<>> /\ c \in Connected')
                  => /\ game'.last_input_seq[c] = newest
                     /\ c \in DOMAIN game'.inputs
                           => game'.inputs[c].seq = newest ]_vars

(* Everyone plays.  A connected client, newly joined or eaten, has a player   *)
(* in the world again after finitely many ticks, unless it leaves or somebody *)
(* stays within a step of its spawn point (a heavier player there eats it in  *)
(* the tick that respawns it, and may do so for ever).                        *)
EveryonePlays ==
    \A c \in Client :
        conn[c] = "connected" ~>
            \/ conn[c] # "connected"
            \/ c \in DOMAIN game.players
            \/ \E d \in DOMAIN game.players :
                  game.players[d].pos \in Spawn[c] - 1 .. Spawn[c] + 1
=============================================================================
