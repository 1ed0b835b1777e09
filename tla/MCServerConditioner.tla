------------------------ MODULE MCServerConditioner ------------------------
(* Three policies for the server conditioner: delay and jitter with room   *)
(* for two peers, loss with room for one, and no impairment.               *)
EXTENDS ServerConditioner, TLC

MCConfigs ==
    {[packets |-> [enabled |-> TRUE, delays |-> {0, 1}, loss |-> {FALSE},
                   max_queue_packets |-> 1, max_queue_bytes |-> 1],
      max_peers |-> 2, idle_timeout |-> 1],
     [packets |-> [enabled |-> TRUE, delays |-> {1}, loss |-> {TRUE, FALSE},
                   max_queue_packets |-> 2, max_queue_bytes |-> 2],
      max_peers |-> 1, idle_timeout |-> 2],
     [packets |-> [enabled |-> FALSE, delays |-> {0}, loss |-> {FALSE},
                   max_queue_packets |-> 1, max_queue_bytes |-> 1],
      max_peers |-> 2, idle_timeout |-> 1]}

(* The code treats the members of these sets alike.                        *)
Symmetric == Permutations(Gates) \cup Permutations(Peers) \cup Permutations(Direction)
=============================================================================
