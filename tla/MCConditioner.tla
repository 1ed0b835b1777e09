--------------------------- MODULE MCConditioner ---------------------------
(* Three policies for the client conditioner: jitter with a short queue,   *)
(* loss with a queue bounded by its bytes, and no impairment.              *)
EXTENDS Conditioner, TLC

MCConfigs ==
    {[enabled |-> TRUE, delays |-> {0, 2}, loss |-> {FALSE},
      max_queue_packets |-> 2, max_queue_bytes |-> 4],
     [enabled |-> TRUE, delays |-> {1}, loss |-> {TRUE, FALSE},
      max_queue_packets |-> 3, max_queue_bytes |-> 3],
     [enabled |-> FALSE, delays |-> {0}, loss |-> {FALSE},
      max_queue_packets |-> 1, max_queue_bytes |-> 1]}

(* The code treats the members of these sets alike.                        *)
Symmetric == Permutations(Direction)
=============================================================================
