------------------------------- MODULE MCDemo -------------------------------
(* Client 2 is followed on two cells with one pellet at a time: in company   *)
(* and on a faithful network, or alone on one that loses and reorders.       *)
EXTENDS Demo

MCClient == {1, 2}
MCSpawn == [c \in MCClient |-> 2 - c]
MCPelletIds == {11, 12}

MCScenarios == {[lossy |-> FALSE, guests |-> {1}, window |-> 1],
                [lossy |-> TRUE, guests |-> {}, window |-> 2]}
=============================================================================
