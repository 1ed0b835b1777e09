---------------------------- MODULE MCBootstrap ----------------------------
(* Small instance of Bootstrap: every ticket expires after one second.     *)
EXTENDS Bootstrap, TLC

MCExpiry == [k \in Keys |-> 2]

CallerSymmetry == Permutations(Callers)
=============================================================================
