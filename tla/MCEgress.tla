------------------------------ MODULE MCEgress ------------------------------
(* Small instance of Egress: two budgets and half-byte credit.             *)
EXTENDS Egress, TLC

MCConfigs == {[rate |-> 1, burst |-> 3, reserve |-> 1],
              [rate |-> 3, burst |-> 4, reserve |-> 2]}

KeySymmetry == Permutations(Keys)
=============================================================================
