-------------------------- MODULE MC_BranchSearch --------------------------
EXTENDS BranchSearch

(* Where losers are deleted for the first time, the order of ranks matters. *)
MCRanks == [g \in 0..(Generations - 1) |-> IF g = 0 THEN {0, 1} ELSE {0}]

(* Every node of a generation scores the same.                              *)
MCTies == [g \in 0..(Generations - 1) |-> {0}]
=============================================================================
