---------------------------- MODULE MCMinerTotals ----------------------------
(* Instances of MinerTotals for TLC: threads are interchangeable.          *)
EXTENDS MinerTotals, TLC

Symmetry == Permutations(Worker)
=============================================================================
