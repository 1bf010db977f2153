---------------------------- MODULE MCProverQueue ----------------------------
(* Small instances of ProverQueue for TLC. *)
EXTENDS ProverQueue, TLC

CONSTANTS r1, r2

Symmetry == Permutations(Requests)
===============================================================================
