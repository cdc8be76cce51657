---------------------------- MODULE MCDreamSweep ----------------------------
(* Small instances of the Dream sweep for TLC. *)
EXTENDS DreamSweep, TLC

CONSTANTS p1, p2, s1, s2

SweeperSymmetry == Permutations(Sweepers)
=============================================================================
