----------------------------- MODULE MCLifecycle -----------------------------
(* Small instances of the lifecycle database for TLC. *)
EXTENDS Lifecycle, TLC

CONSTANTS j1, j2, i1, p1, p2

ProcSymmetry == Permutations(Procs)
=============================================================================
