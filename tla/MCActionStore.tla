---------------------------- MODULE MCActionStore ----------------------------
EXTENDS ActionStore, TLC
CONSTANTS i1, i2, e1, e2, j1, j2
Symmetry == Permutations({e1, e2})
=============================================================================
