--------------------------- MODULE MCResourceSync ---------------------------
EXTENDS ResourceSync, TLC
CONSTANTS p1, p2, r1, r2
SyncSymmetry == Permutations({p1, p2})
=============================================================================
