--------------------------- MODULE MCDreamReports ---------------------------
(* Small instances of report delivery for TLC. *)
EXTENDS DreamReports, TLC

CONSTANTS m1, m2, m3, d1

MorningSymmetry == Permutations(Morning)
=============================================================================
