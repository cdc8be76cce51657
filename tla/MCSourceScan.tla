----------------------------- MODULE MCSourceScan -----------------------------
EXTENDS SourceScan, TLC
CONSTANTS s1, s2
AllOpen == {[r \in 1..NumRecords |-> "open"]}
=============================================================================
