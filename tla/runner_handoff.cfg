SPECIFICATION FairSpec
CONSTANTS
  g1 = g1  g2 = g2
  Groups = {g1, g2}
  MaxFaults = 2
INVARIANTS TypeOK CleanMeansGone
PROPERTIES ShutdownHeeded
CHECK_DEADLOCK FALSE
