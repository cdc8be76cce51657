SPECIFICATION FairSpec
CONSTANTS
  s1 = s1  s2 = s2
  Scanners = {s1, s2}
  NumRecords = 2
  Open = {"open"}
  Done = {"done"}
  Start <- AllOpen
  Limit = 1
  MaxEdits = 2
  MaxFull = 1
  MaxFaults = 1
  Nothing = Nothing
INVARIANTS TypeOK ReconciledIsStored PublishedMeansApplied
PROPERTIES TombstonesOnlyAbsent EditsArrive
