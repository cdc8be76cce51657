SPECIFICATION Spec
CONSTANTS
  s1 = s1  s2 = s2
  Scanners = {s1}
  NumRecords = 2
  Open = {"open"}
  Done = {"done"}
  Start <- AllOpen
  Limit = 1
  MaxEdits = 2
  MaxFull = 0
  MaxFaults = 0
  Nothing = Nothing
INVARIANTS CompletedIsWhole
