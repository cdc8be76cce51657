SPECIFICATION Spec
CONSTANTS
  m1 = m1  m2 = m2  m3 = m3  d1 = d1
  Morning = {m1, m2}
  Cli = {d1}
  Texts = {t1, t2}
  MaxReports = 2
  ClaimTime = 1
  DayLength = 3
  MaxTime = 3
  None = None
SYMMETRY MorningSymmetry
INVARIANTS TypeOK OneTextPerReport DeliveredWasWritten DayIsNotLost
CHECK_DEADLOCK FALSE
