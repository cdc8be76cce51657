SPECIFICATION FairSpec
CONSTANTS
  p1 = p1  p2 = p2  s1 = s1  s2 = s2
  Sweepers = {p1, p2}
  Sources = {s1}
  MaxVer = 2
  Claims = {c1}
  Wordings = {w1}
  Insights = {i1}
  Scores = {x1}
  MaxRuns = 2
  MaxFaults = 2
  RetainRuns = 2
  RetainReports = 1
  None = None
PROPERTIES PublicationDelivered IntentDelivered
INVARIANTS TypeOK CheckpointIsHonest
