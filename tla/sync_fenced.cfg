SPECIFICATION FairSpec
CONSTANTS
  p1 = p1  p2 = p2  r1 = r1  r2 = r2
  Syncs = {p1, p2}
  Resources = {r1}
  MaxVersion = 2
  MaxFaults = 1
  Concurrency = 1
  Waiting = {TRUE, FALSE}
  Nobody = Nobody
INVARIANTS TypeOK
PROPERTIES LatestClaimDecides CatchesUp
