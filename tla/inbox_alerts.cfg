SPECIFICATION FairSpec
CONSTANTS
  e1 = e1  e2 = e2  p1 = p1  p2 = p2
  Events = {e1, e2}
  Mixes <- MixesOnce
  Procs = {p1, p2}
  MaxFaults = 1
  Nobody = Nobody
INVARIANTS TypeOK NothingLost RepeatedOnlyAfterLapse
PROPERTIES EveryEventIsHandled
