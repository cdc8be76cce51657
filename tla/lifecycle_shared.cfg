SPECIFICATION FairSpec
CONSTANTS
  j1 = j1  j2 = j2  i1 = i1  p1 = p1  p2 = p2
  Jobs = {j1}
  Intents = {i1}
  Procs = {p1}
  Keys = {k1, k2}
  NoKey = NoKey  NoProc = NoProc  NoIntent = NoIntent
  Contents = {c1, c2}
  LeaseTimes = {1}
  Budgets = {1}
  MaxTime = 3
  MaxLag = 1
PROPERTIES IntentStepwise ExpiredIsReaped
CHECK_DEADLOCK FALSE
