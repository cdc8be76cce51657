SPECIFICATION FairSpec
CONSTANTS
  i1 = i1  i2 = i2  e1 = e1  e2 = e2  j1 = j1  j2 = j2
  Intents = {i1}
  Kinds = {"text", "file", "slack"}
  Executors = {e1, e2}
  Janitors = {j1, j2}
  TTL = 2
  Stale = 1
  Retention = 2
  MaxFaults = 3
  NoIntent = NoIntent
INVARIANTS TypeOK AtMostOnce VerdictHonest StagedWhilePending
PROPERTIES NothingLeftBehind
CHECK_DEADLOCK FALSE
