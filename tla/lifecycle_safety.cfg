SPECIFICATION Spec
CONSTANTS
  j1 = j1  j2 = j2  i1 = i1  p1 = p1  p2 = p2
  Jobs = {j1}
  Intents = {}
  Procs = {p1, p2}
  Keys = {k1}
  NoKey = NoKey  NoProc = NoProc  NoIntent = NoIntent
  Contents = {c1}
  LeaseTimes = {1, 2}
  Budgets = {1, 3}
  MaxTime = 7
  MaxLag = 1
SYMMETRY ProcSymmetry
INVARIANTS IInv ExclusiveLease OneWorkerPerGeneration
PROPERTIES FencedWork
CHECK_DEADLOCK FALSE
