SPECIFICATION Spec
CONSTANTS
  p1 = p1
  p2 = p2
  a = a
  k1 = k1
  k2 = k2
  Writer = Writer
  NoThread = NoThread
  Procs = {p1, p2}
  Callers = {a}
  Keys = {k1, k2}
  MaxSets = 3
  MaxRemovals = 2
  MaxFaults = 1
SYMMETRY Interchangeable
INVARIANTS
  TypeOK
  RemovedStaysRemoved
  SavedStaysSaved
CHECK_DEADLOCK FALSE
