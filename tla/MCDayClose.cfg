SPECIFICATION FairSpec
CONSTANTS
  f1 = f1
  f2 = f2
  f3 = f3
  None = None
  File = {f1, f2, f3}
  Late = {f3}
  BatchSize = 2
  MaxFaults = 1
  MaxCrashes = 1
INVARIANTS
  TypeOK
  SafelyRemoved
  DoneHoldsNoRaw
PROPERTIES
  DayCloses
CHECK_DEADLOCK FALSE
