SPECIFICATION FairSpec
CONSTANTS
  f1 = f1
  f2 = f2
  f3 = f3
  None = None
  File = {f1, f2}
  Late = {f2}
  BatchSize = 2
  MaxFaults = 0
  MaxCrashes = 0
PROPERTIES
  RawRemoved
CHECK_DEADLOCK FALSE
