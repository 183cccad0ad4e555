CONSTANTS
  f1 = f1
  f2 = f2
  f3 = f3
  a1 = a1
  a2 = a2
  c1 = c1
  c2 = c2
  r1 = r1
  None = None
  File <- ThreeFiles
  Size <- Equal
  Appender <- OneAppender
  Closer <- OneCloser
  Mapper <- NoMapper
  MaxSeals = 3
  MaxKills = 0
  MaxLosses = 1
SPECIFICATION Spec
INVARIANT InvCopy
CHECK_DEADLOCK FALSE
