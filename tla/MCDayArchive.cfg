CONSTANTS
  f1 = f1
  f2 = f2
  f3 = f3
  a1 = a1
  a2 = a2
  c1 = c1
  c2 = c2
  r1 = r1
  None = None
  File <- TwoFiles
  Size <- MCSize
  Appender <- OneAppender
  Closer <- TwoClosers
  Mapper <- MCMapper
  MaxSeals = 3
  MaxKills = 1
  MaxLosses = 1
SYMMETRY Workers
SPECIFICATION Spec
INVARIANTS
  TypeOK
  InvCopy
  MapTruthful
  TarCoversSealed
PROPERTY SealedKeepsMembers
CHECK_DEADLOCK FALSE
