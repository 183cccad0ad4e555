CONSTANTS
  w1 = w1
  w2 = w2
  r1 = r1
  s1 = s1
  i1 = i1
  i2 = i2
  i3 = i3
  i4 = i4
  i5 = i5
  None = None
  Writer <- TwoWriters
  Reader <- OneReader
  Sweeper <- OneSweeper
  Inode <- Inodes
SYMMETRY Interchangeable
SPECIFICATION Spec
INVARIANTS
  TypeOK
  HolderOwnsPath
PROPERTY ImplementsRWLock
