CONSTANTS
  m1 = m1
  m2 = m2
  Member <- MCMember
  Bad = Bad
  Torn = Torn
  NoTar = NoTar
  NoJournal = NoJournal
  MaxCells = 3
  MaxSwaps = 2
SPECIFICATION Spec
INVARIANTS
  TypeOK
  PowerLossSafe
PROPERTY AtomicAppendSpec
CHECK_DEADLOCK FALSE
