SPECIFICATION FairSpec
CONSTANTS
  f1 = f1
  f2 = f2
  Writer = Writer
  NoThread = NoThread
  Flushers = {f1}
  InlineOk = {TRUE, FALSE}
  MayStop = TRUE
  MayTimeOut = TRUE
  MaxChanges = 2
  MaxFlushes = 2
  MaxFaults = 1
INVARIANTS
  TypeOK
  FlushDurable
PROPERTIES
  SavesInOrder
  MarksReachDisk
  FlushAnswered
CHECK_DEADLOCK FALSE
