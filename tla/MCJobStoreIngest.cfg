SPECIFICATION Spec
CONSTANTS
  f1 = f1
  f2 = f2
  IngestIds = {f1, f2}
  ListIds = {}
  FileDay <- MCFileDay
  Tie <- MCTie
  SCORE_STRIDE = 4
  CATCHUP_SCORE_BASE = 16
  HotDays = 1
  IngestCap = 1
  ListCap = 1
  HEAP_SLACK = 0
  REAP_LIMIT = 1
  MAX_ATTEMPTS = 2
  ClaimMax = 2
  FirstToday = 1
  LastToday = 2
  Tokens = {1, 2}
  MaxFaults = 1
INVARIANTS
  TypeOK
  QueueExclusive
  LeaseMatchesInflight
  ProtectedClaimOwned
  ShadowMirrorsQueues
  CleanMeansDurable
  HeapArmed
  DaySlot
PROPERTIES
  ClaimTakesOldest
  AttemptsKept
CHECK_DEADLOCK FALSE
