SPECIFICATION Spec
CONSTANTS
  f1 = f1
  f2 = f2
  IngestIds = {}
  ListIds = {l1, l2}
  FileDay <- MCNoDay
  Tie <- MCNoDay
  SCORE_STRIDE = 4
  CATCHUP_SCORE_BASE = 16
  HotDays = 1
  IngestCap = 0
  ListCap = 2
  HEAP_SLACK = 0
  REAP_LIMIT = 2
  MAX_ATTEMPTS = 1
  ClaimMax = 1
  FirstToday = 0
  LastToday = 0
  Tokens = {1, 2}
  MaxFaults = 1
INVARIANTS
  QueueExclusive
CHECK_DEADLOCK FALSE
