SPECIFICATION FairSpec
CONSTANTS
  f1 = f1
  f2 = f2
  IngestIds = {f1}
  ListIds = {}
  FileDay <- MCFileDay1
  Tie <- MCTie1
  SCORE_STRIDE = 4
  CATCHUP_SCORE_BASE = 16
  HotDays = 1
  IngestCap = 1
  ListCap = 1
  HEAP_SLACK = 0
  REAP_LIMIT = 1
  MAX_ATTEMPTS = 2
  ClaimMax = 1
  FirstToday = 1
  LastToday = 1
  Tokens = {1, 2}
  MaxFaults = 3
PROPERTIES
  AllWorkResolved
CHECK_DEADLOCK FALSE
