SPECIFICATION FairSpec
CONSTANTS
  c1 = c1
  c2 = c2
  Consumers = {c1, c2}
  Messages = {1, 2}
  Prefetch = 1
  MaxFaults = 2
INVARIANTS
  TypeOK
  AckedArchived
  AnswersMatchDelivery
  NoStrandedDelivery
PROPERTIES
  EverythingAcked
CHECK_DEADLOCK FALSE
