SPECIFICATION FairSpec
CONSTANTS
  SLOTS = 4
  SEQ_MOD = 16
  SEQ_BEGIN = 0
  FirstPt = 2
  LastSeq = 4
  Racing = FALSE
INVARIANTS
  TypeOK
  ListShape
  NotPassedOver
PROPERTIES
  KeptUntilConfirmed
  WorkerReturns
