SPECIFICATION Spec
CONSTANTS
  SLOTS = 4
  SEQ_MOD = 16
  SEQ_BEGIN = 0
  FirstPt = 0
  LastSeq = 4
  Racing = TRUE
INVARIANTS
  FoundInList
