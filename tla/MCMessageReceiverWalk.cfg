SPECIFICATION FairSpec
CONSTANTS
  SLOTS = 3
  BYTE_BITS = 2
  WND_BITS = 6
  MAX_SEQ = 15
  AGEING_SIZE = 2
  MOVE_SIZE = 1
  SEQ_BEGIN = 0
  FirstPt = 1
  LastSeq = 3
  Long = {2, 3}
PROPERTIES
  WalkEnds
